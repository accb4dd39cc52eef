# BendCAD: a TLA+ verification project

BendCAD is a boundary-representation CAD kernel written in Bend, driven by a
command line (`bendcad <design> <verb> ...`), by a resident server
(`bendcad serve PORT`) and, for agents, by an MCP front end in Node.js that
spawns the server and talks to it. A design is a text file of parameters, nodes
(operations that build bodies from other nodes), materials and threads. Beside it the
repository carries the legacy application with its kernel host
(`legacy/aethalgard/native/kernel-host`, C++ over Open CASCADE): a process that
evaluates documents of operations on request, under deadlines, and names the faces,
edges and vertices of what it builds so that later operations can refer to them.

Most of the 75,000 lines of Bend and much of the C++ are numerical geometry: floating
point, intervals, intersection and classification of surfaces. This project is
about the rest, where the order of steps decides whether an answer is right. In the
Bend program: the request gate, incremental evaluation and its cache, the edits and the
writing of the design file, the life of the resident server under the MCP front end,
the check of a body. In the kernel host: its three threads, the publication of STEP
files, which bodies an operation reads and consumes, the replay cache, and the names.

Paths below are relative to the repository root. Contents:
1. components, 2. plan, 3. modules and code, 4. runs, 5. fairness, 6. proofs,
7. disagreements with the documents, 8. what is not modelled.

## 1. The system's components

### Request gate - `src/c13/req.bend`, `src/c06/cli.bend:1326-1337, 1482-1497`
State: the argument list still to read, the cap and the cancelled flag read so
far; then the node ids still to count and what is left of the cap.
Operations: `parse_go` (one flag at a time), `main_isnew_go` (`new` skips the
gate), `dec_of`, `over_ids` (counts ids and cap down together).
Interaction: runs before anything is evaluated, on the loaded design.
Hard: flags in any order and number; the cap equal to the number of nodes.
Correct when: the decision is the one the whole argument list asks for; the
budget is exact; every request is decided.

### Evaluator and its cache - `src/c06/model.bend`, `src/c06/xp.bend`, `src/base/par.bend`
State: the entries (`CE`: id, key, result) of the previous evaluation (`old`), of
the levels done (`acc`), and what the server keeps per path between requests
(`SE`, `sc_get`, `sc_put`).
Operations: `ev_part` (whole design), `ev_for` (what some ids need), per node
`ev_one`: inputs usable?, key (`op_w`, `it_w`, keys of the inputs), lookup
(`keq`), `op_build`, `publish` (the declared intent against the measured effect).
Interaction: a query evaluates the whole design over the server's entries, stores
the result, and evaluates the ids of the verb over it; an apply evaluates the
edited design and stores it only if it is all right; `sens` evaluates the bumped
design over the entries of the unbumped one.
Hard: a stale entry that is reused; nodes of one level run in parallel
(`pmap_g`); missing, failed or later-listed inputs; the fuel of `nd_need`.
Correct when: every answer is the one a fresh evaluation in list order gives; an
entry with equal id and key always has the same result; inputs are there before
the nodes that read them; nothing is built twice for one query.

### Edits and the design file - `src/c06/cli.bend`, `src/c06/sx.bend`, `src/k2/mat.bend`, `src/k2/thr.bend`
State: the file; per request the design it loaded, the design it will write, the
line it will answer.
Operations: `read_file`/`load`, `edits_ok`, `edits`, `ev_part`, `mats_err`,
`commit_go`, `write_file` (open with "w", then write), `main_new`.
Interaction: run by the server in turn, or by one-shot processes.
Hard: a kill between truncation and write; a cut file that still loads; edits
that replace nodes in place or delete what others stand on.
Correct when: every request takes effect at one moment or not at all, and the
file always holds a design that builds.

### Resident server - `src/c06/cli.bend:1339-1460`
State: the listener and the entries per path. Operation: accept, receive the path
of a request file, read it, handle it, send, close; one connection at a time,
1,000,000 connections. An I/O failure (`IO.pass`, `IO.try`) ends the process.
Hard: what is kept between requests (evaluator), dying inside a request (file,
front end).

### MCP front end - `tools/mcp/bendcad-mcp.mjs`
State: `server` (the process last spawned, cleared by its exit event), `busy`,
`closed`; per call the captured `live`, its timer, `late`, attempts, text received.
Operations: `serve` (spawn or attach, poll, verdict), `ask`, timer, exit event,
`rl` line and close, process exit. Interaction: spawns and kills servers, talks to
them over a socket; its client may send calls before earlier ones are answered.
Hard: events in any order - exit after close, timer against answer, one call's
server under another's.
Correct when: at most one server runs and can be reached; every call is answered;
a server is killed for a reason; nothing is left behind at the exit.

### Boundary representation - `src/c04/types.bend`, `src/c04/ops.bend`
State: a body is seven append-only stores (vertices, edges, coedges, loops, faces,
shells, solids) and a root; every entry carries the stamp of its push and handles are
an index with a stamp. Operations: push, resolve, and `brep_checked`, which refuses a
body at the first of twelve stages that fails. Interaction: builders push and check;
booleans, archive and STEP trust what was checked.
Hard: every stage reads what the earlier ones are to have established; the vertex
stage decides the shape of a link from one orbit and a count; pairing is judged over
the store and ownership over the member lists.
Correct when: what is accepted is a surface - links are cycles, shells in one piece,
boundaries closed - and nothing that is one is refused at those stages.

### Kernel host: server and watchdog - `main.cpp`, `server.cpp`, `operation_timeout.cpp`, `cancel.cpp`, `protocol.cpp`
(paths of the host are under `legacy/aethalgard/native/kernel-host/src`.)
State: what the reader does, `busy_`, the current request, the worker and its
generation, the cancel flag every operation polls; the watchdog's armed deadline and
the first cause that claimed the request. Operations: answer health and stats, claim
the worker, cancel and wait, run operations one by one, shape or publish, settle, clear
`busy_`, write the answer, stop and join. Interaction: three threads over two mutexes
and one flag; a client that may send anything at any time.
Hard: a deadline against a cancel against the end of the operation; a flag left from the
request before; an acknowledgement before the worker has let go; the end of the input
while a work runs.
Correct when: interruptions are told as they happened, a cancel is a barrier, BUSY is
told only while somebody is served, and everything read is answered.

### Kernel host: STEP publication - `step_atomic_write.hpp`, `geometry.cpp:6906-7069`
State: the file at the output path, in the cache and on the disk; the temporary.
Operations: write, flush, read back, rename, flush of the directory, removal on failure.
Correct when: the file at the path is always one that was whole, whatever happens.

### Kernel host: operations and body pool - `body_pool.hpp`, `geometry.cpp`, `*_feature.cpp`, `ref_slot.hpp`
State: the bodies produced, the set of consumed ones, the body each operation id stands
for, profiles and paths, the bodies that have names and records. Operations: the 38
operation types of a document, each a sequence of checks, reads, consumptions, naming
and harvests. Hard: a handler that reads before it consumes; ids with several bodies;
failure between consuming and producing; a body nobody named.
Correct when: ids and consumed flags agree, material is used once, and every visible
body is named in the channel engaged.

### Kernel host: replay cache - `geometry.cpp:6553-6900`, `operation_hash.cpp`
State: snapshots of the evaluation after each operation, by cumulative hash, in order of
use, with their bytes. Operations: longest prefix, restore, snapshot, evict. Hard: what
the hash leaves out; eviction while a document is evaluated; a cancelled or failed rest.
Correct when: a resumed evaluation answers as one from nothing, and the books balance.

### Kernel host: element names, registry and references - `element_names.cpp`, `naming_registry.cpp`, `selector_evaluator-core.cpp`, `ref_resolution*.cpp`
State: the name book; one record per minted token, the records that answer for each
sub-shape, the datums. Operations: root names, names from history with disambiguators
and bounds, one harvest per kind of operation (birth, boolean, fillet, pattern, mirror,
offset ...), retirement; a slot resolves a selector, then by the history and signature
channels of its anchor, then by the enriched recovery.
Interaction: handlers harvest into it, later operations resolve through it.
Hard: names must survive operations done between taking a reference and using it.
Correct when: a live record names the shape its token was minted for, and a recorded
reference resolves to that or to nothing.

### The other packets
`c00` (a pure request evaluator; `docs/c13-errors.md` records that the shipped path
does not call it), `c01`-`c03` (mathematics, exact predicates, curves and surfaces),
`c05` (planar arrangement, sketch constraint solver), the body
builders of `c06`, `c07` (intersections), `c08` and `k1` (booleans), `c09` and
`c16` (features, sheet metal, surfaces, blades), `c10` (tessellation), `c11`
(queries), `c12` (archive, STEP, meshes), `c14` (assemblies), `c15` (PMI), `k2`
(materials, threads, fits), `k3` (rotor dynamics, finite elements), `viewer/`,
`laws/` and `tests/`; of `legacy/`, the sketch solver, the mutation and OCAF studies,
tessellation, drawings, simulation, measures and mates, and the TypeScript
application. PROJECT.json lists each with the reason it is not
modelled; section 8 sums up.

## 2. The plan

The most important behaviour first: what an agent, or the application, is told about a
design must be true of the design. In order:

| step | modules | abstract specification | state |
|---|---|---|---|
| 1 gate | RequestGate | Expected, read off the whole argument list | done; all safety proved |
| 2 evaluation | DesignOps, Evaluator, FaithfulDesigns | Reference, a cacheless sequential evaluation | done; all safety proved |
| 3 file | DesignEdits, AtomicDesign, DesignFile | AtomicDesign, requests that take effect at one moment | done; refinement proved |
| 4 front end | McpFrontEnd | - | done; safety proved |
| 5 representation | Brep, BrepCheck, Components | links, pieces and boundaries said without the algorithms | done; the check proved, the rounds of Components checked against it |
| 6 host's threads | StepExport, KernelServer | - | done; all safety proved |
| 7 host's operations | BodyPool, SolidOps, ModifyOps, SheetMoldOps, Operations | - | done; all it keeps proved |
| 8 replay cache | KernelReplay | the same evaluation from nothing | done; both properties proved |
| 9 names | ElementNames, NamingRegistry, ReferenceResolution, NamedDocument | what each token was minted for | done; all four properties proved |
| 10 | stores of c04, batch, lineage (c08, c14, c15), kernel requests (c00) | - | not done, section 8 |

Composition: FaithfulDesigns extends Evaluator extends DesignOps; Components
extends BrepCheck extends Brep; DesignFile
extends DesignEdits and refines AtomicDesign; McpFrontEnd stands beside them, its
"server dies" being DesignFile's Kill and Evaluator's Restart. KernelServer extends
StepExport, whose steps are steps of its worker. Operations extends SheetMoldOps,
ModifyOps, SolidOps and BodyPool, one layer of handlers on the other. NamedDocument
extends ReferenceResolution, NamingRegistry and ElementNames. KernelServer takes an
evaluation as a work of some operations, KernelReplay and Operations take it as a
sequence of them: the flag that interrupts one is an outcome in the others.

## 3. Modules and code

**RequestGate.** One request, one token or one node id per step. `Flags`, `Words`
and `Numerals` are the kinds of token parse_go tells apart. FlagPrefix, CancelAsked
and AskedCap define the decision from the whole list, without reading it left to
right.

**DesignOps.** Operations as records: kind, up to two inputs, one dimension, the
ids it reads without evaluating. One kind stands for each way an operation takes
inputs and enters the key: primitives, features on a base (pad, pocket, move),
booleans, naca4 sections, stacks (blade, skin), imports and unknown operations. A
body is its volume and bodies are nested, so a boolean is a minimum, a maximum or a
difference; a declared intent is a material effect. Words is `op_w`: what it
leaves out, the model leaves out. NeedIds runs on the source's fuel. The levels, the
worklist and the reference are recursive functions, which can be proved about.

**Evaluator.** One action per evaluated node; a level ends when its nodes have run
in any order, and they see only earlier levels (`acc`). Query, Apply and Sens start
passes; EndWholePass is `srv_query` storing the entries and handing them to the
verb, EndApply is `srv_commit`, EndFirstSens the step from `c0` to the bumped
evaluation. The central difference has two bumped passes with the same inputs; one
stands for both. Restart is a new server; a one-shot command is a request after it.
Keys are kept as nested tuples; the source concatenates their words, and since every
operation writes a tag and a length-determined list, the two compare alike on the
designs of the runs. The cache of one path is modelled: `sc_get` and `sc_put` keep
paths apart.

**FaithfulDesigns** states for which designs keys are complete: no operation reads
another node's operation, digests tell payloads apart, inputs are listed before use.
The assumptions are named, evaluated by TLC on the instance and used by the proofs.

**DesignEdits.** nd_set in place, nd_del of the first node of the id, a material
bound to a node, edits_ok as a test of every edit before any is applied. Builds is
what commit_e asks: distinct ids, inputs listed before, materials bound.

**DesignFile.** Reading (size and text) is one step: nobody else opens the file
while a request is at work. Deciding, opening, one partial write, the rest of the
write, answering are steps of their own, and Kill may come between any two, also while
the file is written: the front end's timer does not ask.
A text that ends inside an item loads as an empty design, since `parse` answers with
the innermost open list and `load` ignores its verdict; one that ends between items
loads as the items before.

**AtomicDesign** is the promise: invalid, rejected, committed, shown, created, each
at one moment; then heard, or lost. Its constant Left says what a torn write may leave.
With nothing left it is the promise as the documents word it, which the code breaks
(section 7); DesignFile implements it with Left the beginnings of the
design being written, each of which builds.

**McpFrontEnd.** A handler runs to its next await as one step. A server is unborn,
starting, up, dead (not yet known to the front end) or reaped. An answer arrives in
two parts, since a connection can close after some of it. `signalled` is the null
exitCode that keeps a call polling.

**Brep** has the stores as sequences of records, handles that count from 1, and one
operator per stage, B to I. Sorting and searching are left out where they only find
things (`kfind`, `msort`); what is decided from the sorted lists is kept: uses over the
whole store, neighbours among the places of an edge, the orbit label and its count.
Points, curves, surfaces and trims are left out. What they decide is an outcome: whether
the fuel covers the knot lists (`es_nbmax`, the last term of `ix_bound`) in Bound, whether
the domains, trims and tolerances of a body are well formed (`vx_valid` to `so_valid`) in
Assemble. Shaped is what every body has, accepted or not: sequences of typed entries.
ShellConnected spreads labels over joined faces as often as there are faces; the mechanism
that does it in the code is in Components.

**BrepCheck.** One action per stage, in the order of `ck_c` to `ck_l`; a stage that
rests on coordinates may go either way. Below the specification stand the
references: the link of a vertex as a graph of edge ends and corners, pieces as parts
that nothing connects, the Euler number, the rim. **MCBrep** builds bodies from plans.

**Components** is `components` of `src/base/par.bend`, by which the faces of a shell are found
to be in one piece, as operators: a round hooks the greater label of every crossing edge
onto the least it meets and jumps as often as `rounds_of` says, and Labelled goes round until
nothing hooks or the rounds are spent (`cc_go`, 64). BrepCheck decides the stage by
ShellConnected; RoundsSettle holds the rounds to that, on every shell a run brings to the
stage. The uses of `components` in sketches and intersections are not modelled.

**KernelServer.** One action per stretch of a thread between two points where another
may see it: a lock, a write of the flag, a frame. The reader's `pc` says what it waits
for (a worker to launch, one to join, the end), the worker's how far a
work is. `dog` is the watchdog's armed operation, its deadline passed or not, the cause
that claimed the request; `first` records which cause came first, for the properties
only. An operation may return, throw, or poll the flag; it never has to return. Crash is
the supervisor's kill or a machine that stops: StepExport says what is left of the
files. The methods that answer at once are one kind, those that run on the worker two:
an evaluation and an export.

**StepExport.** A content is whose export it is and how far it came: partial, written
(in the cache), synced, or garbled (complete and unreadable as STEP). `flushed` is the file a
machine that stops finds at the path: before the directory is flushed the rename may or may not have
survived. Verified exports read their temporary back.

**BodyPool** is the pool and the name channels. A handler is a *plan*: the sequence of its
checks and calls on that state in the order of the code. **SolidOps**, **ModifyOps** and
**SheetMoldOps** are the 38 handlers as plans, one operator each; the `fault` of an
operation says which check its numbers fail and `picked` what its reference resolves
to, since both are geometry's. **Operations** makes a plan when an operation begins and
runs it step by step; a step that throws ends the evaluation with its code.
RouteAssumption: the source face of a wire route is a reference slot of it.

**KernelReplay** has operations as what the key could confuse: content that is hashed,
anchors and the suppressed flag that are not. Channel is chosen by the document and the
request; a fresh evaluation threads the registry, a resumed tail none (`geometry.cpp:6963`).
Without it a slot is refused, a flat pattern goes unnamed (`sheet_metal_feature.cpp:1501`),
and no harvest looks for records, so that combining a body without them (after thicken,
stitch, boundary or mold operations) succeeds. A snapshot holds what `SnapshotOf` keeps
and restores what `RestoreFrom` reads; its bytes count its operations and names. Of the
refusals of a harvest only missing names and records are modelled, not those for
the topology of a result.

**ElementNames** has names as sequences of segments, and the hash of a set of names as
the bag of them.

**NamingRegistry** has one operator per harvest; a record carries
`born`, not in the code: the shape its token was minted for. A birth gives every sub-shape
the role of its class and of the boundary it lies on, and is refused unless it fits:
faces, edges and vertices present, no boundary ambiguous, walls on the surface of their class,
as many entities of each role as the class has. An operation is refused when its history
gives an image a role the class has none for (NoRole: Transform and what it generates). A
birth is of one solid. Construction lines, the stable ordinals of sketch edges
(`RegisterSketchEdges`), are not registered; datums are.

**ReferenceResolution** is the selector's sources and filters, the arity, the two channels
and the enriched recovery; a selector is evaluated over the constant Queries, closed under the
queries inside its filters. What geometry a shape has is its class, its size and its frame
(direction, line, radius), and the two scores give their points by these: class and size to
edges and faces only, normals by direction, the enriched terms for a radius, a parallel and a
coaxial axis to every shape that shares them. Near is what nearness adds. The adjacency hash is
injective on the set of neighbouring tokens, which is what the code hashes (a `std::set`).

The order of bodies of one operation is its output number, so the document keeps
a set of them. **NamedDocument** lets Open CASCADE, which is outside the repository, build
results with their histories on small solids, harvests them as the handlers do, and
takes an anchor somewhere on the way.

Not in any module: the wording of answers and diagnostics, except that refused,
rejected, committed, timed out and lost are told apart.

## 4. Runs

| run | what it asks | instance and bounds |
|---|---|---|
| request_gate | BudgetExact, DecidedAsAsked, EventuallyDecided, GateTypeOK | all lists of up to 4 of 8 tokens, 0-4 nodes, default cap 3: caps below, at and above both the size and the default; two flags with values and a verb fit in four tokens. 85,619 states |
| evaluator | AnswerFresh, Coherent, InputsSettled, SecondPassBuildsNothing, EveryRequestAnswered, TypeOK | 11 designs that differ by one edit, with the failures FaithfulDesigns allows; ids asked: all, one, two, unknown; two bumps; 3 requests: one to fill the cache, one to disturb it, one to be wrong. 20,108 states |
| design_file | Linearizable, FileBuilds, EveryRequestTold | 7 requests (add, replace forward, delete and orphan, bind a material, malformed, query, new) in every order, one killed anywhere, inside write_file too. 345,579 states |
| mcp | OneServer, NothingLeft, LostToOthers, KilledForCause, SerialCallAnswered, TypeOK | 3 calls: one ordinary, one that never ends, one that ends the server, of which two at most overlap; 3 servers, 2 attempts. 415,867 states |
| brep_check | LinkVerdict, ShellVerdict, RoundsSettle, EulerEven, RimCloses, TypeOK | two edges on one or two vertices with every cyclic order of coedges, every way to put loops into faces and faces into shells, poles, odd uses, uncovered coedges; three edges where they chain; 22 single faults; a strip of five faces listed in every order and one of seven; both profiles, two fuels. 340,602 states |
| kernel_server | InterruptHonest, CancelIsBarrier, ExportHonest, BusyIsTrue, EveryRequestAnswered | an evaluation of two operations and an export of one, in either order, a cancel of the evaluation, an immediate request, a frame that throws, a crash anywhere. 496,032 states |
| operations | PoolSound, UsedOnce, NamesComplete, TypeOK | documents of two to five operations, every type with its optional parts and faults, in eight families (births, lofts, joins, changes, copies, sheet metal, surfaces, molds). 397,074 states |
| operations_peek | ReadsWhatItConsumes, violated | an import of several solids and one operation on it |
| kernel_replay | CacheAccounted, WarmAgrees | 17 documents one edit apart, 3 requests with and without names, a budget of two snapshots and a part of a third. 1,664,274 states |
| replay_warm | WarmIsCold, violated | 5 of them, without slots; 2 requests |
| naming | IndexSound, TokenFollowsItsEntity, RecordNamesItsShape, AnchoredIsFound | documents of 3 and 4 operations over a ball, a segment and a cylinder, picks anywhere, 3 rounds of sweeps. 16,939 states |
| naming_twin | NoSilentMisreference, violated | a segment filleted, one of two edges of one name picked, a hole over it |

Bounds that could hide something, and why they do not: MaxServers equals the number
of calls, and a call spawns at most once. MaxTries is 2 instead of
600: a call gives up at its last attempt wherever that is. MaxKills is 1: a killed
request changes only its own variables, so a second kill meets no new state of the
file. Evaluator's MaxRequests is 3 because an entry is computed, reused or dropped, and
answered. Two edges already make spheres, a torus, pinched vertices and disjoint
pieces, three make chains of faces; fuel 3 is below the longest list of most bodies and
at that of some. In kernel_server a second work finds the first in its place (BUSY) or
follows it, and of two operations one can meet the deadline of the other. In operations
most handlers need one or two earlier ones; sheet metal, surfaces and molds build on
chains of four or five, and have them. Near is 6 of the
15 points nearness can add to a score: another shape of the part is near, not equal.
Rounds is 3 because three sweeps settle every solid here (32 in the code), AliasCap is 2
(8 in the code) so that the cap is met.
The strip of seven faces settles in its first round; with one jump in each round it would
need six. The strips of five are listed in every order, and some need three rounds. That 64 are enough for any shell rests on the argument at RoundsSettle (two rounds
halve the roots), which is not machine-checked beyond these sizes.

A run whose property is violated states what a document promises (section 7); the others hold.
Three of the disagreements are kept as runs, those that take several operations or requests.

Deadlock is checked in design_file, where every request is told in the end. Elsewhere
the system really stops: a decided request, a server whose requests are spent, a front
end or host that has exited, an evaluation that is over.

Every property of a passing run has a mutant (`X_How` beside `X`): the operator
changed as a plausible bug would change the code, under which TLC finds the property
violated.

## 5. Fairness

- RequestGate: weak fairness of the one process that reads its arguments.
- Evaluator: weak fairness of a step of the pass; the server waits for nothing inside
  a request. Clients and restarts are under no obligation.
- DesignFile: the process goes on with the request it took and takes the next one
  (`srv_loop`); the operating system finishes a write it began. Kill is not fair.
- McpFrontEnd: Node runs every ready callback, so each call's next socket event and
  its timer are weakly fair, and the operating system runs every process. The timer
  of a slow request is what ends it; a slow request itself is never finished. No call
  is obliged to start and the input need not be closed.
- KernelServer: the three threads are scheduled (reader's started work, worker, watchdog)
  and time passes, so an armed deadline is reached. RunOperation is not fair: geometry
  need not end. What is asked of an operation is that it polls
  (`CheckCancellation`, or `CancellationProgress` handed to Open CASCADE); one that does
  neither is a disagreement of section 7.
- Operations, KernelReplay, NamedDocument: sequential, safety only.

## 6. Proofs

15624 obligations in eight modules, no assumption beyond the named ones of the modules.
Every invariant and every action property a passing run checks is proved, but for
RoundsSettle. The gate and the design file
share CommandLineProofs; every other component has a proof module of its own.

| theorem | statement | assumptions |
|---|---|---|
| GateTypes, GateBudgetExact, GateDecidesAsAsked | types; over exactly when the design has more nodes than the cap; the decision is the one the whole argument list asks for | GateConstants |
| EvaluatorTypes, CacheCoherent, CacheSelfSupported | types; equal id and key carry equal results; entries support themselves | DesignsShaped, RequestsShaped, DigestTellsApart |
| AnswersAreFresh, InputsAreSettled, SecondPassReuses | every answer is the one of a cacheless evaluation in list order; inputs have their entries before their users run; the second pass of a query builds nothing | the same |
| FileAlwaysBuilds, ApplyIsAtomic | whatever is killed and when, what the file loads as builds; DesignFile implements AtomicDesign, in which a torn write leaves a beginning of the new design | RequestsAssumption |
| FrontEndTypes, AtMostOneServer, LeavesNothing, KillsForCause, LostCallsExplained | types and every safety property of run mcp | CallsAssumption, BoundsAssumption |
| BrepTypes, OpenRimsClose | only the fuel exhausts and only the last stage accepts; the rim of an accepted, covered open body closes, for bodies of any size | BodiesAssumption |
| ShellsDecided, LinksDecided | the shell stage refuses exactly the bodies with a shell in several pieces, the vertex stage exactly the solids with an unowned coedge or a link that is not one cycle | BodiesAssumption |
| EulerIsEven | the loops of an accepted solid, each capped by a disc, have an even V - E + L, for bodies of any size | BodiesAssumption |
| InterruptsHonest, CancelBarrier, ExportsHonest, BusyTold | every safety property of run kernel_server, for any number of works, exports, cancels and operations | KernelServerAssumption |
| PoolAlwaysSound, MaterialOnce | ids stand for the last unconsumed body; a body goes into the results of one operation only, for every document | none |
| OperationTypes, MaterialUsedOnce, AnswersAreNamed | types; every consumed body is in the results of one later operation or held by the one under way; every body of the answer has its names | RouteAssumption |
| CacheIsAccounted, WarmAgreesWithCold | list, table, bytes and counters of the replay cache agree within the budget; a resumed evaluation answers as a cold one, unless an earlier request is tangled with it or its tail has no registry where a cold evaluation has one; then it may refuse what a cold one does not, or do what a cold one cannot harvest, and if both succeed they agree | ReplayAssumption |
| IndexIsSound, TokensFollow, RecordsAreNamed, AnchorsAreFound | the four properties of run naming: index and records agree, a live token means what it was minted for, under the name its shape has, and a recovery is of that or of nothing; for documents and solids of any size | AliasCapAssumption, RoundsAssumption, DocumentsAssumption |

*Gate.* Counting down: nodes - ids = cap - left while counting, so ids left at cap 0
means more nodes than the cap. For the decision: what was read is a list of whole flags at
the front of the arguments (FlagsRead), so where the reading stops no longer such list
exists (StopsThere, LongerPrefix), and the flags Expected finds by looking at the whole
list are those that were read; cap and cancel are then those asked for.

*Evaluator.* Coherent is not inductive: it says entries with equal keys agree but not
that a new entry agrees with one whose inputs have since been replaced. The
invariant adds SelfSupported: every entry of a set is what its node yields on inputs
in the same set (or on missing ones). WordsDetermine shows that equal words mean
equal builds under FaithfulDesigns, and DerivedAgree that two derived entries of one
key agree. It needs no induction over the nesting of keys, because the sets are
coherent already for inputs. PassOfDesign ties a pass to a design.

AnswerFresh needs more: not only that entries agree but that they are right. The invariant
FreshInv says of every entry of a pass that it is Right, with the key of its node and the
result Reference gives that position. A level puts a node after its inputs (LevelsRise),
what is kept for a request has the inputs of what it has (NeedCloses: the fuel of
`nd_need` suffices, since every visit takes an id from the list or marks one seen), so at
its level a node finds all it can read (SettledInputs) and, built or reused, is given what
it should be (NewRight). The second pass of a query reads the entries of the first, which
are right for the same design and hold every node: nothing is left to build.

*Design file.* At most one request is at work (OneAtWork), what it loaded is still in
the file until it opens it (Loaded), and what it will write is that design edited and
builds (Drafted); its answer is not decided before (Undecided). The refinement maps
the committed design to what the file loads as, or, while a request writes, to what that
request loaded: truncation is a stutter and the end of the write is the commit. A request
killed while it writes commits what it has written: a beginning of its design, none or
some of the items (CommittedIs, TornBuilds). A beginning of a design that builds builds too:
nodes stand on earlier ones, and materials are written after all nodes (BeginningBuilds).

*Front end.* OneServer needs that a dead server stays in the variable until its exit
event (DeadIsServer), or a spawn could meet a running one; KilledForCause needs that
only pending calls have a timer (TimersPending) and that a server dead of a signal
stays dead (SignalledIsDead); NothingLeft that the exit is after the close.
LostToOthers needs LInv: a call has a server only once it connected to one that was seen
up, a server serves only who connected to it, and, until the front end exits, every
server that is gone and had a call was stopped by a late call or ended by one.

*Representation.* Established carries what each passed stage decided down to the last
one. In a body that has it, Prev maps the coedges leaving a vertex one to one onto
those arriving there: onto because a loop goes round (AroundLoop), one to one because
a covered coedge has one place (PrevAt). Off the rim Twin does the same (TwinOffRim).
Cardinalities are subtracted, and what is left is the rim. Each of coverage, pairing,
chaining and liveness of handles is used.

ShellVerdict: the stage joins only neighbours in the list of places sorted by edge, and
spreads from the first face as often as there are faces. Between two places of one edge
the nearest pair is joined (JoinAcross), so being joined is sharing an edge; the sets of
faces reached grow until they stand still (ReachGrows, ReachStays) and then are a piece.
LinkVerdict: in a body with live handles and twins Turn, twin of the previous, permutes the
coedges of a solid (TurnOfSolid), so the labels pointer jumping finds are those of its
orbits (MetWithin, MetClosed, LabelsMeet). An orbit goes once round the corners of a fan
(FanIsOneOrbit) and comes back, so that as many coedges as leave the vertex with the label
of the first is the same as a link that is one cycle (CornersLeave, LinkIsOneOrbit).

EulerEven needs no geometry and no sum of signs. The orbits of a permutation of a finite set
are its least closed parts (OrbitsOf); exchanging two of its values joins two of them
(ExchangeMerges) or cuts one in two (ExchangeSplits), so their number changes by one
(ExchangeCounts). Away from the poles Turn is Prev with the two coedges of every edge
exchanged (SidesOfSolid), hence the orbits of the two differ in parity by the number of
edges (PairsFlip, by induction on the edges exchanged). The orbits of Prev are the loops
(LoopsCounted, with PlacesAround: a part closed under going back holds every place), those
of Turn are the vertices, since each link is one cycle (VerticesCounted), and each edge has
its pair (EdgesCounted). Pairing, chaining, coverage and links are each used.

*Kernel server.* None of the four properties is inductive. Holding ties `busy_`, the current
request, the reader's and the worker's `pc`: the worker works only on the current
request, and nobody else is between claim and release. Armed says the deadline belongs
to the worker's current operation, Caused that the flag is raised only with a cause
recorded for the current request, Told that an outcome on its way to the answer has that
cause: with them an answer TIMEOUT or CANCELLED is the story of this work and not of the
one before, whose flag NextOperation of the next work could otherwise have read. Barrier
says that the work an acknowledged cancel names was read, is not being started and is
not at work: only then can no later step bring it back.
Progress and Replacing follow the temporary and the target through the publication:
what is renamed was flushed and, when verified, read back, so that a crash leaves the
file of before or the new one. One lemma per action states its effect once; one lemma
per part of the invariant goes through the actions.

*Operations.* PoolInv adds to PoolSound that the bodies are a sequence and that only they
are consumed. It is kept by the two calls that touch the pool, Produce and Consume; every
other step of a plan leaves the pool alone (PoolSteps), so that the proof does not look
at the 38 plans and holds whatever they say. EatenInv adds to EatenOnce that what is held
is consumed, that nothing is held between operations, and that a held body is in results
of the operation under way only.

The other three are about what the plans contain. PlanOK says of a plan, or of what is left
of one: its takes come before its births, and one that takes bears; what is borne without
names is the flat pattern, with the folded body behind it; what a birth reads is a body,
unless a check that fails stands before it. Concatenation keeps that (EarlyFollows,
ReadsAfter), so each handler is proved from its parts (PlansOK), and so does doing the first
step (TailPlan). EvalInv then follows the operation: what it holds is older than it
and is in a body it has borne or has still to bear, an id resolves to a body with names or to
a flat pattern about to be replaced. RouteAssumption is needed since a wire route reads the
body its slot resolved on.

*Replay cache.* Accounts ties the list and the table by their keys, the total to the sum of
the bytes of the entries, the counters to what was stored and evicted. The sum is a recursive
function: what touching, replacing and cutting a list do to it is proved by induction on its
length (BytesOfConcat, TouchedBytes), and so is that the budget keeps a front of the list
(KeptFits). For WarmAgrees the invariant Replays says that, for every request that nothing
asked so far is tangled with, the entry under the hash of a prefix Matches a cold
evaluation there (EntriesCold), and so does the state under way (StateCold); of a request that
was not resumed the state is the cold one exactly (StateExact). Without a registry Matches is
equality. With one, the cold evaluation may have ended at a harvest that found no records;
else the two have the same bodies, and the cold one names at least what the other does. A key
is a list of words: an entry found for a request was stored by one that has the same words,
so that the two agree on the prefix or differ in what the key leaves out, which is to be
tangled (OnePrefix).

*Names.* None of the four is inductive: a harvest rests on what the kernel reported, and on
more of the registry than they say. Sound has a part for each. Registry says of the records
and the index that every shape that answers has a chain of records naming it, and that every
live record is on the chain of its shape, with the name the book has for the shape and
a shape that continues the one it was minted for (Speaks). Indexed and Apart relate it
to the document: who must answer does, nobody else is in the index, and no sub-shape is of two
bodies. Prepared holds between the two steps of an operation, after Open CASCADE built and
before the harvest: the result and its history stand on the inputs and on new shapes only, and
the only image of a source that lives on continues it (Fits). TLC checked Sound on the
small instance before it was proved. The proof goes up the layers. Names only
grow, each from its parents, whatever the history (ElementNames). One mint keeps Registry if its
plan is new to the index or is the only image of its alias; the plans of a harvest are, since
CarriesOn admits one image of a source and one source of an image; and what is left over is
retired, so no record outlives its shape. Of each of the seven operations that have a history it
is shown that what they build Fits. AnchoredIsFound needs no more invariant: an entity answers
under the name of any of its live records (AnswersToItsName), so the history channel tells of
the anchored entity or of none (HistoryTells), and both recoveries are corroborated by it.

Recursive functions over the naturals are proved about by an equation each: a function that
satisfies it exists for every length, by induction, which is the least number principle
(LeastNumber, from the well-foundedness of the order of the naturals).

Only model-checked: RoundsSettle, whose labels are a recursion over rounds and jumps, and liveness (EventuallyDecided, EveryRequestAnswered of both servers,
EveryRequestTold, SerialCallAnswered), which is beyond the prover.

## 7. Disagreements with the documents

Three are runs that TLC finds violated:

- operations_peek. Handlers that look at an operand before they consume it take the
  first visible body of the id, `BodyPool::Consume` the last one (`geometry.cpp:5918`):
  of an import of several solids one is patterned and another consumed.
- replay_warm. A snapshot of an evaluation without element names is restored into one
  that asks for them (`geometry.cpp:6629`), and the answer reads an empty optional
  (`server.cpp:741`). `geometry.hpp:182` promises output byte-identical to a cold one.
- naming_twin. Two entities may have one name; after one is gone the other is the only
  match and a reference to the first resolves to it (`ref_resolution-core.cpp:168`),
  where `ref_resolution.hpp:69` promises `Ambiguous`.

The others were found by asking the models for the promise; the instances of the passing runs
keep away from them, or their properties ask for what is left of the promise:

- A stale blade. A blade's key names its sections by id (`model.bend:1285`) while its
  build reads their operations; after an edit to a section the server answers with the
  old blade. `tools/mcp/language.md:622` promises output byte-identical to the one-shot
  command. The same omission makes `sens` of a section parameter zero
  (`cli.bend:390`), against `docs/c06-contract.md:232`, in a single one-shot command.
- A stale refusal. A node refused because an input is listed later stores the refusal
  under the key of its success (`model.bend:3657`); after the design is put in order the
  server still refuses, and the other way round.
- Half a design. `write_file` truncates before it writes (`cli.bend:454`), and the
  front end's own timer kills servers. `docs/c06-contract.md:224` and the tool text
  (`bendcad-mcp.mjs:138`) say apply is atomic, "otherwise nothing changes". What the code
  does keep is Linearizable of run design_file, whose kills include this one.
- A timer on the wrong server. The timer kills the server captured at the start (`bendcad-mcp.mjs:109`); an
  overlapping call served by a later one has lost its time limit (`docs/c13-errors.md:91`).
- A dead server asked again. The call right after a reported death attaches to the dead process
  (`bendcad-mcp.mjs:100`), against `tools/mcp/language.md:624`.
- An open shell. `use_ok` counts the uses of an edge over the store
  (`ops.bend:621`); a solid whose shell leaves out a face, or whose closed surface is
  split between its outer shell and a cavity, is accepted. `docs/c04-contract.md:346`
  lists "open-boundary under solid" among the failures.
- A failed export that replaced. When the directory cannot be flushed after the rename, the export answers an
  error and the new file stays, against the comment at `geometry.cpp:7043`; ExportHonest
  therefore asks only CANCELLED and TIMEOUT to leave the old one.
- A tail without its registry. A resumed tail has no registry (`geometry.cpp:6963`): an unfold there leaves its
  flat body unnamed and the answer is INTERNAL_ERROR where a cold one succeeds, and a
  transform or boolean of a body without records succeeds where a cold one is INTERNAL_ERROR.
  The comment above it grants the refusal of a slot only.

An apply can also be reported cancelled although it was committed; AtomicDesign allows that,
since the answer is lost.

Seen while reading, not run: a node with a material or thread cannot be deleted, because
no edit removes either (`cli.bend:172`); an unused edge in the store makes every solid
invalid although `docs/c04-contract.md:332` says unreferenced slots never reject; an answer cut by a kill is reported ok (line 114);
`docs/c13-errors.md:58` gives the default cap as 2^64 - 1 where the code has 2^48 - 1;
`docs/c06-contract.md:220` says no path accepts a cache, which `serve` has made
outdated; a second apply in one batch starts from the design before the first.

In the kernel host, likewise: `ExportStepXde` does not read its file back; a frame
without a string requestId throws out of the reader's loop and ends the host;
tessellation and publication run outside a deadline, and an operation that does not poll
blocks the reader that joins it; operations with one id orphan each other's bodies;
bodies nobody recorded (thicken, stitch, mold, wire, boundary) end later harvests with
INTERNAL_ERROR; the flat body of unfold has no name under the bare book; an import of
several solids shares names without `nameCollision`, and the alias of a twin is minted
without it; the enriched recovery answers a range slot that found too many with
one entity, be its minimum two (`ref_resolution.cpp:120`), where `ref_resolution.hpp:23`
has Resolved mean that the arity is satisfied; edge_flange never retires its target's records; the
harvest of a pattern that keeps its seed retires records of a body still visible; a
local face offset leaves live `tool` records on shared sub-shapes, against the comment
near `naming_registry.cpp:1360`; a name carries eight hexadecimal
digits of its operation's id (`element_names.cpp:54`).

## 8. What is not modelled, and why

- Geometry: `c01`-`c03`, `c05`, `c07`-`c11`, `c16`, `k1`, `k3` and the builders of
  `c06`. Their correctness is in rounding and interval bounds; an abstraction that
  TLC can enumerate would drop exactly that. The evaluator takes each as a function of
  its inputs, and the properties hold for any such function that DesignOps abstracts.
- Several processes on one design file: they interleave without a lock and lose updates.
  No document promises otherwise, so there is no property to check; it is a hazard.
- A foreign server on the port, a missing executable, signals to the front end itself (nothing
  says what they leave behind), a
  server that dies on its own outside a request, and the 1,000,000-connection budget.
- `cli()` calls of the front end: spawnSync blocks the event loop until they end.
- `batch`: each sub-command is a request of DesignFile on the design as loaded at the start;
  its consequence is in section 7. The text grammar (`sx`), sorting and tables are text
  and pure functions with laws of their own in `laws/`.
- The pushes of `c04`, whose handles are checked again by `brep_checked`; the geometric
  stages of that are outcomes in BrepCheck. Names in `c08`, `c14`, `c15` rest on
  classified fragments; names are modelled where the kernel host implements them. `c00`
  is not on the shipped path.
- The viewer's file server, which keeps no state.
- In the kernel host: the sketch solver, tessellation, drawings, simulation, measures and
  mates, numerical and without state of their own; the stable ordinals of sketch edges and births of
  several solids in the registry; the mutation and OCAF cases, which
  rebuild fixtures and report Open CASCADE's history; filters of a selector by measured
  quantities; the hashes, taken to be injective; the TypeScript application, read only as
  KernelServer's client.
