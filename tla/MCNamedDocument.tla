----------------------------- MODULE MCNamedDocument -----------------------------
(***************************************************************************)
(* Small closed solids: a ball, a segment of a ball (two half discs meeting *)
(* in an edge, and a piece of the sphere) and a half cylinder.              *)
(***************************************************************************)
EXTENDS NamedDocument

Part(kind, below, looks, side) == [kind |-> kind, below |-> below, looks |-> looks, side |-> side]

Flat(size, dir) == <<"plane", size, Frame(dir, 0, 0)>>
Axis(class, size, dir, line, radius) == <<class, size, Frame(dir, line, radius)>>
Point == Part("v", {}, <<"point", 0, NoFrame>>, "none")

MCBall ==
  <<Part("f", {2, 3, 4}, <<"sphere", 1, NoFrame>>, "none"),
    Part("e", {5, 6}, Axis("circle", 3, 5, 5, 3), "none"),
    Part("e", {5}, <<"other", 0, NoFrame>>, "pole"), Part("e", {6}, <<"other", 0, NoFrame>>, "pole"),
    Point, Point>>
MCCylinder ==
  <<Part("f", {4, 5, 6}, Axis("cylinder", 2, 4, 4, 2), "none"), Part("f", {4}, Flat(1, 4), "start"),
    Part("f", {5}, Flat(1, 0 - 4), "end"),
    Part("e", {7}, Axis("circle", 4, 4, 4, 2), "start"),
    Part("e", {8}, Axis("circle", 4, 4, 4, 2), "end"),
    Part("e", {7, 8}, Axis("line", 4, 4, 3, 0), "none"), Point, Point>>
BallSegment ==
  <<Part("f", {4, 5}, Flat(2, 1), "start"), Part("f", {4, 6}, Flat(2, 2), "end"),
    Part("f", {5, 6}, <<"sphere", 2, NoFrame>>, "none"),
    Part("e", {7, 8}, Axis("line", 3, 3, 3, 0), "none"),
    Part("e", {7, 8}, Axis("circle", 3, 1, 1, 2), "none"),
    Part("e", {7, 8}, Axis("circle", 3, 2, 2, 2), "none"), Point, Point>>
HalfCylinder ==
  <<Part("f", {5, 6}, Flat(2, 0 - 1), "start"), Part("f", {7, 8}, Flat(2, 1), "end"),
    Part("f", {5, 7, 9, 10}, Flat(4, 3), "none"),
    Part("f", {6, 8, 9, 10}, Axis("cylinder", 4, 1, 1, 2), "none"),
    Part("e", {11, 12}, Axis("line", 3, 2, 6, 0), "none"),
    Part("e", {11, 12}, Axis("circle", 3, 1, 1, 2), "none"),
    Part("e", {13, 14}, Axis("line", 3, 2, 7, 0), "none"),
    Part("e", {13, 14}, Axis("circle", 3, 1, 1, 2), "none"),
    Part("e", {11, 13}, Axis("line", 4, 1, 8, 0), "none"),
    Part("e", {12, 14}, Axis("line", 4, 1, 9, 0), "none"), Point, Point, Point, Point>>

Ball == [class |-> "sphere", ends |-> {}, template |-> MCBall]
Wedge == [class |-> "revolve", ends |-> {"start", "end"}, template |-> BallSegment]
Half == [class |-> "extrude", ends |-> {"start", "end"}, template |-> HalfCylinder]

Document(births, steps, length, picks) ==
  [births |-> births, steps |-> steps \cup {"bear"}, length |-> length, picks |-> picks]
MCDocuments ==
  {Document(<<Wedge>>, {"fillet", "hole"}, 3, {"e"}),
   Document(<<Wedge>>, {"transform", "hole", "blind", "offset", "datum"}, 3, {"f"}),
   Document(<<Half>>, {"offset", "transform"}, 3, {"f"}),
   Document(<<Wedge, Ball>>, {"subtract", "combine", "copy"}, 4, {"f"}),
   Document(<<Wedge>>, {"import", "combine"}, 3, {"v"}),
   Document(<<Ball>>, {"wire", "transform"}, 3, {"f"})}

OfAll(kind) == [kind |-> kind, scope |-> <<[source |-> "all"]>>, filters |-> << >>]
OfBody(kind, op) == [kind |-> kind, scope |-> <<[source |-> "body", op |-> op]>>, filters |-> << >>]
MadeBy(kind, op) == [kind |-> kind, scope |-> <<[source |-> "op", op |-> op]>>, filters |-> << >>]
With(query, filters) == [query EXCEPT !.filters = filters]
Slot(query, arity) == [query |-> query, arity |-> arity, min |-> 0, max |-> 0, onEmpty |-> "error"]
MCSlots ==
  <<Slot(OfAll("f"), "one"), Slot(OfAll("e"), "one"), Slot(OfAll("v"), "one"),
    Slot(With(OfAll("e"), <<[name |-> "class", what |-> "circle"]>>), "one"),
    Slot(With(MadeBy("e", 2), <<[name |-> "role", what |-> "generated"],
                                [name |-> "union", query |-> OfBody("e", 2)],
                                [name |-> "interiorTo", query |-> OfAll("f")]>>), "one"),
    Slot(With(OfAll("f"), <<[name |-> "modified"],
                            [name |-> "adjacentTo",
                             query |-> With(MadeBy("f", 1), <<[name |-> "class", what |-> "plane"]>>)]>>),
         "one"),
    Slot(With(OfAll("v"), <<[name |-> "on", query |-> OfAll("e")],
                            [name |-> "not", query |-> With(OfAll("v"), <<[name |-> "created"]>>)]>>),
         "one")>>
\* The queries of the slots and, one level down, those of their filters.
MCQueries ==
  LET nested(queries) ==
        UNION {{filter.query : filter \in {f \in ToSet(q.filters) : "query" \in DOMAIN f}} : q \in queries}
      top == {slot.query : slot \in ToSet(MCSlots)}
  IN top \cup nested(top) \cup nested(nested(top))
=================================================================================
