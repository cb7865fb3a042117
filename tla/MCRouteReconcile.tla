-------------------------- MODULE MCRouteReconcile --------------------------
(* Instances of RouteReconcile for TLC.                                    *)
EXTENDS RouteReconcile

Static(n) == [kind |-> "static", name |-> n]
Param(n) == [kind |-> "param", name |-> n]
CatchAll(n) == [kind |-> "catchall", name |-> n]

MCIndex == Static(0)

Users == <<Static(1)>>                \* pages/users.tsp            /users
UsersIndex == <<Static(1), MCIndex>>  \* pages/users/index.tsp      /users
Pair == <<Param(2), Param(3)>>        \* pages/[id]/[tab].tsp       /:id/:tab
Rest == <<CatchAll(4)>>               \* pages/[...rest].tsp        /*rest
Misplaced == <<CatchAll(4), Static(1)>>  \* pages/[...rest]/users.tsp, refused

Shapes == {Users, UsersIndex, Pair, Rest, Misplaced}
Booted == {Users, UsersIndex}
Paths == {<<>>, <<1>>, <<1, 5>>}
Handlers == {{"GET"}, {"POST", "ANY"}}

\* Two sources and the methods of one of them.
TwoShapes == {Users, Rest}
GetOrPost == {{"GET"}, {"POST"}}
=============================================================================
