------------------------------ MODULE MCDriverIO ------------------------------
EXTENDS DriverIO
CONSTANTS A, B, a1, a2, b1, c1

Own1 == (A :> {a1}) @@ (B :> {b1})
Own2 == (A :> {a1, a2}) @@ (B :> {b1})
Empty == (A :> <<>>) @@ (B :> <<>>)
Quiet == [clears |-> 0, renames |-> 0, detaches |-> 0, sends |-> 0, opens |-> 0, types |-> {}, packets |-> 1,
          met |-> FALSE, eps |-> {1}]

\* names: from empty tables, names are asked for, forgotten and asked again
Names == [own |-> Own1, setup |-> Empty, adds |-> {A} \X {b1} \X {TRUE} \cup {B} \X {a1} \X {TRUE}]
         @@ [renames |-> 1] @@ Quiet
\* clears
Clears == [own |-> Own1, setup |-> (A :> <<a1, b1>>) @@ (B :> <<b1>>),
           adds |-> {A} \X {b1} \X {FALSE} \cup {B} \X {a1, c1} \X {TRUE}]
         @@ [clears |-> 1, packets |-> 2] @@ Quiet
\* detaches
Boards == [own |-> Own2, setup |-> (A :> <<a1>>) @@ (B :> <<b1, a1>>),
           adds |-> {A} \X {a2, b1} \X {FALSE} \cup {B} \X {a2} \X {TRUE}]
         @@ [detaches |-> 1] @@ Quiet
AllTypes == {"connect", "connected", "tiny", "small", "medium", "mediumva", "rndv", "notify", "truc", "pull"}
\* one message of each kind between hosts that have met, while endpoints come and go
Kinds == [own |-> Own1, setup |-> (A :> <<a1, b1>>) @@ (B :> <<b1, c1, a1>>), adds |-> {}, met |-> TRUE]
         @@ [sends |-> 1, opens |-> 3, packets |-> 2, types |-> AllTypes] @@ Quiet
\* two messages, the first of which may be the one that makes the hosts meet
Messages == [own |-> Own1, setup |-> (A :> <<a1, b1>>) @@ (B :> <<b1, c1, a1>>), adds |-> {}]
         @@ [sends |-> 2, opens |-> 3, packets |-> 2, types |-> {"connect", "tiny"}] @@ Quiet
Pairs == [own |-> Own1, setup |-> (A :> <<a1, b1>>) @@ (B :> <<b1, a1>>), adds |-> {}, met |-> TRUE, eps |-> {1, 2}]
         @@ [sends |-> 1, opens |-> 2, packets |-> 2, types |-> {"connect", "tiny"}] @@ Quiet
\* the local path
Locals == [own |-> Own2, setup |-> (A :> <<a1, a2>>) @@ (B :> <<>>), adds |-> {}]
         @@ [sends |-> 1, opens |-> 3, types |-> AllTypes] @@ Quiet
LocalsLeave == [types |-> {"tiny", "medium"}, detaches |-> 1, opens |-> 2] @@ Locals
\* tables are cleared and filled in another order
Moves == [own |-> Own1, setup |-> (A :> <<a1, b1>>) @@ (B :> <<b1, a1>>), adds |-> {B} \X {a1, c1} \X {TRUE}, met |-> TRUE]
         @@ [sends |-> 1, opens |-> 2, packets |-> 2, clears |-> 1, types |-> {"connect", "tiny"}] @@ Quiet
TwoBoards == {Locals}
MCConfigs == {Names, Clears, Boards, Kinds, Messages, Pairs, Locals, LocalsLeave, Moves}
=============================================================================
