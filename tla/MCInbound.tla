------------------------------ MODULE MCInbound ------------------------------
EXTENDS Inbound, TLC

CONSTANTS b1, b2, i1, i2, i3, i4, o1, o2, h1, p, q

MCBridgeOf == [m \in {i1, i2, i3} |-> b1] @@ [m \in {i4, o1, o2} |-> b2]
MCPhoneOf == i1 :> p @@ i2 :> p @@ i3 :> q @@ i4 :> p

\* One after the other; or i2 and i3, and o1 and o2, in one second.
Rising == i1 :> 1 @@ i2 :> 2 @@ i3 :> 3 @@ i4 :> 1 @@ o1 :> 1 @@ o2 :> 2
SameSecond == i1 :> 1 @@ i2 :> 2 @@ i3 :> 2 @@ i4 :> 1 @@ o1 :> 1 @@ o2 :> 1
LastUnresolved == [m \in Msgs |-> IF m = i3 THEN "unresolved" ELSE "dm"]
AllDirect == [m \in Msgs |-> "dm"]
Mixed == i1 :> "dm" @@ i2 :> "blank" @@ i3 :> "unresolved" @@ i4 :> "dm" @@ o1 :> "dm" @@ o2 :> "blank"

World(fail, die, ord, one, bs, hs, t, k) ==
  [failures |-> fail, crashes |-> die, ordered |-> ord, single |-> one,
   polling |-> bs, hooks |-> hs, time |-> t, kind |-> k]

MCEnvironments ==
  \* one poller, its statements fail and its process dies
  { World(TRUE, TRUE, TRUE, FALSE, {b1}, {}, Rising, LastUnresolved),
    World(TRUE, TRUE, FALSE, TRUE, {b2}, {}, SameSecond, AllDirect),
  \* the webhook beside it
    World(FALSE, FALSE, TRUE, TRUE, {b1}, {h1}, Rising, Mixed),
    World(TRUE, FALSE, TRUE, FALSE, {b1}, {h1}, Rising, Mixed),
  \* nothing fails; both pollers
    World(FALSE, FALSE, TRUE, FALSE, {b1}, {}, Rising, AllDirect),
    World(FALSE, FALSE, TRUE, TRUE, {b1, b2}, {}, Rising, Mixed) }
=============================================================================
