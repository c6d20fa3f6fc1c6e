------------------------ MODULE WarehouseRun_proofs ------------------------
(***************************************************************************)
(* The whole-warehouse solve, for any parcels, vans and runs at once.      *)
(*                                                                         *)
(* The argument: a run holds the rows of its request from when it reads    *)
(* them until it writes them (JobsHeld, PinsHeld), so only its own answer  *)
(* can plan them; and what a van has left with stays on its route, for     *)
(* only what has not left is taken off one (Waves).                        *)
(***************************************************************************)
EXTENDS WarehouseRun, WellFoundedInduction, TLAPS

-----------------------------------------------------------------------------
(* The first and the last of a set of times.                               *)

Precedes == {tt \in Nat \X Nat : tt[1] < tt[2]}

LEMMA PrecedesWellFounded == IsWellFoundedOn(Precedes, Nat)
BY NatLessThanWellFounded DEF OpToRel, Precedes

LEMMA LeastOf ==
  ASSUME NEW S \in SUBSET Nat, S # {}
  PROVE  \E x \in S : \A y \in S : x =< y
<1>1. \E x \in S : \A y \in S : ~(<<y, x>> \in Precedes)
  BY PrecedesWellFounded, WFMin
<1>2. \A x, y \in S : ~(<<y, x>> \in Precedes) => x =< y
  BY DEF Precedes
<1> QED BY <1>1, <1>2

LEMMA MinIsFirst ==
  ASSUME NEW S \in SUBSET Nat, S # {}
  PROVE  Min(S) \in S /\ \A y \in S : Min(S) =< y
BY LeastOf DEF Min

(* A bounded set has a last element: the least of its bounds.              *)
LEMMA MaxIsLast ==
  ASSUME NEW S \in SUBSET Nat, S # {}, NEW b \in Nat, \A y \in S : y =< b
  PROVE  Max(S) \in S /\ \A y \in S : y =< Max(S)
<1> DEFINE Bounds == {u \in Nat : \A y \in S : y =< u}
<1>1. PICK u \in Bounds : \A w \in Bounds : u =< w
  <2>1. Bounds \in SUBSET Nat /\ b \in Bounds
    OBVIOUS
  <2> HIDE DEF Bounds
  <2> QED BY <2>1, LeastOf
<1>2. u \in S
  <2>1. CASE u = 0
    <3>1. PICK y \in S : TRUE
      OBVIOUS
    <3>2. y \in Nat /\ y =< 0
      BY <2>1, <1>1
    <3>3. y = u
      BY <2>1, <3>2
    <3> QED BY <3>3
  <2>2. CASE u # 0
    <3>1. u - 1 \in Nat /\ u - 1 \notin Bounds
      BY <2>2, <1>1
    <3>2. PICK y \in S : ~(y =< u - 1)
      BY <3>1
    <3>3. y = u
      BY <3>2, <1>1
    <3> QED BY <3>3
  <2> QED BY <2>1, <2>2
<1>3. \E x \in S : \A y \in S : x >= y
  BY <1>1, <1>2
<1>4. Max(S) \in S /\ \A y \in S : Max(S) >= y
  BY <1>3 DEF Max
<1> QED BY <1>4

-----------------------------------------------------------------------------
(* The invariant.                                                          *)

(* Every time that is kept or awaited is below some bound, so that a van   *)
(* has a last return.                                                      *)
BoundedBy(b) ==
  /\ \A route \in routes : route.length =< b
  /\ \A p \in Parcels : /\ parcel[p].left # None => parcel[p].left =< b
                        /\ parcel[p].departure # None => parcel[p].departure =< b
  /\ \A r \in Solves, v \in Vans : solve[r].setOff[v] =< b

Bounded == \E b \in Nat : BoundedBy(b)

(* What no plan has waits at the warehouse and what has left is in a plan. *)
Unplanned(p) == parcel[p].claim = None => parcel[p].status = "PENDING" /\ parcel[p].left = None
Waiting(p) == parcel[p].status \in {"PENDING", "ASSIGNED"} => parcel[p].left = None
StatusTells == \A p \in Parcels : Unplanned(p) /\ Waiting(p)

(* The ids of routes are of insertions there have been.                    *)
IdsUsed ==
  /\ \A route \in routes : route.id[1] =< lastShift
  /\ \A r \in Solves : \A id \in solve[r].gone : id[1] =< lastShift

(* The jobs of a request are as they were read, and locked.                *)
JobHeld(r, p) == lockedBy[p] = r /\ p \in Candidates
JobsHeld == \A r \in Solves : solve[r].at # "idle" => \A p \in solve[r].jobs : JobHeld(r, p)

(* So are the pinned ones, but for a dispatcher's change of mind.          *)
PinHeld(r, p) ==
  /\ lockedBy[p] = r
  /\ parcel[p].claim = None
  /\ p \notin solve[r].repaired => parcel[p].pair = solve[r].pins[p]
PinsHeld ==
  \A r \in Solves : solve[r].at = "solve" =>
    \A p \in Parcels : solve[r].pins[p] # None => PinHeld(r, p)

(* A van that had left sets off again after it is back.                    *)
BackBefore(r, old) ==
  \E p \in StopsOf(old) : /\ parcel[p].left # None
                          /\ solve[r].setOff[old.id[2]] >= parcel[p].left + old.length + Buffer
Waves ==
  \A r \in Solves : solve[r].at \in {"pins", "solve"} =>
    \A old \in routes :
      old.id \in solve[r].gone /\ old.id[2] \notin solve[r].overruled => BackBefore(r, old)

RunIInv ==
  /\ RunTypeOK
  /\ Bounded
  /\ StatusTells
  /\ IdsUsed
  /\ RoutedAreClaimed
  /\ JobsHeld /\ PinsHeld
  /\ Waves

-----------------------------------------------------------------------------
(* What a run does before it writes: it changes its own state and locks.   *)

LEMMA NoSolveTyped ==
  /\ NoSolve \in Solving
  /\ NoSolve.at = "idle" /\ NoSolve.jobs = {} /\ NoSolve.gone = {}
  /\ \A v \in Vans : NoSolve.setOff[v] = 0
BY DEF NoSolve, Solving, Times

LEMMA SolveIs ==
  ASSUME RunTypeOK, NEW r \in Solves, NEW new \in Solving, solve' = [solve EXCEPT ![r] = new]
  PROVE  /\ solve' \in [Solves -> Solving] /\ solve'[r] = new
         /\ \A s \in Solves \ {r} : solve'[s] = solve[s]
BY DEF RunTypeOK

LEMMA Locking ==
  ASSUME RunTypeOK, NEW r \in Solves, NEW ps, Lock(r, ps), ps \subseteq Unlocked(r)
  PROVE  /\ lockedBy' \in [Parcels -> Solves \cup {None}]
         /\ \A p \in ps \cap Parcels : lockedBy'[p] = r
         /\ \A p \in Parcels, s \in Solves : lockedBy[p] = s => lockedBy'[p] = s
BY WarehouseAssumption DEF RunTypeOK, Lock, Unlocked

LEMMA Releasing ==
  ASSUME RunTypeOK, NEW r \in Solves, Release(r)
  PROVE  /\ lockedBy' \in [Parcels -> Solves \cup {None}]
         /\ \A p \in Parcels, s \in Solves \ {r} : lockedBy[p] = s => lockedBy'[p] = s
BY DEF RunTypeOK, Release

(* A bound holds with a greater one.                                       *)
LEMMA StillBounded ==
  ASSUME RunTypeOK, NEW b \in Nat, BoundedBy(b), NEW c \in Nat, b =< c
  PROVE  BoundedBy(c)
<1>1. \A route \in routes : route.length \in Nat
  BY WarehouseAssumption DEF RunTypeOK, Route
<1>2. \A p \in Parcels : parcel[p].left \in Nat \cup {None} /\ parcel[p].departure \in Nat \cup {None}
  BY WarehouseAssumption DEF RunTypeOK, Parcel, Times
<1>3. \A r \in Solves, v \in Vans : solve[r].setOff[v] \in Nat
  BY DEF RunTypeOK, Solving, Times
<1> QED BY <1>1, <1>2, <1>3 DEF BoundedBy

LEMMA RunMoves ==
  ASSUME RunIInv, NEW r \in Solves, NEW new \in Solving,
         solve' = [solve EXCEPT ![r] = new],
         UNCHANGED <<parcel, routes, lastShift, clock>>,
         lockedBy' \in [Parcels -> Solves \cup {None}],
         \A p \in Parcels, s \in Solves \ {r} : lockedBy[p] = s => lockedBy'[p] = s,
         NEW c \in Nat, \A v \in Vans : new.setOff[v] =< c,
         \A id \in new.gone : id[1] =< lastShift,
         new.at # "idle" => \A p \in new.jobs : JobHeld(r, p)',
         new.at = "solve" => \A p \in Parcels : new.pins[p] # None => PinHeld(r, p)',
         new.at \in {"pins", "solve"} =>
           \A old \in routes :
             old.id \in new.gone /\ old.id[2] \notin new.overruled => BackBefore(r, old)'
  PROVE  RunIInv'
<1> USE DEF RunIInv
<1>1. /\ solve' \in [Solves -> Solving] /\ solve'[r] = new
      /\ \A s \in Solves \ {r} : solve'[s] = solve[s]
  BY SolveIs
<1>2. RunTypeOK'
  BY <1>1 DEF RunTypeOK
<1>3. Bounded'
  <2>1. PICK b \in Nat : BoundedBy(b)
    BY DEF Bounded
  <2>2. b + c \in Nat /\ b =< b + c /\ c =< b + c
    OBVIOUS
  <2>3. BoundedBy(b + c)
    BY <2>1, <2>2, StillBounded
  <2>4. \A v \in Vans : new.setOff[v] \in Nat
    BY DEF Solving, Times
  <2>5. \A v \in Vans : new.setOff[v] =< b + c
    BY <2>2, <2>4
  <2>6. BoundedBy(b + c)'
    BY <1>1, <2>3, <2>5 DEF BoundedBy
  <2> QED BY <2>2, <2>6 DEF Bounded
<1>4. StatusTells'
  BY DEF StatusTells, Unplanned, Waiting
<1>5. IdsUsed'
  BY <1>1 DEF IdsUsed
<1>6. RoutedAreClaimed'
  BY DEF RoutedAreClaimed
<1>7. JobsHeld'
  <2>1. \A s \in Solves \ {r}, p \in Parcels : JobHeld(s, p) => JobHeld(s, p)'
    BY DEF JobHeld, Candidates
  <2>2. \A s \in Solves \ {r} : solve[s].jobs \subseteq Parcels
    BY WarehouseAssumption DEF RunTypeOK, Solving
  <2> QED BY <1>1, <2>1, <2>2 DEF JobsHeld
<1>8. PinsHeld'
  <2>1. ASSUME NEW s \in Solves \ {r}, NEW p \in Parcels, PinHeld(s, p)
        PROVE  PinHeld(s, p)'
    BY <1>1, <2>1 DEF PinHeld
  <2> QED BY <1>1, <2>1 DEF PinsHeld
<1>9. Waves'
  <2>1. ASSUME NEW s \in Solves \ {r}, NEW old \in routes, BackBefore(s, old)
        PROVE  BackBefore(s, old)'
    BY <1>1, <2>1 DEF BackBefore, StopsOf
  <2> QED BY <1>1, <2>1 DEF Waves
<1> QED BY <1>2, <1>3, <1>4, <1>5, <1>6, <1>7, <1>8, <1>9

LEMMA RunOver ==
  ASSUME RunIInv, NEW r \in Solves, Release(r), solve' = [solve EXCEPT ![r] = NoSolve],
         UNCHANGED <<parcel, routes, lastShift, clock>>
  PROVE  RunIInv'
<1>1. /\ lockedBy' \in [Parcels -> Solves \cup {None}]
      /\ \A p \in Parcels, s \in Solves \ {r} : lockedBy[p] = s => lockedBy'[p] = s
  BY Releasing DEF RunIInv
<1>2. /\ NoSolve \in Solving
      /\ NoSolve.at = "idle" /\ NoSolve.gone = {}
      /\ \A v \in Vans : NoSolve.setOff[v] =< 0
  BY NoSolveTyped
<1> HIDE DEF NoSolve
<1> QED BY <1>1, <1>2, RunMoves

LEMMA LockKeeps ==
  ASSUME RunIInv, NEW r \in Solves, LockCandidates(r)
  PROVE  RunIInv'
<1> DEFINE mine == Candidates \cap Unlocked(r)
           new == [NoSolve EXCEPT !.at = "vans", !.jobs = Jobs(mine)]
<1>1. Lock(r, mine) /\ solve' = [solve EXCEPT ![r] = new] /\ UNCHANGED <<parcel, routes, lastShift, clock>>
  BY DEF LockCandidates
<1>2. new \in Solving /\ new.at = "vans" /\ new.jobs = Jobs(mine) /\ new.gone = {}
      /\ new.setOff = NoSolve.setOff
  <2>1. NoSolve \in Solving /\ Jobs(mine) \in SUBSET Located /\ NoSolve.gone = {}
    BY NoSolveTyped DEF Jobs
  <2> HIDE DEF NoSolve
  <2> QED BY <2>1 DEF Solving
<1>5. \A v \in Vans : new.setOff[v] =< 0
  BY <1>2, NoSolveTyped
<1>3. /\ lockedBy' \in [Parcels -> Solves \cup {None}]
      /\ \A p \in mine \cap Parcels : lockedBy'[p] = r
      /\ \A p \in Parcels, s \in Solves : lockedBy[p] = s => lockedBy'[p] = s
  BY <1>1, Locking DEF RunIInv
<1>4. \A p \in Jobs(mine) : JobHeld(r, p)'
  BY <1>1, <1>3 DEF JobHeld, Jobs, Candidates
<1> HIDE DEF new, mine
<1>6. /\ \A id \in new.gone : id[1] =< lastShift
      /\ new.at # "idle" => \A p \in new.jobs : JobHeld(r, p)'
      /\ ~(new.at = "solve") /\ ~(new.at \in {"pins", "solve"})
  BY <1>2, <1>4
<1>7. \A p \in Parcels, s \in Solves \ {r} : lockedBy[p] = s => lockedBy'[p] = s
  BY <1>3
<1> QED BY <1>1, <1>2, <1>3, <1>5, <1>6, <1>7, RunMoves

-----------------------------------------------------------------------------
(* When a van may set off.                                                 *)

LEMMA EarliestIs ==
  ASSUME NEW S \in SUBSET (Nat \cup {None}), S \ {None} # {}
  PROVE  /\ Earliest(S \ {None}) \in S \ {None}
         /\ Earliest(S \ {None}) \in Nat
         /\ \A t \in S \ {None} : Earliest(S \ {None}) =< t
<1> DEFINE T == S \ {None}
<1>1. T \in SUBSET Nat /\ T # {}
  OBVIOUS
<1>2. Earliest(T) = Min(T)
  BY <1>1 DEF Earliest
<1> QED BY <1>1, <1>2, MinIsFirst

(* The time a van's route is reckoned from is that of one of its parcels,  *)
(* the time it left if it has.                                             *)
LEMMA ReferenceIs ==
  ASSUME RunTypeOK, NEW b \in Nat, BoundedBy(b), NEW v \in Vans, NEW route
  PROVE  /\ ReturnReference(v, route) \in Nat
         /\ ReturnReference(v, route) =< b + MaxClock
         /\ (\E p \in StopsOf(route) : parcel[p].pair = v /\ parcel[p].left # None) =>
              \E p \in StopsOf(route) : parcel[p].left # None /\ ReturnReference(v, route) = parcel[p].left
<1> DEFINE stops == {p \in StopsOf(route) : parcel[p].pair = v}
           lefts == {parcel[p].left : p \in stops}
           departures == {parcel[p].departure : p \in stops}
           left == Earliest(lefts \ {None})
           planned == Earliest(departures \ {None})
<1>1. stops \subseteq Parcels
  BY DEF StopsOf
<1>2. \A p \in Parcels : parcel[p].left \in Nat \cup {None} /\ parcel[p].departure \in Nat \cup {None}
  BY WarehouseAssumption DEF RunTypeOK, Parcel, Times
<1>3. lefts \in SUBSET (Nat \cup {None}) /\ departures \in SUBSET (Nat \cup {None})
  BY <1>1, <1>2
<1>4. ReturnReference(v, route) = IF left # None THEN left ELSE IF planned # None THEN planned ELSE clock
  BY DEF ReturnReference
<1>5. clock \in Nat /\ clock =< b + MaxClock /\ MaxClock \in Nat
  BY WarehouseAssumption DEF RunTypeOK
<1>6. ASSUME left # None
      PROVE  \E p \in stops : parcel[p].left # None /\ left = parcel[p].left
  <2>1. lefts \ {None} # {}
    BY <1>6 DEF Earliest
  <2> HIDE DEF lefts
  <2>2. left \in lefts \ {None}
    BY <1>3, <2>1, EarliestIs
  <2> USE DEF lefts
  <2> HIDE DEF left
  <2> QED BY <2>2
<1>7. ASSUME planned # None
      PROVE  \E p \in stops : parcel[p].departure # None /\ planned = parcel[p].departure
  <2>1. departures \ {None} # {}
    BY <1>7 DEF Earliest
  <2> HIDE DEF departures
  <2>2. planned \in departures \ {None}
    BY <1>3, <2>1, EarliestIs
  <2> USE DEF departures
  <2> HIDE DEF planned
  <2> QED BY <2>2
<1>8. ASSUME NEW p \in stops, parcel[p].left # None
      PROVE  left # None
  <2>1. parcel[p].left \in lefts \ {None} /\ lefts \ {None} # {}
    BY <1>8
  <2> HIDE DEF lefts
  <2> QED BY <1>3, <2>1, EarliestIs
<1> HIDE DEF lefts, departures, left, planned
<1>9. /\ left # None => left \in Nat /\ left =< b
      /\ planned # None => planned \in Nat /\ planned =< b
  BY <1>1, <1>2, <1>6, <1>7 DEF BoundedBy
<1>10. ReturnReference(v, route) \in Nat /\ ReturnReference(v, route) =< b + MaxClock
  BY <1>4, <1>5, <1>9
<1>11. ASSUME NEW p \in StopsOf(route), parcel[p].pair = v, parcel[p].left # None
       PROVE  \E q \in StopsOf(route) : parcel[q].left # None /\ ReturnReference(v, route) = parcel[q].left
  BY <1>11, <1>4, <1>6, <1>8
<1> QED BY <1>10, <1>11

LEMMA ReturnsAfter ==
  ASSUME RunTypeOK, NEW b \in Nat, BoundedBy(b), NEW v \in Vans
  PROVE  /\ Returns(v) \in Nat
         /\ Returns(v) =< 2 * b + MaxClock + Buffer
         /\ \A route \in ActiveRoutes(v) : Returns(v) >= ReturnReference(v, route) + route.length + Buffer
<1> DEFINE back(route) == ReturnReference(v, route) + route.length + Buffer
           S == {clock} \cup {back(route) : route \in ActiveRoutes(v)}
           c == 2 * b + MaxClock + Buffer
<1>1. clock \in Nat /\ clock =< c /\ c \in Nat
  BY WarehouseAssumption DEF RunTypeOK
<1>2. ASSUME NEW route \in ActiveRoutes(v)
      PROVE  back(route) \in Nat /\ back(route) =< c
  <2>1. route.length \in Nat /\ route.length =< b
    BY WarehouseAssumption DEF ActiveRoutes, RunTypeOK, Route, BoundedBy
  <2>2. ReturnReference(v, route) \in Nat /\ ReturnReference(v, route) =< b + MaxClock
    BY ReferenceIs
  <2> QED BY <2>1, <2>2, WarehouseAssumption
<1>3. S \in SUBSET Nat /\ S # {} /\ \A t \in S : t =< c
  <2> HIDE DEF back, c
  <2> QED BY <1>1, <1>2
<1>4. Returns(v) = Max(S)
  BY DEF Returns
<1>5. \A route \in ActiveRoutes(v) : back(route) \in S
  OBVIOUS
<1> HIDE DEF S, c, back
<1>6. Returns(v) \in S /\ \A t \in S : t =< Returns(v)
  BY <1>1, <1>3, <1>4, MaxIsLast
<1>7. Returns(v) \in Nat /\ Returns(v) =< c /\ \A route \in ActiveRoutes(v) : back(route) =< Returns(v)
  BY <1>3, <1>5, <1>6
<1> QED BY <1>2, <1>7 DEF c, back

LEMMA ReadVansKeeps ==
  ASSUME RunIInv, NEW r \in Solves, ReadVans(r)
  PROVE  RunIInv'
<1> USE DEF RunIInv
<1>1. PICK overruled \in SetOffOverrides :
        solve' = [solve EXCEPT
            ![r] = [@ EXCEPT !.at = "pins",
                             !.setOff = [v \in Vans |-> IF v \in overruled THEN MaxClock ELSE Returns(v)],
                             !.overruled = overruled,
                             !.active = {route.id : route \in {x \in routes : x \in ActiveRoutes(x.id[2])}},
                             !.gone = {route.id : route \in {x \in {y \in routes : y \in ActiveRoutes(y.id[2])} :
                                         \E p \in StopsOf(x) : parcel[p].left # None}}]]
  BY DEF ReadVans
<1> DEFINE setOff == [v \in Vans |-> IF v \in overruled THEN MaxClock ELSE Returns(v)]
           actives == {x \in routes : x \in ActiveRoutes(x.id[2])}
           active == {route.id : route \in actives}
           gone == {route.id : route \in {x \in actives : \E p \in StopsOf(x) : parcel[p].left # None}}
           new == [solve[r] EXCEPT !.at = "pins", !.setOff = setOff, !.overruled = overruled,
                                   !.active = active, !.gone = gone]
<1>2. solve' = [solve EXCEPT ![r] = new] /\ solve[r].at = "vans"
      /\ UNCHANGED <<parcel, routes, lastShift, lockedBy, clock>>
  BY <1>1 DEF ReadVans
<1>3. PICK b \in Nat : BoundedBy(b)
  BY DEF Bounded
<1> DEFINE c == 2 * b + MaxClock + Buffer
<1>4. c \in Nat /\ setOff \in [Vans -> Nat] /\ \A v \in Vans : setOff[v] =< c
  BY <1>3, ReturnsAfter, WarehouseAssumption
<1>5. active \subseteq Ids /\ gone \subseteq Ids /\ \A id \in gone : id[1] =< lastShift
  BY DEF RunTypeOK, Route, IdsUsed
<1>6. overruled \subseteq Vans
  BY DEF SetOffOverrides
<1>7. /\ new \in Solving /\ new.at = "pins" /\ new.jobs = solve[r].jobs
      /\ new.setOff = setOff /\ new.gone = gone /\ new.overruled = overruled
  <2> HIDE DEF setOff, active, gone
  <2>1. solve[r] \in Solving
    BY DEF RunTypeOK
  <2> QED BY <2>1, <1>4, <1>5, <1>6 DEF Solving, Times
<1>8. ASSUME NEW old \in routes, old.id \in gone, old.id[2] \notin overruled
      PROVE  BackBefore(r, old)'
  <2>1. PICK x \in actives : x.id = old.id /\ \E p \in StopsOf(x) : parcel[p].left # None
    BY <1>8
  <2> DEFINE v == old.id[2]
  <2>2. v \in Vans /\ old.id \in Ids /\ old.id # None
    BY WarehouseAssumption DEF RunTypeOK, Route, Ids
  <2>3. PICK q \in StopsOf(old) : parcel[q].left # None
    BY <2>1 DEF StopsOf
  <2>4. q \in Parcels /\ parcel[q].step = old.id
    BY DEF StopsOf
  <2>5. parcel[q].claim # None
    BY <2>3, <2>4 DEF StatusTells, Unplanned
  <2>6. parcel[q].pair = v
    BY <2>4, <2>5 DEF RoutedAreClaimed
  <2>7. PICK p \in StopsOf(old) : parcel[p].left # None /\ ReturnReference(v, old) = parcel[p].left
    BY <1>3, <2>2, <2>3, <2>6, ReferenceIs
  <2>8. old \in ActiveRoutes(v)
    BY <2>1 DEF ActiveRoutes, StopsOf
  <2>9. Returns(v) >= parcel[p].left + old.length + Buffer
    BY <1>3, <2>2, <2>7, <2>8, ReturnsAfter
  <2>10. setOff[v] = Returns(v)
    BY <1>8, <2>2
  <2>11. solve'[r].setOff = setOff
    <3> HIDE DEF setOff
    <3> QED BY <1>2, <1>7 DEF RunTypeOK
  <2> HIDE DEF setOff
  <2>12. parcel'[p].left # None /\ solve'[r].setOff[v] >= parcel'[p].left + old.length + Buffer /\ p \in StopsOf(old)'
    BY <1>2, <2>7, <2>9, <2>10, <2>11 DEF StopsOf
  <2> QED BY <2>12 DEF BackBefore
<1>9. \A p \in new.jobs : JobHeld(r, p)'
  BY <1>2, <1>7 DEF JobsHeld, JobHeld, Candidates
<1>10. lockedBy' \in [Parcels -> Solves \cup {None}]
  BY <1>2 DEF RunTypeOK
<1> HIDE DEF new, c, setOff, gone, RunIInv
<1>11. /\ \A id \in new.gone : id[1] =< lastShift
       /\ new.at # "idle" => \A p \in new.jobs : JobHeld(r, p)'
       /\ ~(new.at = "solve")
       /\ \A v \in Vans : new.setOff[v] =< c
       /\ new.at \in {"pins", "solve"} =>
            \A old \in routes :
              old.id \in new.gone /\ old.id[2] \notin new.overruled => BackBefore(r, old)'
  BY <1>4, <1>5, <1>7, <1>8, <1>9
<1>12. \A p \in Parcels, s \in Solves \ {r} : lockedBy[p] = s => lockedBy'[p] = s
  BY <1>2
<1> QED BY <1>2, <1>4, <1>7, <1>10, <1>11, <1>12, RunMoves

LEMMA PinsKeep ==
  ASSUME RunIInv, NEW r \in Solves, BuildPinnedRoutes(r)
  PROVE  RunIInv'
<1> USE DEF RunIInv
<1> DEFINE rows == PinnedRows(r)
           new == [solve[r] EXCEPT !.at = "solve", !.pins = Pins(r)]
<1>1. Lock(r, rows) /\ UNCHANGED <<parcel, routes, lastShift, clock>> /\ solve[r].at = "pins"
  BY DEF BuildPinnedRoutes
<1>2. rows \subseteq Unlocked(r) /\ rows \subseteq Parcels
  BY DEF PinnedRows, Unlocked
<1>3. /\ lockedBy' \in [Parcels -> Solves \cup {None}]
      /\ \A p \in rows \cap Parcels : lockedBy'[p] = r
      /\ \A p \in Parcels, s \in Solves : lockedBy[p] = s => lockedBy'[p] = s
  BY <1>1, <1>2, Locking
<1>4. solve' = [solve EXCEPT ![r] = new]
  BY DEF BuildPinnedRoutes
<1>5. Pins(r) \in [Parcels -> Vans \cup {None}]
  BY DEF Pins, RunTypeOK, Parcel
<1>6. /\ new \in Solving /\ new.at = "solve" /\ new.jobs = solve[r].jobs /\ new.pins = Pins(r)
      /\ new.setOff = solve[r].setOff /\ new.gone = solve[r].gone /\ new.overruled = solve[r].overruled
      /\ new.repaired = solve[r].repaired
  <2>1. solve[r] \in Solving
    BY DEF RunTypeOK
  <2> QED BY <2>1, <1>5 DEF Solving
<1>7. \A p \in new.jobs : JobHeld(r, p)'
  BY <1>1, <1>3, <1>6, WarehouseAssumption DEF JobsHeld, JobHeld, Candidates
<1>8. ASSUME NEW p \in Parcels, Pins(r)[p] # None
      PROVE  PinHeld(r, p)'
  <2>1. p \in rows /\ Pins(r)[p] = parcel[p].pair
    BY <1>8 DEF Pins, Jobs
  <2>2. lockedBy'[p] = r /\ parcel'[p].claim = None /\ parcel'[p].pair = Pins(r)[p]
    BY <1>1, <1>3, <2>1 DEF PinnedRows
  <2>3. solve'[r].pins = Pins(r)
    BY <1>4, <1>6 DEF RunTypeOK
  <2> QED BY <2>2, <2>3 DEF PinHeld
<1>9. ASSUME NEW old \in routes, old.id \in new.gone, old.id[2] \notin new.overruled
      PROVE  BackBefore(r, old)'
  <2>1. BackBefore(r, old)
    BY <1>1, <1>6, <1>9 DEF Waves
  <2>2. solve'[r].setOff = solve[r].setOff
    BY <1>4, <1>6 DEF RunTypeOK
  <2> QED BY <1>1, <2>1, <2>2 DEF BackBefore, StopsOf
<1>10. PICK b \in Nat : BoundedBy(b)
  BY DEF Bounded
<1>11. /\ \A v \in Vans : new.setOff[v] =< b
       /\ \A id \in new.gone : id[1] =< lastShift
  BY <1>6, <1>10 DEF BoundedBy, IdsUsed
<1> HIDE DEF new, rows, RunIInv
<1>12. /\ new.at # "idle" => \A p \in new.jobs : JobHeld(r, p)'
       /\ new.at = "solve" => \A p \in Parcels : new.pins[p] # None => PinHeld(r, p)'
       /\ new.at \in {"pins", "solve"} =>
            \A old \in routes :
              old.id \in new.gone /\ old.id[2] \notin new.overruled => BackBefore(r, old)'
  BY <1>6, <1>7, <1>8, <1>9
<1>13. \A p \in Parcels, s \in Solves \ {r} : lockedBy[p] = s => lockedBy'[p] = s
  BY <1>3
<1> QED BY <1>1, <1>3, <1>4, <1>6, <1>10, <1>11, <1>12, <1>13, RunMoves

LEMMA OverKeeps ==
  ASSUME RunIInv, NEW r \in Solves, SkipRun(r) \/ FailRun(r)
  PROVE  RunIInv'
BY RunOver DEF SkipRun, FailRun

-----------------------------------------------------------------------------
(* What happens to one parcel meanwhile, and to the clock.                 *)

LEMMA ParcelIs ==
  ASSUME RunTypeOK, NEW p \in Parcels, NEW row \in Parcel, parcel' = [parcel EXCEPT ![p] = row]
  PROVE  /\ parcel' \in [Parcels -> Parcel] /\ parcel'[p] = row
         /\ \A q \in Parcels \ {p} : parcel'[q] = parcel[q]
BY DEF RunTypeOK

(* The runs keep what they have read when only parcels change that they do *)
(* not hold, and those on their way stay on their routes.                  *)
RunsUntouched ==
  /\ \A p \in Parcels : lockedBy[p] # None =>
       /\ parcel'[p].status = parcel[p].status /\ parcel'[p].claim = parcel[p].claim
       /\ parcel[p].pair = None => parcel'[p].pair = None
  /\ \A p \in Parcels : parcel[p].left # None =>
       parcel'[p].left = parcel[p].left /\ parcel'[p].step = parcel[p].step
  /\ UNCHANGED lockedBy

(* What is in a plan is on the route, and what is not is waiting.          *)
RowOK(p) ==
  /\ Unplanned(p) /\ Waiting(p)
  /\ parcel[p].claim # None =>
       /\ parcel[p].claim = parcel[p].step
       /\ \E route \in routes : route.id = parcel[p].claim /\ route.id[2] = parcel[p].pair

LEMMA HeldStay ==
  ASSUME RunIInv, RunsUntouched,
         \A r \in Solves : /\ solve'[r].at = solve[r].at /\ solve'[r].jobs = solve[r].jobs
                           /\ solve'[r].pins = solve[r].pins /\ solve'[r].setOff = solve[r].setOff
                           /\ solve'[r].gone = solve[r].gone /\ solve'[r].overruled = solve[r].overruled
                           /\ solve[r].repaired \subseteq solve'[r].repaired,
         \A r \in Solves, p \in Parcels :
           solve[r].at = "solve" /\ p \notin solve'[r].repaired /\ lockedBy[p] # None
             => parcel'[p].pair = parcel[p].pair,
         \A old \in routes' \ routes : old.id[1] > lastShift
  PROVE  JobsHeld' /\ PinsHeld' /\ Waves'
<1> USE DEF RunIInv
<1>1. \A r \in Solves, p \in Parcels : JobHeld(r, p) => JobHeld(r, p)'
  BY WarehouseAssumption DEF JobHeld, Candidates, RunsUntouched
<1>2. JobsHeld'
  <2>1. \A r \in Solves : solve[r].jobs \subseteq Parcels
    BY WarehouseAssumption DEF RunTypeOK, Solving
  <2> QED BY <1>1, <2>1 DEF JobsHeld
<1>3. ASSUME NEW r \in Solves, NEW p \in Parcels, solve[r].at = "solve", solve[r].pins[p] # None
      PROVE  PinHeld(r, p)'
  <2>1. PinHeld(r, p)
    BY <1>3 DEF PinsHeld
  <2>2. lockedBy[p] # None
    BY <2>1, WarehouseAssumption DEF PinHeld
  <2> QED BY <1>3, <2>1, <2>2 DEF PinHeld, RunsUntouched
<1>4. PinsHeld'
  BY <1>3 DEF PinsHeld
<1>5. ASSUME NEW r \in Solves, NEW old \in routes', solve[r].at \in {"pins", "solve"},
             old.id \in solve[r].gone, old.id[2] \notin solve[r].overruled
      PROVE  BackBefore(r, old)'
  <2>1. old \in routes
    <3>1. old.id[1] =< lastShift
      BY <1>5 DEF IdsUsed
    <3>2. solve[r].gone \subseteq Ids /\ old.id[1] \in Int /\ lastShift \in Int
      BY <1>5, WarehouseAssumption DEF RunTypeOK, Solving, Ids
    <3> QED BY <3>1, <3>2
  <2>2. PICK p \in StopsOf(old) : /\ parcel[p].left # None
                                  /\ solve[r].setOff[old.id[2]] >= parcel[p].left + old.length + Buffer
    BY <1>5, <2>1 DEF Waves, BackBefore
  <2>3. p \in StopsOf(old)' /\ parcel'[p].left = parcel[p].left
    BY <2>2 DEF StopsOf, RunsUntouched
  <2> QED BY <2>2, <2>3 DEF BackBefore
<1>6. Waves'
  BY <1>5 DEF Waves
<1> QED BY <1>2, <1>4, <1>6

LEMMA RowMoves ==
  ASSUME RunIInv, NEW p \in Parcels, NEW row \in Parcel, parcel' = [parcel EXCEPT ![p] = row],
         RowOK(p)', JobsHeld' /\ PinsHeld' /\ Waves',
         NEW c \in Nat, row.left # None => row.left =< c, row.departure # None => row.departure =< c,
         routes' \subseteq Route,
         \A route \in routes' \ routes : route.length =< c /\ route.id[1] =< lastShift',
         \A q \in Parcels \ {p}, route \in routes :
           parcel[q].claim # None /\ route.id = parcel[q].claim => route \in routes',
         lastShift' \in 0..MaxShifts, lastShift =< lastShift',
         solve' \in [Solves -> Solving],
         \A r \in Solves : solve'[r].setOff = solve[r].setOff /\ solve'[r].gone = solve[r].gone,
         UNCHANGED <<lockedBy, clock>>
  PROVE  RunIInv'
<1> USE DEF RunIInv
<1>1. /\ parcel' \in [Parcels -> Parcel] /\ parcel'[p] = row
      /\ \A q \in Parcels \ {p} : parcel'[q] = parcel[q]
  BY ParcelIs
<1>2. RunTypeOK'
  BY <1>1 DEF RunTypeOK
<1>3. Bounded'
  <2>1. PICK b \in Nat : BoundedBy(b)
    BY DEF Bounded
  <2>2. b + c \in Nat /\ b =< b + c /\ c =< b + c
    OBVIOUS
  <2>3. BoundedBy(b + c)
    BY <2>1, <2>2, StillBounded
  <2>4. row.left \in Nat \cup {None} /\ row.departure \in Nat \cup {None}
    BY WarehouseAssumption DEF Parcel, Times
  <2>5. \A route \in routes' : route.length \in Nat
    BY WarehouseAssumption DEF Route
  <2>6. \A route \in routes' : route.length =< b + c
    BY <2>2, <2>3, <2>5 DEF BoundedBy
  <2>7. \A q \in Parcels : /\ parcel'[q].left # None => parcel'[q].left =< b + c
                           /\ parcel'[q].departure # None => parcel'[q].departure =< b + c
    BY <1>1, <2>2, <2>3, <2>4 DEF BoundedBy
  <2>8. BoundedBy(b + c)'
    BY <2>3, <2>6, <2>7 DEF BoundedBy
  <2> QED BY <2>2, <2>8 DEF Bounded
<1>4. StatusTells'
  BY <1>1 DEF StatusTells, Unplanned, Waiting, RowOK
<1>5. IdsUsed'
  <2>1. \A route \in routes' : route.id[1] \in Int
    BY DEF Route, Ids
  <2>2. \A r \in Solves : solve[r].gone \subseteq Ids
    BY DEF RunTypeOK, Solving
  <2>3. lastShift \in Int /\ lastShift' \in Int
    BY <1>2 DEF RunTypeOK
  <2>4. \A id \in Ids : id[1] \in Int
    BY DEF Ids
  <2> QED BY <2>1, <2>2, <2>3, <2>4 DEF IdsUsed
<1>6. RoutedAreClaimed'
  <2>1. ASSUME NEW q \in Parcels \ {p}, parcel[q].claim # None
        PROVE  /\ parcel[q].claim = parcel[q].step
               /\ \E route \in routes' : route.id = parcel[q].claim /\ route.id[2] = parcel[q].pair
    BY <2>1 DEF RoutedAreClaimed
  <2>2. \A q \in Parcels : parcel'[q].claim # None =>
          /\ parcel'[q].claim = parcel'[q].step
          /\ \E route \in routes' : route.id = parcel'[q].claim /\ route.id[2] = parcel'[q].pair
    BY <1>1, <2>1 DEF RowOK
  <2> QED BY <1>4, <2>2 DEF RoutedAreClaimed, StatusTells, Unplanned
<1> QED BY <1>2, <1>3, <1>4, <1>5, <1>6

(* The row of a parcel of the invariant.                                   *)
LEMMA RowIs ==
  ASSUME RunIInv, NEW p \in Parcels
  PROVE  /\ parcel[p] \in Parcel /\ RowOK(p)
         /\ \E b \in Nat : /\ parcel[p].left # None => parcel[p].left =< b
                           /\ parcel[p].departure # None => parcel[p].departure =< b
<1>1. parcel[p] \in Parcel /\ RowOK(p)
  BY DEF RunIInv, RunTypeOK, StatusTells, RoutedAreClaimed, RowOK
<1>2. PICK b \in Nat : BoundedBy(b)
  BY DEF RunIInv, Bounded
<1> QED BY <1>1, <1>2 DEF BoundedBy

(* A pair is made or changed of a parcel that no plan has.                 *)
LEMMA NewPairKeeps ==
  ASSUME RunIInv, NEW p \in Parcels, NEW v \in Vans, parcel' = [parcel EXCEPT ![p].pair = v],
         parcel[p].claim = None,
         parcel[p].pair # None \/ lockedBy[p] = None,
         solve' \in [Solves -> Solving],
         \A r \in Solves : /\ solve'[r].at = solve[r].at /\ solve'[r].jobs = solve[r].jobs
                           /\ solve'[r].pins = solve[r].pins /\ solve'[r].setOff = solve[r].setOff
                           /\ solve'[r].gone = solve[r].gone /\ solve'[r].overruled = solve[r].overruled
                           /\ solve[r].repaired \subseteq solve'[r].repaired,
         \A r \in Solves : solve[r].at = "solve" /\ p \notin solve'[r].repaired => lockedBy[p] = None,
         UNCHANGED <<routes, lastShift, lockedBy, clock>>
  PROVE  RunIInv'
<1> DEFINE row == [parcel[p] EXCEPT !.pair = v]
<1>1. parcel' = [parcel EXCEPT ![p] = row]
  OBVIOUS
<1>2. parcel[p] \in Parcel /\ RowOK(p)
  BY RowIs
<1>3. PICK b \in Nat : /\ parcel[p].left # None => parcel[p].left =< b
                       /\ parcel[p].departure # None => parcel[p].departure =< b
  BY RowIs
<1>4. /\ row \in Parcel /\ row.status = parcel[p].status /\ row.claim = parcel[p].claim
      /\ row.left = parcel[p].left /\ row.departure = parcel[p].departure /\ row.step = parcel[p].step
      /\ row.pair = v
  BY <1>2 DEF Parcel
<1> HIDE DEF row
<1>5. /\ parcel'[p] = row /\ \A q \in Parcels \ {p} : parcel'[q] = parcel[q]
  BY <1>1, <1>4, ParcelIs DEF RunIInv
<1>6. RowOK(p)'
  BY <1>2, <1>4, <1>5 DEF RowOK, Unplanned, Waiting
<1>7. RunsUntouched
  BY <1>4, <1>5 DEF RunsUntouched
<1>8. \A r \in Solves, q \in Parcels :
         solve[r].at = "solve" /\ q \notin solve'[r].repaired /\ lockedBy[q] # None
             => parcel'[q].pair = parcel[q].pair
  BY <1>5
<1>9. JobsHeld' /\ PinsHeld' /\ Waves'
  BY <1>7, <1>8, HeldStay
<1>10. /\ routes' \subseteq Route /\ lastShift' \in 0..MaxShifts /\ lastShift =< lastShift'
  BY DEF RunIInv, RunTypeOK
<1>11. row.left # None => row.left =< b
  BY <1>3, <1>4
<1>12. row.departure # None => row.departure =< b
  BY <1>3, <1>4
<1> QED BY <1>1, <1>3, <1>4, <1>6, <1>9, <1>10, <1>11, <1>12, RowMoves

LEMMA PairByHandKeeps ==
  ASSUME RunIInv, NEW p \in Parcels, PairByHand(p)
  PROVE  RunIInv'
<1>1. PICK v \in Vans : parcel' = [parcel EXCEPT ![p].pair = v]
  BY DEF PairByHand
<1>2. parcel[p].pair = None /\ lockedBy[p] = None /\ UNCHANGED <<routes, lastShift, lockedBy, solve, clock>>
  BY DEF PairByHand, Free
<1>3. RowOK(p)
  BY RowIs
<1>4. parcel[p].claim = None
  <2>1. \A route \in routes : route.id[2] # None
    BY WarehouseAssumption DEF RunIInv, RunTypeOK, Route, Ids
  <2> QED BY <1>2, <1>3, <2>1 DEF RowOK
<1>5. solve' \in [Solves -> Solving]
  BY <1>2 DEF RunIInv, RunTypeOK
<1> QED BY <1>1, <1>2, <1>4, <1>5, NewPairKeeps

LEMMA PairAnewKeeps ==
  ASSUME RunIInv, NEW p \in Parcels, PairAnew(p)
  PROVE  RunIInv'
<1>1. PICK v \in Vans : parcel' = [parcel EXCEPT ![p].pair = v]
  BY DEF PairAnew
<1>2. parcel[p].pair # None /\ parcel[p].claim = None /\ UNCHANGED <<routes, lastShift, lockedBy, clock>>
  BY DEF PairAnew
<1> DEFINE after(r) == IF solve[r].at = "solve" THEN solve[r].repaired \cup {p} ELSE solve[r].repaired
           new(r) == [solve[r] EXCEPT !.repaired = after(r)]
<1>3. solve' = [r \in Solves |-> new(r)]
  BY DEF PairAnew
<1>4. ASSUME NEW r \in Solves
      PROVE  /\ new(r) \in Solving /\ new(r).repaired = after(r)
             /\ new(r).at = solve[r].at /\ new(r).jobs = solve[r].jobs
             /\ new(r).pins = solve[r].pins /\ new(r).setOff = solve[r].setOff
             /\ new(r).gone = solve[r].gone /\ new(r).overruled = solve[r].overruled
  <2>1. solve[r] \in Solving
    BY DEF RunIInv, RunTypeOK
  <2>2. after(r) \subseteq Parcels
    BY <2>1 DEF Solving
  <2> HIDE DEF after
  <2> QED BY <2>1, <2>2 DEF Solving
<1> HIDE DEF new
<1>5. solve' \in [Solves -> Solving]
  BY <1>3, <1>4
<1>6. \A r \in Solves : /\ solve'[r].at = solve[r].at /\ solve'[r].jobs = solve[r].jobs
                        /\ solve'[r].pins = solve[r].pins /\ solve'[r].setOff = solve[r].setOff
                        /\ solve'[r].gone = solve[r].gone /\ solve'[r].overruled = solve[r].overruled
                        /\ solve[r].repaired \subseteq solve'[r].repaired
  BY <1>3, <1>4
<1>7. \A r \in Solves : solve[r].at = "solve" => p \in solve'[r].repaired
  BY <1>3, <1>4
<1> QED BY <1>1, <1>2, <1>5, <1>6, <1>7, NewPairKeeps

LEMMA ScanKeeps ==
  ASSUME RunIInv, NEW p \in Parcels, Scan(p)
  PROVE  RunIInv'
<1>1. PICK status \in {"IN_TRANSIT"} \cup Terminal :
        parcel' = [parcel EXCEPT ![p] =
          [parcel[p] EXCEPT !.status = status,
                            !.left = IF status = "IN_TRANSIT" /\ parcel[p].left = None
                                     THEN clock ELSE parcel[p].left]]
  BY DEF Scan
<1> DEFINE left == IF status = "IN_TRANSIT" /\ parcel[p].left = None THEN clock ELSE parcel[p].left
           row == [parcel[p] EXCEPT !.status = status, !.left = left]
<1>2. parcel' = [parcel EXCEPT ![p] = row] /\ UNCHANGED <<routes, lastShift, lockedBy, solve, clock>>
  BY <1>1 DEF Scan
<1>3. parcel[p].status # "PENDING" /\ lockedBy[p] = None
  BY <1>1 DEF Scan, Free, Terminal
<1>4. parcel[p] \in Parcel /\ RowOK(p)
  BY RowIs
<1>5. PICK b \in Nat : /\ parcel[p].left # None => parcel[p].left =< b
                       /\ parcel[p].departure # None => parcel[p].departure =< b
  BY RowIs
<1>6. left \in 0..MaxClock \cup {None} /\ MaxClock \in Nat
  BY <1>4, WarehouseAssumption DEF Parcel, RunIInv, RunTypeOK
<1>7. /\ row \in Parcel /\ row.status = status /\ row.claim = parcel[p].claim
      /\ row.left = left /\ row.departure = parcel[p].departure /\ row.step = parcel[p].step
      /\ row.pair = parcel[p].pair
  <2> HIDE DEF left
  <2> QED BY <1>4, <1>6 DEF Parcel, Terminal
<1> HIDE DEF row
<1>8. /\ parcel'[p] = row /\ \A q \in Parcels \ {p} : parcel'[q] = parcel[q]
  BY <1>2, <1>7, ParcelIs DEF RunIInv
<1>9. RowOK(p)'
  BY <1>2, <1>3, <1>4, <1>7, <1>8 DEF RowOK, Unplanned, Waiting, Terminal
<1>10. RunsUntouched
  BY <1>2, <1>3, <1>7, <1>8 DEF RunsUntouched
<1>11. JobsHeld' /\ PinsHeld' /\ Waves'
  BY <1>2, <1>3, <1>8, <1>10, HeldStay
<1> DEFINE c == b + MaxClock
<1>12. /\ c \in Nat /\ (row.left # None => row.left =< c) /\ (row.departure # None => row.departure =< c)
  BY <1>4, <1>5, <1>6, <1>7, WarehouseAssumption DEF Parcel, Times
<1>13. /\ routes' \subseteq Route /\ lastShift' \in 0..MaxShifts /\ lastShift =< lastShift'
       /\ solve' \in [Solves -> Solving]
  BY <1>2 DEF RunIInv, RunTypeOK
<1> HIDE DEF c
<1> QED BY <1>2, <1>7, <1>9, <1>11, <1>12, <1>13, RowMoves

(* A parcel put on a route of a van is on it in every table.               *)
LEMMA AssignedIs ==
  ASSUME NEW row \in Parcel, NEW id \in Ids
  PROVE  /\ Assigned(row, id) \in Parcel
         /\ Assigned(row, id).claim = id /\ Assigned(row, id).step = id
         /\ Assigned(row, id).pair = id[2] /\ Assigned(row, id).status = "ASSIGNED"
         /\ Assigned(row, id).left = row.left /\ Assigned(row, id).departure = row.departure
<1>1. id[2] \in Vans
  BY DEF Ids
<1> QED BY <1>1 DEF Assigned, Parcel

LEMMA AssignInstantlyKeeps ==
  ASSUME RunIInv, NEW p \in Parcels, AssignInstantly(p)
  PROVE  RunIInv'
<1>1. PICK v \in Vans, length \in Lengths :
        /\ parcel' = [parcel EXCEPT ![p] = Assigned(parcel[p], <<lastShift + 1, v, "instant">>)]
        /\ routes' = routes \cup {[id |-> <<lastShift + 1, v, "instant">>, planned |-> clock, length |-> length]}
  BY DEF AssignInstantly
<1> DEFINE id == <<lastShift + 1, v, "instant">>
           route == [id |-> id, planned |-> clock, length |-> length]
           row == Assigned(parcel[p], id)
<1>2. parcel' = [parcel EXCEPT ![p] = row] /\ routes' = routes \cup {route}
  BY <1>1
<1>3. /\ lockedBy[p] = None /\ parcel[p].claim = None /\ parcel[p].step = None
      /\ lastShift < MaxShifts /\ lastShift' = lastShift + 1
      /\ UNCHANGED <<lockedBy, solve, clock>>
  BY DEF AssignInstantly, Free
<1>4. /\ lastShift \in Nat /\ lastShift' \in 0..MaxShifts /\ lastShift =< lastShift'
      /\ lastShift + 1 \in 1..MaxShifts
  BY <1>3, WarehouseAssumption DEF RunIInv, RunTypeOK
<1>5. id \in Ids /\ id[1] = lastShift + 1 /\ id[2] = v
  BY <1>4 DEF Ids
<1> HIDE DEF id
<1>6. /\ route \in Route /\ route.id = id /\ route.length = length /\ length \in Nat
  BY <1>5, WarehouseAssumption DEF Route, Times, RunIInv, RunTypeOK
<1>7. parcel[p] \in Parcel /\ RowOK(p)
  BY RowIs
<1>8. PICK b \in Nat : /\ parcel[p].left # None => parcel[p].left =< b
                       /\ parcel[p].departure # None => parcel[p].departure =< b
  BY RowIs
<1>9. /\ row \in Parcel /\ row.claim = id /\ row.step = id /\ row.pair = v /\ row.status = "ASSIGNED"
      /\ row.left = parcel[p].left /\ row.departure = parcel[p].departure
  BY <1>5, <1>7, AssignedIs
<1> HIDE DEF row, route
<1>10. /\ parcel'[p] = row /\ \A q \in Parcels \ {p} : parcel'[q] = parcel[q]
  BY <1>2, <1>9, ParcelIs DEF RunIInv
<1>11. parcel[p].left = None /\ id # None
  BY <1>3, <1>5, <1>7, WarehouseAssumption DEF RowOK, Unplanned
<1>12. RowOK(p)'
  BY <1>2, <1>5, <1>6, <1>9, <1>10, <1>11 DEF RowOK, Unplanned, Waiting
<1>13. RunsUntouched
  BY <1>3, <1>10, <1>11 DEF RunsUntouched
<1>14. \A old \in routes' \ routes : old.id[1] > lastShift
  BY <1>2, <1>4, <1>5, <1>6
<1>15. JobsHeld' /\ PinsHeld' /\ Waves'
  BY <1>3, <1>10, <1>13, <1>14, HeldStay
<1> DEFINE c == b + length
<1>16. /\ c \in Nat /\ length =< c
       /\ (row.left # None => row.left =< c) /\ (row.departure # None => row.departure =< c)
  <2>1. row.left \in Nat \cup {None} /\ row.departure \in Nat \cup {None}
    BY <1>9, WarehouseAssumption DEF Parcel, Times
  <2> QED BY <1>6, <1>8, <1>9, <2>1
<1>17. \A new \in routes' \ routes : new.length =< c /\ new.id[1] =< lastShift'
  BY <1>2, <1>3, <1>4, <1>5, <1>6, <1>16
<1>18. routes' \subseteq Route /\ solve' \in [Solves -> Solving]
  BY <1>2, <1>3, <1>6 DEF RunIInv, RunTypeOK
<1> HIDE DEF c
<1> QED BY <1>2, <1>3, <1>4, <1>9, <1>12, <1>15, <1>16, <1>17, <1>18, RowMoves

LEMMA DetachKeeps ==
  ASSUME RunIInv, NEW p \in Parcels, DetachParcel(p)
  PROVE  RunIInv'
<1>1. PICK kept \in {NewParcel, [NewParcel EXCEPT !.step = parcel[p].step, !.pair = parcel[p].pair]} :
        /\ parcel' = [parcel EXCEPT ![p] = [kept EXCEPT !.departure = parcel[p].departure]]
        /\ routes' = {route \in routes : \E q \in Parcels : parcel'[q].step = route.id}
  BY DEF DetachParcel
<1> DEFINE row == [kept EXCEPT !.departure = parcel[p].departure]
<1>2. /\ parcel' = [parcel EXCEPT ![p] = row]
      /\ routes' = {route \in routes : \E q \in Parcels : parcel'[q].step = route.id}
  BY <1>1
<1>3. /\ lockedBy[p] = None /\ parcel[p].status = "ASSIGNED"
      /\ UNCHANGED <<lastShift, lockedBy, solve, clock>>
  BY DEF DetachParcel, Free
<1>4. parcel[p] \in Parcel /\ RowOK(p)
  BY RowIs
<1>5. PICK b \in Nat : /\ parcel[p].left # None => parcel[p].left =< b
                       /\ parcel[p].departure # None => parcel[p].departure =< b
  BY RowIs
<1>6. /\ row \in Parcel /\ row.claim = None /\ row.status = "PENDING" /\ row.left = None
      /\ row.departure = parcel[p].departure
  <2>1. /\ parcel[p].step \in Ids \cup {None} /\ parcel[p].pair \in Vans \cup {None}
        /\ parcel[p].departure \in Times \cup {None}
    BY <1>4 DEF Parcel
  <2>2. kept \in Parcel /\ kept.claim = None /\ kept.status = "PENDING" /\ kept.left = None
    <3>1. /\ NewParcel \in Parcel /\ NewParcel.claim = None
          /\ NewParcel.status = "PENDING" /\ NewParcel.left = None
      BY DEF NewParcel, Parcel
    <3> HIDE DEF NewParcel
    <3>2. CASE kept = NewParcel
      BY <3>1, <3>2
    <3>3. CASE kept = [NewParcel EXCEPT !.step = parcel[p].step, !.pair = parcel[p].pair]
      BY <2>1, <3>1, <3>3 DEF Parcel
    <3> QED BY <3>2, <3>3
  <2> HIDE DEF NewParcel
  <2> QED BY <2>1, <2>2 DEF Parcel
<1> HIDE DEF row
<1>7. /\ parcel'[p] = row /\ \A q \in Parcels \ {p} : parcel'[q] = parcel[q]
  BY <1>2, <1>6, ParcelIs DEF RunIInv
<1>8. RowOK(p)'
  BY <1>6, <1>7 DEF RowOK, Unplanned, Waiting
<1>9. parcel[p].left = None
  BY <1>3, <1>4 DEF RowOK, Waiting
<1>10. RunsUntouched
  BY <1>3, <1>7, <1>9 DEF RunsUntouched
<1>11. JobsHeld' /\ PinsHeld' /\ Waves'
  BY <1>2, <1>3, <1>7, <1>10, HeldStay
<1>12. ASSUME NEW q \in Parcels \ {p}, NEW route \in routes, parcel[q].claim # None, route.id = parcel[q].claim
       PROVE  route \in routes'
  <2>1. parcel'[q].step = route.id
    BY <1>7, <1>12 DEF RunIInv, RoutedAreClaimed
  <2> QED BY <1>2, <2>1
<1>13. /\ routes' \subseteq Route /\ routes' \subseteq routes /\ lastShift' \in 0..MaxShifts
       /\ lastShift =< lastShift' /\ solve' \in [Solves -> Solving]
  BY <1>2, <1>3 DEF RunIInv, RunTypeOK
<1>14. \A new \in routes' \ routes : new.length =< b /\ new.id[1] =< lastShift'
  BY <1>13
<1>15. (row.left # None => row.left =< b) /\ (row.departure # None => row.departure =< b)
  BY <1>5, <1>6
<1> QED BY <1>2, <1>3, <1>6, <1>8, <1>11, <1>12, <1>13, <1>14, <1>15, RowMoves

LEMMA TickKeeps ==
  ASSUME RunIInv, Tick \/ UNCHANGED runVars
  PROVE  RunIInv'
<1>1. UNCHANGED <<parcel, routes, lastShift, lockedBy, solve>> /\ clock' \in 0..MaxClock
  BY WarehouseAssumption DEF Tick, runVars, RunIInv, RunTypeOK
<1> USE DEF RunIInv
<1>2. RunTypeOK'
  BY <1>1 DEF RunTypeOK
<1>3. Bounded' /\ StatusTells' /\ IdsUsed'
  BY <1>1 DEF Bounded, BoundedBy, StatusTells, Unplanned, Waiting, IdsUsed
<1>4. RoutedAreClaimed' /\ JobsHeld' /\ PinsHeld'
  BY <1>1 DEF RoutedAreClaimed, JobsHeld, JobHeld, PinsHeld, PinHeld, Candidates
<1>5. Waves'
  BY <1>1 DEF Waves, BackBefore, StopsOf
<1> QED BY <1>2, <1>3, <1>4, <1>5

LEMMA InitHolds == RunInit => RunIInv
<1> SUFFICES ASSUME RunInit PROVE RunIInv
  OBVIOUS
<1>1. PICK collected \in SUBSET Handled :
        parcel = [p \in Parcels |-> [NewParcel EXCEPT !.departure = IF p \in collected THEN 0 ELSE None]]
  BY DEF RunInit
<1>2. /\ routes = {} /\ lastShift = 0 /\ lockedBy = [p \in Parcels |-> None]
      /\ solve = [r \in Solves |-> NoSolve] /\ clock = 0
  BY DEF RunInit
<1>3. ASSUME NEW p \in Parcels
      PROVE  /\ parcel[p] \in Parcel /\ parcel[p].status = "PENDING" /\ parcel[p].claim = None
             /\ parcel[p].left = None /\ parcel[p].departure \in {0, None}
  <2> DEFINE d == IF p \in collected THEN 0 ELSE None
  <2>1. parcel[p] = [NewParcel EXCEPT !.departure = d] /\ d \in {0, None}
    BY <1>1
  <2> HIDE DEF d
  <2> QED BY <2>1 DEF NewParcel, Parcel, Times
<1>4. parcel \in [Parcels -> Parcel]
  BY <1>1, <1>3
<1>5. NoSolve \in Solving /\ NoSolve.at = "idle" /\ NoSolve.gone = {} /\ \A v \in Vans : NoSolve.setOff[v] = 0
  BY NoSolveTyped
<1> HIDE DEF NoSolve
<1>6. RunTypeOK
  BY <1>2, <1>4, <1>5, WarehouseAssumption DEF RunTypeOK
<1>7. Bounded
  <2>1. BoundedBy(0)
    BY <1>2, <1>3, <1>5 DEF BoundedBy
  <2> QED BY <2>1 DEF Bounded
<1>8. StatusTells /\ IdsUsed /\ RoutedAreClaimed
  BY <1>2, <1>3, <1>5 DEF StatusTells, Unplanned, Waiting, IdsUsed, RoutedAreClaimed
<1>9. JobsHeld /\ PinsHeld /\ Waves
  BY <1>2, <1>5 DEF JobsHeld, PinsHeld, Waves
<1> QED BY <1>6, <1>7, <1>8, <1>9 DEF RunIInv

-----------------------------------------------------------------------------
(* What a run writes.                                                      *)

Put(f, p) == p \in DOMAIN f /\ f[p] # None

(* An answer puts jobs of the request on vans, the pinned on theirs; the   *)
(* run holds what it puts, and no plan has it.                             *)
LEMMA AnswerIs ==
  ASSUME RunIInv, NEW r \in Solves, solve[r].at = "solve", NEW f \in Answers(r), NEW p, Put(f, p)
  PROVE  /\ p \in Parcels /\ f[p] \in Vans
         /\ lockedBy[p] = r /\ parcel[p].claim = None
         /\ parcel[p].status = "PENDING" /\ parcel[p].left = None
         /\ p \in solve[r].jobs => parcel[p].pair = None
         /\ p \notin solve[r].jobs => solve[r].pins[p] # None /\ f[p] = solve[r].pins[p]
<1> DEFINE pinned == {q \in Parcels : solve[r].pins[q] # None}
<1>1. /\ f \in [solve[r].jobs \cup pinned -> Vans \cup {None}]
      /\ \A q \in pinned \ solve[r].jobs : f[q] \in {None, solve[r].pins[q]}
  BY DEF Answers
<1>2. solve[r].jobs \subseteq Parcels
  BY WarehouseAssumption DEF RunIInv, RunTypeOK, Solving
<1>3. p \in Parcels /\ f[p] \in Vans /\ p \in solve[r].jobs \cup pinned
  BY <1>1, <1>2 DEF Put
<1>4. p \in solve[r].jobs => lockedBy[p] = r /\ parcel[p].claim = None /\ parcel[p].pair = None
  BY DEF RunIInv, JobsHeld, JobHeld, Candidates
<1>5. p \in pinned => lockedBy[p] = r /\ parcel[p].claim = None
  BY <1>3 DEF RunIInv, PinsHeld, PinHeld
<1>6. parcel[p].claim = None => parcel[p].status = "PENDING" /\ parcel[p].left = None
  BY <1>3 DEF RunIInv, StatusTells, Unplanned
<1>7. p \notin solve[r].jobs => solve[r].pins[p] # None /\ f[p] = solve[r].pins[p]
  BY <1>1, <1>3 DEF Put
<1> QED BY <1>3, <1>4, <1>5, <1>6, <1>7

LEMMA RouteIdIs ==
  ASSUME RunTypeOK, NEW r \in Solves, NEW p, NEW v \in Vans, lastShift < MaxShifts
  PROVE  /\ RouteId(r, p, v) \in Ids /\ RouteId(r, p, v) # None
         /\ RouteId(r, p, v)[1] = lastShift + 1 /\ RouteId(r, p, v)[2] = v
<1>1. lastShift + 1 \in 1..MaxShifts
  BY WarehouseAssumption DEF RunTypeOK
<1> QED BY <1>1, WarehouseAssumption DEF RouteId, Ids

(* The rows as the run leaves them.                                        *)
StampedRow(r, f, p) ==
  /\ parcel'[p] \in Parcel
  /\ parcel'[p].claim = RouteId(r, p, f[p]) /\ parcel'[p].step = RouteId(r, p, f[p])
  /\ parcel'[p].pair = f[p] /\ parcel'[p].status = "ASSIGNED" /\ parcel'[p].left = None
  /\ parcel'[p].departure \in {parcel[p].departure, solve[r].setOff[f[p]]}

LEMMA StampIs ==
  ASSUME RunIInv, NEW r \in Solves, solve[r].at = "solve", lastShift < MaxShifts,
         NEW f \in Answers(r), StampRouted(r, f)
  PROVE  /\ parcel' \in [Parcels -> Parcel]
         /\ \A p \in Parcels : Put(f, p) => StampedRow(r, f, p)
         /\ \A p \in Parcels : ~Put(f, p) => parcel'[p] = parcel[p]
<1>1. ASSUME NEW p \in Parcels, ~Put(f, p)
      PROVE  parcel'[p] = parcel[p]
  BY <1>1 DEF StampRouted, Put
<1>2. ASSUME NEW p \in Parcels, Put(f, p)
      PROVE  StampedRow(r, f, p)
  <2> DEFINE row == Assigned(parcel[p], RouteId(r, p, f[p]))
             new == [row EXCEPT !.departure = solve[r].setOff[f[p]]]
  <2>1. f[p] \in Vans /\ parcel[p].left = None
    BY <1>2, AnswerIs
  <2>2. RouteId(r, p, f[p]) \in Ids /\ RouteId(r, p, f[p])[2] = f[p]
    BY <2>1, RouteIdIs DEF RunIInv
  <2>3. /\ row \in Parcel /\ row.claim = RouteId(r, p, f[p]) /\ row.step = RouteId(r, p, f[p])
        /\ row.pair = f[p] /\ row.status = "ASSIGNED" /\ row.left = None
        /\ row.departure = parcel[p].departure
    BY <2>1, <2>2, AssignedIs DEF RunIInv, RunTypeOK
  <2>4. parcel'[p] \in {row, new}
    BY <1>2 DEF StampRouted, Put
  <2>5. solve[r].setOff[f[p]] \in Nat
    BY <2>1 DEF RunIInv, RunTypeOK, Solving, Times
  <2> HIDE DEF row
  <2>6. /\ new \in Parcel /\ new.claim = row.claim /\ new.step = row.step /\ new.pair = row.pair
        /\ new.status = row.status /\ new.left = row.left /\ new.departure = solve[r].setOff[f[p]]
    BY <2>3, <2>5 DEF Parcel, Times
  <2> HIDE DEF new
  <2> QED BY <2>3, <2>4, <2>6 DEF StampedRow
<1>3. parcel' = [p \in Parcels |-> parcel'[p]]
  BY DEF StampRouted
<1>4. \A p \in Parcels : parcel'[p] \in Parcel
  BY <1>1, <1>2 DEF StampedRow, RunIInv, RunTypeOK
<1> QED BY <1>1, <1>2, <1>3, <1>4

LEMMA NewRouteIs ==
  ASSUME RunIInv, NEW r \in Solves, solve[r].at = "solve", lastShift < MaxShifts,
         NEW f \in Answers(r), NEW length \in Lengths
  PROVE  /\ \A new \in NewRoutes(r, f, length) :
              /\ new \in Route /\ new.id[1] = lastShift + 1 /\ new.length = length
              /\ new.planned = solve[r].setOff[new.id[2]] /\ new.id[2] \in Vans
         /\ \A p : Put(f, p) => \E new \in NewRoutes(r, f, length) :
                                  new.id = RouteId(r, p, f[p]) /\ new.id[2] = f[p]
<1> DEFINE route(p) == [id |-> RouteId(r, p, f[p]), planned |-> solve[r].setOff[f[p]], length |-> length]
<1>1. ASSUME NEW p, Put(f, p)
      PROVE  /\ route(p) \in Route /\ route(p).id = RouteId(r, p, f[p]) /\ route(p).length = length
             /\ route(p).id[1] = lastShift + 1 /\ route(p).id[2] = f[p] /\ f[p] \in Vans
             /\ route(p).planned = solve[r].setOff[f[p]]
  <2>1. f[p] \in Vans
    BY <1>1, AnswerIs
  <2>2. /\ RouteId(r, p, f[p]) \in Ids
        /\ RouteId(r, p, f[p])[1] = lastShift + 1 /\ RouteId(r, p, f[p])[2] = f[p]
    BY <2>1, RouteIdIs DEF RunIInv
  <2>3. solve[r].setOff[f[p]] \in Times
    BY <2>1 DEF RunIInv, RunTypeOK, Solving
  <2> QED BY <2>1, <2>2, <2>3 DEF Route
<1>2. NewRoutes(r, f, length) = {route(p) : p \in {q \in DOMAIN f : f[q] # None}}
  BY DEF NewRoutes
<1> HIDE DEF route
<1> QED BY <1>1, <1>2 DEF Put

LEMMA InsertKeeps ==
  ASSUME RunIInv, NEW r \in Solves, InsertRoutes(r)
  PROVE  RunIInv'
<1> USE DEF RunIInv
<1>1. PICK f \in Answers(r), length \in Lengths :
        /\ CanInsert({p \in DOMAIN f : f[p] # None})
        /\ StampRouted(r, f)
        /\ routes' = routes \cup NewRoutes(r, f, length)
  BY DEF InsertRoutes
<1>2. /\ solve[r].at = "solve" /\ lastShift < MaxShifts /\ lastShift' = lastShift + 1
      /\ Release(r) /\ solve' = [solve EXCEPT ![r] = NoSolve] /\ clock' = clock
  BY DEF InsertRoutes
<1>3. /\ parcel' \in [Parcels -> Parcel]
      /\ \A p \in Parcels : Put(f, p) => StampedRow(r, f, p)
      /\ \A p \in Parcels : ~Put(f, p) => parcel'[p] = parcel[p]
  BY <1>1, <1>2, StampIs
<1>4. /\ \A new \in NewRoutes(r, f, length) :
           new \in Route /\ new.id[1] = lastShift + 1 /\ new.length = length
      /\ \A p : Put(f, p) => \E new \in NewRoutes(r, f, length) :
                               new.id = RouteId(r, p, f[p]) /\ new.id[2] = f[p]
  BY <1>1, <1>2, NewRouteIs
<1>5. \A p : Put(f, p) => /\ lockedBy[p] = r /\ f[p] \in Vans
                          /\ parcel[p].step = None /\ parcel[p].left = None
  BY <1>1, <1>2, AnswerIs DEF CanInsert, Put
<1>6. /\ lockedBy' \in [Parcels -> Solves \cup {None}]
      /\ \A p \in Parcels, s \in Solves \ {r} : lockedBy[p] = s => lockedBy'[p] = s
  BY <1>2, Releasing
<1>7. /\ NoSolve \in Solving /\ NoSolve.at = "idle" /\ NoSolve.gone = {}
      /\ \A v \in Vans : NoSolve.setOff[v] = 0
  BY NoSolveTyped
<1> HIDE DEF NoSolve
<1>8. /\ solve' \in [Solves -> Solving] /\ solve'[r] = NoSolve
      /\ \A s \in Solves \ {r} : solve'[s] = solve[s]
  BY <1>2, <1>7, SolveIs
<1>9. lastShift \in 0..MaxShifts /\ lastShift' \in 0..MaxShifts /\ MaxShifts \in Nat
  BY <1>2, WarehouseAssumption DEF RunTypeOK
<1>10. RunTypeOK'
  BY <1>1, <1>2, <1>3, <1>4, <1>6, <1>8, <1>9 DEF RunTypeOK
<1>11. Bounded'
  <2>1. PICK b \in Nat : BoundedBy(b)
    BY DEF Bounded
  <2>2. length \in Nat
    BY WarehouseAssumption
  <2>3. b + length \in Nat /\ b =< b + length /\ length =< b + length /\ 0 =< b + length
    BY <2>2
  <2>4. BoundedBy(b + length)
    BY <2>1, <2>3, StillBounded
  <2>5. \A p \in Parcels : Put(f, p) =>
          /\ parcel'[p].left = None
          /\ parcel'[p].departure # None => parcel'[p].departure =< b + length
    BY <1>3, <1>5, <2>4 DEF StampedRow, BoundedBy
  <2>6. BoundedBy(b + length)'
    BY <1>1, <1>3, <1>4, <1>7, <1>8, <2>3, <2>4, <2>5 DEF BoundedBy
  <2> QED BY <2>3, <2>6 DEF Bounded
<1>12. StatusTells'
  <2>1. ASSUME NEW p \in Parcels, Put(f, p)
        PROVE  parcel'[p].claim # None /\ parcel'[p].left = None
    BY <1>2, <1>3, <1>5, <2>1, RouteIdIs DEF StampedRow
  <2> QED BY <1>3, <2>1 DEF StatusTells, Unplanned, Waiting
<1>13. IdsUsed'
  <2>1. \A route \in routes : route.id[1] \in Int
    BY DEF RunTypeOK, Route, Ids
  <2>2. \A s \in Solves : \A id \in solve[s].gone : id[1] \in Int
    BY DEF RunTypeOK, Solving, Ids
  <2> QED BY <1>1, <1>2, <1>4, <1>7, <1>8, <1>9, <2>1, <2>2 DEF IdsUsed
<1>14. RoutedAreClaimed'
  <2>1. ASSUME NEW p \in Parcels, Put(f, p)
        PROVE  /\ parcel'[p].claim = parcel'[p].step
               /\ \E route \in routes' : route.id = parcel'[p].claim /\ route.id[2] = parcel'[p].pair
    <3>1. StampedRow(r, f, p)
      BY <1>3, <2>1
    <3>2. PICK new \in NewRoutes(r, f, length) : new.id = RouteId(r, p, f[p]) /\ new.id[2] = f[p]
      BY <1>4, <2>1
    <3> QED BY <1>1, <3>1, <3>2 DEF StampedRow
  <2>2. \A p \in Parcels : parcel'[p].claim # None =>
          /\ parcel'[p].claim = parcel'[p].step
          /\ \E route \in routes' : route.id = parcel'[p].claim /\ route.id[2] = parcel'[p].pair
    BY <1>1, <1>3, <2>1 DEF RoutedAreClaimed
  <2> QED BY <1>12, <2>2 DEF RoutedAreClaimed, StatusTells, Unplanned
<1>15. \A s \in Solves \ {r}, p \in Parcels : lockedBy[p] = s => lockedBy'[p] = s /\ parcel'[p] = parcel[p]
  BY <1>3, <1>5, <1>6
<1>16. JobsHeld'
  <2>1. \A s \in Solves \ {r}, p \in Parcels : JobHeld(s, p) => JobHeld(s, p)'
    BY <1>15 DEF JobHeld, Candidates
  <2>2. \A s \in Solves \ {r} : solve[s].jobs \subseteq Parcels
    BY WarehouseAssumption DEF RunTypeOK, Solving
  <2> QED BY <1>7, <1>8, <2>1, <2>2 DEF JobsHeld
<1>17. PinsHeld'
  <2>1. \A s \in Solves \ {r}, p \in Parcels : PinHeld(s, p) => PinHeld(s, p)'
    BY <1>8, <1>15 DEF PinHeld
  <2> QED BY <1>7, <1>8, <2>1 DEF PinsHeld
<1>18. Waves'
  <2>1. ASSUME NEW s \in Solves \ {r}, NEW old \in routes, BackBefore(s, old)
        PROVE  BackBefore(s, old)'
    <3>1. PICK p \in StopsOf(old) : /\ parcel[p].left # None
                                    /\ solve[s].setOff[old.id[2]] >= parcel[p].left + old.length + Buffer
      BY <2>1 DEF BackBefore
    <3>2. parcel'[p] = parcel[p] /\ p \in StopsOf(old)'
      BY <1>3, <1>5, <3>1 DEF StopsOf
    <3> QED BY <1>8, <3>1, <3>2 DEF BackBefore
  <2>2. ASSUME NEW s \in Solves, NEW old \in routes', old.id \in solve[s].gone
        PROVE  old \in routes
    <3>1. old.id[1] =< lastShift
      BY <2>2 DEF IdsUsed
    <3> QED BY <1>1, <1>4, <1>9, <3>1
  <2> QED BY <1>7, <1>8, <2>1, <2>2 DEF Waves
<1> QED BY <1>10, <1>11, <1>12, <1>13, <1>14, <1>16, <1>17, <1>18

-----------------------------------------------------------------------------
LEMMA NextKeeps ==
  ASSUME RunIInv, [RunNext]_runVars
  PROVE  RunIInv'
<1>1. ASSUME NEW r \in Solves, LockCandidates(r) \/ ReadVans(r) \/ BuildPinnedRoutes(r)
                               \/ SkipRun(r) \/ InsertRoutes(r) \/ FailRun(r)
      PROVE  RunIInv'
  BY <1>1, LockKeeps, ReadVansKeeps, PinsKeep, OverKeeps, InsertKeeps
<1>2. ASSUME NEW p \in Parcels, PairByHand(p) \/ PairAnew(p) \/ AssignInstantly(p)
                                \/ DetachParcel(p) \/ Scan(p)
      PROVE  RunIInv'
  BY <1>2, PairByHandKeeps, PairAnewKeeps, AssignInstantlyKeeps, DetachKeeps, ScanKeeps
<1> QED BY <1>1, <1>2, TickKeeps DEF RunNext

LEMMA RunInvariant == RunSpec => []RunIInv
<1>1. RunInit => RunIInv
  BY InitHolds
<1>2. RunIInv /\ [RunNext]_runVars => RunIInv'
  BY NextKeeps
<1> QED BY <1>1, <1>2, PTL DEF RunSpec

(* Type correctness of the whole-warehouse solve and of what it writes.    *)
THEOREM RunTypeCorrect == RunSpec => []RunTypeOK
<1>1. RunIInv => RunTypeOK
  BY DEF RunIInv
<1> QED BY <1>1, RunInvariant, PTL

(* Over the minutes the solver takes, nobody plans, pairs or scans a job   *)
(* of its request, and nobody plans a pinned one.                          *)
THEOREM RequestsAreHeld == RunSpec => []HeldForTheSolver
<1>1. RunIInv => HeldForTheSolver
  <2> SUFFICES ASSUME RunIInv PROVE HeldForTheSolver
    OBVIOUS
  <2>1. \A r \in Solves : solve[r].at = "solve" => solve[r].jobs \subseteq Candidates
    BY DEF RunIInv, JobsHeld, JobHeld
  <2>2. \A r \in Solves : solve[r].at = "solve" =>
          \A p \in Parcels : solve[r].pins[p] # None => parcel[p].claim = None
    BY DEF RunIInv, PinsHeld, PinHeld
  <2> QED BY <2>1, <2>2 DEF HeldForTheSolver
<1> QED BY <1>1, RunInvariant, PTL

(* What is claimed by a plan has its stop in that plan, on the van it is   *)
(* paired with, whoever planned it; and a stop that outlives its claim is  *)
(* of a parcel that waits.                                                 *)
THEOREM ClaimedHaveStops == RunSpec => []RoutedAreClaimed
<1>1. RunIInv => RoutedAreClaimed
  BY DEF RunIInv
<1> QED BY <1>1, RunInvariant, PTL

(* Only the insertion of a run's own answer is what ends it in a new shift.*)
LEMMA InsertsOnly ==
  ASSUME RunIInv, [RunNext]_runVars, NEW r \in Solves, Inserts(r)
  PROVE  InsertRoutes(r)
<1>1. solve[r].at = "solve" /\ lastShift' # lastShift /\ solve'[r] = NoSolve
  BY DEF Inserts
<1>2. NoSolve.at = "idle"
  BY NoSolveTyped
<1>3. solve'[r] # solve[r]
  BY <1>1, <1>2
<1>4. \A s \in Solves \ {r} : ~InsertRoutes(s)
  BY <1>3 DEF InsertRoutes, RunIInv, RunTypeOK
<1>5. \A p \in Parcels : ~AssignInstantly(p)
  BY <1>3 DEF AssignInstantly
<1> QED BY <1>1, <1>4, <1>5 DEF RunNext, runVars, LockCandidates, ReadVans, BuildPinnedRoutes, SkipRun,
           FailRun, PairByHand, PairAnew, DetachParcel, Scan, Tick

(* A dispatcher who paired a parcel by hand finds it on that van after the *)
(* run, unless he changed his mind while it was being solved.              *)
THEOREM PairsStand == RunSpec => DispatchersChoiceStands
<1>1. ASSUME RunIInv, [RunNext]_runVars, NEW r \in Solves, NEW p \in Parcels,
             Inserts(r), TakenBy(p), parcel[p].pair # None, p \notin solve[r].repaired
      PROVE  parcel'[p].pair = parcel[p].pair
  <2>1. InsertRoutes(r)
    BY <1>1, InsertsOnly
  <2>2. PICK f \in Answers(r) : StampRouted(r, f)
    BY <2>1 DEF InsertRoutes
  <2>3. solve[r].at = "solve" /\ lastShift < MaxShifts
    BY <2>1 DEF InsertRoutes
  <2>4. Put(f, p) /\ StampedRow(r, f, p)
    BY <1>1, <2>2, <2>3, StampIs DEF TakenBy
  <2>5. solve[r].pins[p] # None /\ f[p] = solve[r].pins[p]
    BY <1>1, <2>3, <2>4, AnswerIs
  <2>6. parcel[p].pair = solve[r].pins[p]
    BY <1>1, <2>3, <2>5 DEF RunIInv, PinsHeld, PinHeld
  <2> QED BY <2>4, <2>5, <2>6 DEF StampedRow
<1>2. RunIInv /\ [RunNext]_runVars =>
        [\A r \in Solves, p \in Parcels :
           Inserts(r) /\ TakenBy(p) /\ parcel[p].pair # None /\ p \notin solve[r].repaired
             => parcel'[p].pair = parcel[p].pair]_runVars
  BY <1>1
<1> QED BY <1>2, RunInvariant, PTL DEF RunSpec, DispatchersChoiceStands

(* A van that had left when a run read when the vans come back is not      *)
(* planned to set off again before its route has brought it back.          *)
THEOREM VansComeBackFirst == RunSpec => NextWaveAfterReturn
<1>1. ASSUME RunIInv, [RunNext]_runVars, NEW r \in Solves, Inserts(r),
             NEW new \in routes' \ routes, NEW old \in routes,
             old.id \in solve[r].gone, old.id[2] = new.id[2], new.id[2] \notin solve[r].overruled
      PROVE  new.planned >= Earliest({parcel[p].left : p \in StopsOf(old)} \ {None}) + old.length + Buffer
  <2>1. InsertRoutes(r)
    BY <1>1, InsertsOnly
  <2>2. PICK f \in Answers(r), length \in Lengths : routes' = routes \cup NewRoutes(r, f, length)
    BY <2>1 DEF InsertRoutes
  <2>3. solve[r].at = "solve" /\ lastShift < MaxShifts
    BY <2>1 DEF InsertRoutes
  <2>4. new.planned = solve[r].setOff[old.id[2]] /\ old.id[2] \in Vans
    BY <1>1, <2>2, <2>3, NewRouteIs
  <2>5. PICK p \in StopsOf(old) : /\ parcel[p].left # None
                                  /\ solve[r].setOff[old.id[2]] >= parcel[p].left + old.length + Buffer
    BY <1>1, <2>3 DEF RunIInv, Waves, BackBefore
  <2> DEFINE lefts == {parcel[q].left : q \in StopsOf(old)}
  <2>6. \A q \in Parcels : parcel[q].left \in Nat \cup {None}
    BY <1>1, WarehouseAssumption DEF RunIInv, RunTypeOK, Parcel
  <2>7. lefts \in SUBSET (Nat \cup {None}) /\ parcel[p].left \in lefts \ {None} /\ lefts \ {None} # {}
    BY <2>5, <2>6 DEF StopsOf
  <2>8. parcel[p].left \in Nat /\ old.length \in Nat /\ solve[r].setOff[old.id[2]] \in Nat
    BY <1>1, <2>4, <2>5, <2>6, WarehouseAssumption DEF StopsOf, RunIInv, RunTypeOK, Route, Solving, Times
  <2> HIDE DEF lefts
  <2>9. Earliest(lefts \ {None}) \in Nat /\ Earliest(lefts \ {None}) =< parcel[p].left
    BY <2>7, EarliestIs
  <2>10. new.planned >= Earliest(lefts \ {None}) + old.length + Buffer
    BY <2>4, <2>5, <2>8, <2>9, WarehouseAssumption
  <2> QED BY <2>10 DEF lefts
<1>2. RunIInv /\ [RunNext]_runVars =>
        [\A r \in Solves : Inserts(r) =>
           \A new \in routes' \ routes, old \in routes :
             (/\ old.id \in solve[r].gone /\ old.id[2] = new.id[2]
              /\ new.id[2] \notin solve[r].overruled)
               => new.planned >= Earliest({parcel[p].left : p \in StopsOf(old)} \ {None}) + old.length + Buffer]_runVars
  BY <1>1
<1> QED BY <1>2, RunInvariant, PTL DEF RunSpec, NextWaveAfterReturn

=============================================================================
