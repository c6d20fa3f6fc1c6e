------------------------------ MODULE Packages ------------------------------
(***************************************************************************)
(* The packages API (src/packages/packages.service.ts): a request is   *)
(* validated, looked up by its tracking number, written in one transaction *)
(* and handed to instant assignment in another.  Clients retry, so two     *)
(* requests may carry one number.  What assignment does with a package is  *)
(* Tier1's; here it is placed on a shift or left pending.                  *)
(***************************************************************************)
EXTENDS Customers

CONSTANTS Posts,     \* POST /packages calls
          Numbers,      \* tracking numbers clients bring
          Generated     \* stands for one made by the trigger

VARIABLES parcels,      \* the packages: a set of records
          request       \* the calls

packageVars == <<parcels, request>>

NoRequest == [at |-> "new", number |-> Generated, from |-> NoRow, to |-> NoRow, auto |-> TRUE, answer |-> Absent]

PackagesInit ==
  /\ parcels = {}
  /\ request = [q \in Posts |-> NoRequest]

-----------------------------------------------------------------------------
(* A package's key is its tracking number, or the call it came from when   *)
(* the trigger makes one.                                                  *)
Key(number, call) == IF number = Generated THEN <<call>> ELSE <<number>>

Parcel(key, call, from, to) ==
  [key |-> key, call |-> call, from |-> from, to |-> to, placed |-> FALSE]

(* packages_tracking_number_key.                                           *)
NumberFree(key) == \A x \in parcels : x.key # key

(* insertMany: the row, its dimensions, window, status and skills, all on  *)
(* the caller's transaction.                                               *)
InsertMany(new) == parcels' = parcels \cup new

(* findByTrackingNumber and matchesPayload: same sender, recipient, depot. *)
WithNumber(number) == {x \in parcels : number # Generated /\ x.key = <<number>>}
MatchesPayload(x, q) == x.from = request[q].from /\ x.to = request[q].to

Reply(q, answer) ==
  request' = [request EXCEPT ![q].at = "answered", ![q].answer = answer]

-----------------------------------------------------------------------------
(* validateReferences: both customers are the organisation's, or 400.      *)
ValidateReferences(q) ==
  /\ request[q].at = "new"
  /\ \E number \in Numbers \cup {Generated}, auto \in BOOLEAN,
        from \in Rows \cup {NoRow}, to \in Rows :
       request' = [request EXCEPT ![q] =
         [at |-> IF from = NoRow THEN "answered" ELSE "lookup", number |-> number,
          from |-> from, to |-> to, auto |-> auto,
          answer |-> IF from = NoRow THEN "invalid" ELSE Absent]]
  /\ UNCHANGED parcels

LookUpNumber(q) ==
  /\ request[q].at = "lookup"
  /\ LET found == WithNumber(request[q].number) IN
       IF found = {} THEN request' = [request EXCEPT ![q].at = "insert"]
       ELSE Reply(q, IF \E x \in found : MatchesPayload(x, q)
                     THEN "replayed" ELSE "conflict")
  /\ UNCHANGED parcels

(* Transaction A; two replays may both have looked and found nothing, and  *)
(* the second insert is refused and answered 409 (translate).              *)
InsertPackage(q) ==
  /\ request[q].at = "insert"
  /\ LET key == Key(request[q].number, q) IN
       IF NumberFree(key)
       THEN /\ InsertMany({Parcel(key, q, request[q].from, request[q].to)})
            /\ request' = [request EXCEPT ![q].at = IF request[q].auto THEN "assign" ELSE "read"]
       ELSE /\ Reply(q, "conflict")
            /\ UNCHANGED parcels

Placed(x, yes) == (parcels \ {x}) \cup {[x EXCEPT !.placed = yes]}

(* Transaction B: a shift takes the package, or it is deferred.            *)
AssignPackage(q) ==
  /\ request[q].at = "assign"
  /\ \E x \in parcels : x.call = q /\ \E yes \in BOOLEAN : parcels' = Placed(x, yes)
  /\ request' = [request EXCEPT ![q].at = "read"]

AnswerCreated(q) ==
  /\ request[q].at = "read"
  /\ Reply(q, "created")
  /\ UNCHANGED parcels

(* reassign: unassign, then assign; a crash between leaves it pending.     *)
Unassign(q) ==
  /\ request[q].at = "new"
  /\ \E x \in parcels :
       /\ parcels' = Placed(x, FALSE)
       /\ request' = [request EXCEPT ![q] = [NoRequest EXCEPT !.at = "again", !.number = x.key]]

AssignAgain(q) ==
  /\ request[q].at = "again"
  /\ \E x \in parcels : /\ x.key = request[q].number
                        /\ \E yes \in BOOLEAN : parcels' = Placed(x, yes)
  /\ Reply(q, "reassigned")

RequestCrash(q) ==
  /\ request[q].at \notin {"new", "answered"}
  /\ Reply(q, "lost")
  /\ UNCHANGED parcels

PackagesNext ==
  \E q \in Posts :
    \/ ValidateReferences(q) \/ LookUpNumber(q) \/ InsertPackage(q) \/ AssignPackage(q)
    \/ AnswerCreated(q) \/ Unassign(q) \/ AssignAgain(q) \/ RequestCrash(q)

-----------------------------------------------------------------------------
(* A tracking number names one package, however often and however close    *)
(* together it is posted, and a call answered "created" or "replayed"      *)
(* finds its own sender and recipient on it.                               *)
PostedOnce ==
  /\ \A x, y \in parcels : x.key = y.key => x.call = y.call
  /\ \A q \in Posts :
       request[q].answer \in {"created", "replayed"} /\ request[q].number # Generated =>
         \E x \in parcels : x.key = <<request[q].number>> /\ MatchesPayload(x, q)
=============================================================================
