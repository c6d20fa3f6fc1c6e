----------------------------- MODULE Customers -----------------------------
(***************************************************************************)
(* The customer rows of one organisation and the four ways to write them   *)
(* (src/customers/customers.service.ts): the dashboard creates and     *)
(* updates one by its id, a paid booking and an external order upsert one  *)
(* by the strongest identity they have.  A row may be linked to a customer *)
(* of the organisation's Stripe account, by a call made between two        *)
(* statements.                                                             *)
(***************************************************************************)
EXTENDS Naturals, FiniteSets

CONSTANTS RowIds,       \* the ids rows may get
          Clients,      \* people, as the dashboard, a booking or an order gives them
          Jobs,         \* requests of the dashboard and of storefronts
          PaymentsOn,   \* the organisation has a Stripe account
          NoRow, Absent

ASSUME ClientsAssumption ==
  \A p \in Clients : DOMAIN p = {"name", "phone", "email", "place", "geo"}

VARIABLES row,          \* the customer table
          job           \* the requests under way

customerVars == <<row, job>>

Idle == [at |-> "idle", kind |-> Absent, person |-> Absent, id |-> NoRow, link |-> Absent]

CustomersInit ==
  /\ row = [r \in RowIds |-> NoRow]
  /\ job = [j \in Jobs |-> Idle]

Rows == {r \in RowIds : row[r] # NoRow}

-----------------------------------------------------------------------------
(* Identities, strongest first: a phone, an email, a name.                 *)
Strength(x) ==
  CASE x.phone # Absent -> 3
    [] x.phone = Absent /\ x.email # Absent -> 2
    [] OTHER -> 1

(* Mutant: the email's index does not leave out the rows with a phone.     *)
ConflictsAnywhere(old, new) ==
  \/ Strength(new) = 3 /\ old.phone = new.phone
  \/ Strength(new) = 2 /\ old.email = new.email
  \/ Strength(new) = 1 /\ Strength(old) = 1 /\ old.name = new.name

(* The partial unique indexes, one a tier, and ON CONFLICT's target.       *)
Conflicts(old, new) ==
  /\ Strength(old) = Strength(new)
  /\ CASE Strength(new) = 3 -> old.phone = new.phone
       [] Strength(new) = 2 -> old.email = new.email
       [] OTHER -> old.name = new.name

(* A row that would break an index is refused by the database.             *)
Accepted(id, new) == \A r \in Rows \ {id} : ~Conflicts(row[r], new)

Inserted(p) ==
  [name |-> p.name, phone |-> p.phone, email |-> p.email, place |-> p.place,
   geo |-> p.geo, stripe |-> Absent, external |-> FALSE]

(* DO UPDATE: the address block is replaced as a whole, the phone stays,   *)
(* and an absent provenance of the geocode does not blank the stored one.  *)
Merged(old, p) ==
  [old EXCEPT !.name = p.name, !.email = p.email, !.place = p.place,
              !.geo = IF p.geo = Absent THEN @ ELSE p.geo]

(* upsertCustomerRow: the row it may write, and what it writes there.      *)
UpsertTargets(p) ==
  LET hits == {r \in Rows : Conflicts(row[r], p)}
  IN IF hits # {} THEN hits ELSE RowIds \ Rows

UpsertCustomerRow(p, id) ==
  row' = [row EXCEPT ![id] = IF row[id] = NoRow THEN Inserted(p) ELSE Merged(row[id], p)]

LinkTo(id, stripe) == row' = [row EXCEPT ![id].stripe = stripe]

-----------------------------------------------------------------------------
(* createCustomer: the insert, then Stripe (which may refuse), then the    *)
(* link.  The dashboard's people have a phone.                             *)
CreateCustomer(j) ==
  /\ job[j].at = "idle"
  /\ \E p \in Clients, id \in RowIds \ Rows :
       /\ p.phone # Absent
       /\ IF Accepted(id, p)
          THEN /\ row' = [row EXCEPT ![id] = Inserted(p)]
               /\ job' = [job EXCEPT ![j] =
                    [at |-> IF PaymentsOn THEN "stripe" ELSE "done",
                     kind |-> "create", person |-> p, id |-> id, link |-> Absent]]
          ELSE /\ job' = [job EXCEPT ![j].at = "done"]
               /\ UNCHANGED row

(* updateCustomer reads the link it will write back.                       *)
ReadForUpdate(j) ==
  /\ job[j].at = "idle"
  /\ \E p \in Clients, id \in Rows :
       /\ p.phone # Absent
       /\ job' = [job EXCEPT ![j] =
            [at |-> IF PaymentsOn THEN "stripe" ELSE "write",
             kind |-> "update", person |-> p, id |-> id, link |-> row[id].stripe]]
  /\ UNCHANGED row

(* createStripeCustomer, updateOrCreateStripeCustomer: a link already held *)
(* is kept; a new one is the idempotency key's, or none when Stripe fails. *)
AskStripe(j) ==
  /\ job[j].at = "stripe"
  /\ \E link \in IF job[j].link # Absent THEN {job[j].link}
                 ELSE {Absent, <<job[j].kind, job[j].id>>} :
       job' = [job EXCEPT ![j].link = link,
                          ![j].at = IF job[j].kind = "create" /\ link = Absent
                                    THEN "done" ELSE "write"]
  /\ UNCHANGED row

LinkCreated(j) ==
  /\ job[j].at = "write" /\ job[j].kind = "create"
  /\ LinkTo(job[j].id, job[j].link)
  /\ job' = [job EXCEPT ![j].at = "done"]

(* The update writes every column, the link read before Stripe answered    *)
(* among them.                                                             *)
WriteUpdate(j) ==
  /\ job[j].at = "write" /\ job[j].kind = "update"
  /\ LET p == job[j].person  id == job[j].id IN
       IF Accepted(id, p)
       THEN row' = [row EXCEPT ![id] = [Inserted(p) EXCEPT
                      !.stripe = job[j].link, !.external = row[id].external]]
       ELSE UNCHANGED row
  /\ job' = [job EXCEPT ![j].at = "done"]

(* upsertFromExternalOrder: the row, and then where it came from.          *)
UpsertFromExternalOrder(j) ==
  /\ job[j].at = "idle"
  /\ \E p \in Clients : \E id \in UpsertTargets(p) :
       /\ UpsertCustomerRow(p, id)
       /\ \E external \in BOOLEAN :
            job' = [job EXCEPT ![j] =
              [at |-> IF external THEN "origin" ELSE "done",
               kind |-> "order", person |-> p, id |-> id, link |-> Absent]]

NoteOrigin(j) ==
  /\ job[j].at = "origin"
  /\ row' = [row EXCEPT ![job[j].id].external = TRUE]
  /\ job' = [job EXCEPT ![j].at = "done"]

(* The process goes down between two statements.                           *)
JobCrash(j) ==
  /\ job[j].at \in {"stripe", "write", "origin"}
  /\ job' = [job EXCEPT ![j].at = "done"]
  /\ UNCHANGED row

CustomersNext ==
  \E j \in Jobs :
    \/ CreateCustomer(j) \/ ReadForUpdate(j) \/ AskStripe(j) \/ LinkCreated(j)
    \/ WriteUpdate(j) \/ UpsertFromExternalOrder(j) \/ NoteOrigin(j) \/ JobCrash(j)

-----------------------------------------------------------------------------
(* Whoever writes, and whatever came between his statements: the details   *)
(* of a row are replaced only by those of a client whose identity is at    *)
(* least as strong, so an order without a phone never takes over the row   *)
(* of one who left his (customers.service.ts:417-425).                     *)
StrongerIdentityStands ==
  [][\A r \in Rows : row'[r].place # row[r].place =>
       \E p \in Clients : /\ p.place = row'[r].place
                           /\ Strength(p) >= Strength(row[r])]_customerVars
=============================================================================
