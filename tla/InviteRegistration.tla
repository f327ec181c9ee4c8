-------------------------- MODULE InviteRegistration --------------------------
(***************************************************************************)
(* Invitation-only registration of the closed alpha: an operator issues an *)
(* invite, a claim reserves it and hands the browser a signed ticket, a    *)
(* sign-up inserts the Better Auth user row and then, in one application   *)
(* transaction, consumes the invite and finalizes the account, or else     *)
(* compensates by deleting the user row.                                   *)
(*                                                                         *)
(* Each request is a process of database round trips.  One SQL statement,  *)
(* or one transaction whose conditional UPDATE row-locks what it decided   *)
(* on, is one step; requests interleave between steps and the clock moves. *)
(* createStage1Invite is one step because it holds the capacity advisory   *)
(* lock throughout, and every competing write of a seat takes that lock in *)
(* its trigger.                                                            *)
(***************************************************************************)
EXTENDS Naturals, FiniteSets

CONSTANTS
  Emails,          \* normalized e-mail addresses
  Invites,         \* invite row ids; the secret code of a row identifies it
  Claims,          \* claim requests; each draws a fresh reservation nonce
  SignUps,         \* sign-up requests; each inserts at most one user row
  None,            \* SQL NULL
  Cap,             \* ALPHA_STAGE_1_CAP
  InviteLife,      \* lifetime of an invite (7 days in the code)
  ReservationTTL,  \* INVITE_RESERVATION_TTL_MS, also the ticket's lifetime
  Skew,            \* how far an application clock reading may be off
  MaxTime,         \* bound of the modelled clock
  Faults           \* which failures the environment may inject

FaultKinds ==
  {"abort",              \* a statement of the finalize transaction fails
   "lost_commit",        \* COMMIT is durable but the client sees an error
   "compensation_error", \* the compensating delete fails
   "crash",              \* the server process dies during a sign-up
   "lost_response"}      \* the claim reserved, but no ticket reaches the browser

ASSUME ConstantsAssumption ==
  /\ IsFiniteSet(Invites)
  /\ None \notin Emails /\ None \notin Claims /\ None \notin SignUps
  /\ Cap \in Nat /\ InviteLife \in Nat /\ ReservationTTL \in Nat
  /\ Skew \in Nat /\ MaxTime \in Nat
  /\ Faults \subseteq FaultKinds

VARIABLES
  clock,    \* the database's now()
  invite,   \* alpha_invites, by row id
  claim,    \* claim requests and the ticket each one minted
  signup,   \* sign-up requests
  user,     \* users, by the sign-up that inserted the row
  legal,    \* legal_acceptances, by user
  profile,  \* profiles, by user
  session   \* users with a session row

vars == <<clock, invite, claim, signup, user, legal, profile, session>>

Times == 0 .. (MaxTime + Skew + InviteLife + ReservationTTL)

InviteStatus ==
  {"absent", "pending", "reserved", "consumed", "revoked", "expired", "deleted"}

InviteRow ==
  [status: InviteStatus, email: Emails \cup {None}, expiresAt: Times,
   reservedAt: Times, nonce: Claims \cup {None}, consumedBy: SignUps \cup {None}]

ClaimState ==
  [pc: {"idle", "swept", "reserved", "refused", "lost", "ticket", "cleared"},
   invite: Invites \cup {None}, email: Emails \cup {None},
   now: Times, exp: Times]

SignUpState ==
  [pc: {"idle", "verified", "inserted", "compensating",
        "done", "failed", "rejected", "crashed"},
   ticket: Claims \cup {None}]

(* Types; and a row carries a reservation nonce exactly from the moment it *)
(* is reserved, so no capability outlives its reservation.                 *)
TypeOK ==
  /\ clock \in 0 .. MaxTime
  /\ invite \in [Invites -> InviteRow]
  /\ claim \in [Claims -> ClaimState]
  /\ signup \in [SignUps -> SignUpState]
  /\ user \in [SignUps -> {"absent", "unfinalized", "finalized"}]
  /\ legal \subseteq SignUps
  /\ profile \subseteq SignUps
  /\ session \subseteq SignUps
  /\ \A i \in Invites :
       invite[i].nonce # None <=> invite[i].status \in {"reserved", "consumed"}

-----------------------------------------------------------------------------
(* Helpers *)

(* new Date(): the application's clock is within Skew of the database's.   *)
(* The slack also covers the time between taking a reading and using it.   *)
AppNow == {t \in Times : t <= clock + Skew /\ clock <= t + Skew}

(* The SQL predicate "occupies a seat", at time t.                         *)
Occupies(row, t) ==
  \/ row.status = "consumed"
  \/ row.status \in {"pending", "reserved"} /\ row.expiresAt > t

(* enforce_alpha_stage1_capacity: may row be written as row i of table?    *)
TriggerAdmits(table, i, row) ==
  Occupies(row, clock) =>
    Cardinality({j \in Invites \ {i} : Occupies(table[j], clock)}) < Cap

(* The e-mail of the user row inserted by sign-up s (email === ticket.email) *)
UserEmail(s) == claim[signup[s].ticket].email

LiveUsers == {s \in SignUps : user[s] # "absent"}

(* Mutant: the sweep forgets to filter on the status.                      *)
StaleInAnyStatus(now) ==
  {i \in Invites : /\ invite[i].nonce # None
                   /\ invite[i].reservedAt + ReservationTTL < now}

(* Reservations that releaseStaleReservedInvites returns to pending.       *)
Stale(now) ==
  {i \in Invites : /\ invite[i].status = "reserved"
                   /\ invite[i].reservedAt + ReservationTTL < now}

Unreserved(row) ==
  [row EXCEPT !.status = "pending", !.reservedAt = 0, !.nonce = None]

(* The WHERE clause of consumeReservedInvite for ticket k.                 *)
Consumable(k, now) ==
  LET row == invite[claim[k].invite]
  IN  /\ row.status = "reserved"
      /\ row.nonce = k
      /\ row.expiresAt > now

Consumed(row, s) == [row EXCEPT !.status = "consumed", !.consumedBy = s]

-----------------------------------------------------------------------------
Init ==
  /\ clock = 0
  /\ invite = [i \in Invites |->
       [status |-> "absent", email |-> None, expiresAt |-> 0,
        reservedAt |-> 0, nonce |-> None, consumedBy |-> None]]
  /\ claim = [k \in Claims |->
       [pc |-> "idle", invite |-> None, email |-> None, now |-> 0, exp |-> 0]]
  /\ signup = [s \in SignUps |-> [pc |-> "idle", ticket |-> None]]
  /\ user = [s \in SignUps |-> "absent"]
  /\ legal = {} /\ profile = {} /\ session = {}

Tick ==
  /\ clock < MaxTime
  /\ clock' = clock + 1
  /\ UNCHANGED <<invite, claim, signup, user, legal, profile, session>>

(* ---------------------------- operator ---------------------------------- *)

(* The table after createStage1Invite marked what has lapsed as expired.   *)
AfterExpiry(now) ==
  [i \in Invites |->
     IF invite[i].status \in {"pending", "reserved"} /\ invite[i].expiresAt <= now
     THEN [invite[i] EXCEPT !.status = "expired", !.reservedAt = 0, !.nonce = None]
     ELSE invite[i]]

(* Mutant: a reserved invite does not count as active.                     *)
UnclaimedForEmail(table, e) ==
  {i \in Invites : /\ table[i].email = e
                   /\ table[i].status \in {"pending", "consumed"}}

ActiveForEmail(table, e) ==
  {i \in Invites : /\ table[i].email = e
                   /\ table[i].status \in {"pending", "reserved", "consumed"}}

(* createStage1Invite, the path that commits; every refusal rolls back.    *)
CreateInvite(e, i) ==
  /\ invite[i].status = "absent"
  /\ \E now \in AppNow :
       LET table == AfterExpiry(now)
           row   == [invite[i] EXCEPT !.status = "pending", !.email = e,
                                      !.expiresAt = now + InviteLife]
       IN  /\ ActiveForEmail(table, e) = {}
           /\ Cardinality({j \in Invites : Occupies(table[j], now)}) < Cap
           /\ TriggerAdmits(table, i, row)
           /\ invite' = [table EXCEPT ![i] = row]
  /\ UNCHANGED <<clock, claim, signup, user, legal, profile, session>>

(* Mutant: revocation by address without the status filter.                *)
RevokedInAnyStatus(e) ==
  {i \in Invites : /\ invite[i].email = e
                   /\ invite[i].status \in {"pending", "reserved", "consumed"}}

(* revokeInvite: every unredeemed invite of the address.                   *)
Revoked(e) ==
  {i \in Invites : /\ invite[i].email = e
                   /\ invite[i].status \in {"pending", "reserved"}}

RevokeInvite(e) ==
  /\ Revoked(e) # {}
  /\ invite' = [i \in Invites |->
       IF i \in Revoked(e)
       THEN [invite[i] EXCEPT !.status = "revoked", !.reservedAt = 0, !.nonce = None]
       ELSE invite[i]]
  /\ UNCHANGED <<clock, claim, signup, user, legal, profile, session>>

(* ------------------ POST /api/alpha/invite/claim ------------------------ *)

(* reserveInviteForEmail reads the clock, then sweeps stale reservations.  *)
BeginClaim(k, e, i) ==
  /\ claim[k].pc = "idle"
  /\ \E now \in AppNow :
       LET released == [j \in Invites |->
                          IF j \in Stale(now) THEN Unreserved(invite[j]) ELSE invite[j]]
       IN  /\ \A j \in Stale(now) : TriggerAdmits(invite, j, released[j])
           /\ invite' = released
           /\ claim' = [claim EXCEPT ![k] =
                [pc |-> "swept", invite |-> i, email |-> e, now |-> now, exp |-> 0]]
  /\ UNCHANGED <<clock, signup, user, legal, profile, session>>

(* The conditional UPDATE from pending to reserved, with the clock reading *)
(* taken before the sweep; no row updated means a refusal.                 *)
ReserveInvite(k) ==
  /\ claim[k].pc = "swept"
  /\ LET i   == claim[k].invite
         now == claim[k].now
         row == [invite[i] EXCEPT !.status = "reserved", !.reservedAt = now,
                                  !.nonce = k]
         hit == /\ invite[i].email = claim[k].email
                /\ invite[i].status = "pending"
                /\ invite[i].expiresAt > now
                /\ TriggerAdmits(invite, i, row)
     IN  /\ invite' = IF hit THEN [invite EXCEPT ![i] = row] ELSE invite
         /\ claim' = [claim EXCEPT ![k] =
              [@ EXCEPT !.pc = IF hit THEN "reserved" ELSE "refused", !.now = 0]]
  /\ UNCHANGED <<clock, signup, user, legal, profile, session>>

(* createRegistrationTicket: the ticket's lifetime starts only now.        *)
MintTicket(k) ==
  /\ claim[k].pc = "reserved"
  /\ \E now \in AppNow :
       claim' = [claim EXCEPT ![k].pc = "ticket", ![k].exp = now + ReservationTTL]
  /\ UNCHANGED <<clock, invite, signup, user, legal, profile, session>>

(* The route fails after the reservation, or its response is lost.         *)
LoseTicket(k) ==
  /\ "lost_response" \in Faults
  /\ claim[k].pc = "reserved"
  /\ claim' = [claim EXCEPT ![k].pc = "lost"]
  /\ UNCHANGED <<clock, invite, signup, user, legal, profile, session>>

(* --------------------- POST /sign-up/email ------------------------------ *)

(* The before hook: an unexpired ticket whose reservation still stands.    *)
(* Several requests may carry the same cookie.                             *)
BeginSignUp(s, k) ==
  /\ signup[s].pc = "idle"
  /\ claim[k].pc = "ticket"
  /\ \E now \in AppNow :
       /\ now <= claim[k].exp
       /\ LET row == invite[claim[k].invite]
              valid == Consumable(k, now) /\ row.email = claim[k].email
          IN  signup' = [signup EXCEPT
                ![s] = [pc |-> IF valid THEN "verified" ELSE "rejected", ticket |-> k]]
  /\ UNCHANGED <<clock, invite, claim, user, legal, profile, session>>

(* Better Auth inserts user, account and session rows; users.email is      *)
(* unique, so a second registration of the address is turned away.         *)
InsertUser(s) ==
  /\ signup[s].pc = "verified"
  /\ IF \E t \in LiveUsers : UserEmail(t) = UserEmail(s)
     THEN /\ signup' = [signup EXCEPT ![s].pc = "rejected"]
          /\ UNCHANGED <<user, session>>
     ELSE /\ signup' = [signup EXCEPT ![s].pc = "inserted"]
          /\ user' = [user EXCEPT ![s] = "unfinalized"]
          /\ session' = session \cup {s}
  /\ UNCHANGED <<clock, invite, claim, legal, profile>>

(* Mutant: the hook gives up without compensating.                         *)
TicketGoneUnnoticed(s) ==
  /\ signup[s].pc = "inserted"
  /\ \E now \in AppNow : now > claim[signup[s].ticket].exp
  /\ signup' = [signup EXCEPT ![s].pc = "failed"]
  /\ UNCHANGED <<clock, invite, claim, user, legal, profile, session>>

(* The user.create.after hook finds no valid ticket any more.              *)
TicketGone(s) ==
  /\ signup[s].pc = "inserted"
  /\ \E now \in AppNow : now > claim[signup[s].ticket].exp
  /\ signup' = [signup EXCEPT ![s].pc = "compensating"]
  /\ UNCHANGED <<clock, invite, claim, user, legal, profile, session>>

(* The durable effect of the finalize transaction.                         *)
FinalizeWrites(s) ==
  LET k == signup[s].ticket
      i == claim[k].invite
  IN  \E now \in AppNow :
        /\ now <= claim[k].exp
        /\ Consumable(k, now)
        /\ TriggerAdmits(invite, i, Consumed(invite[i], s))
        /\ user[s] # "absent"
        /\ invite' = [invite EXCEPT ![i] = Consumed(@, s)]
        /\ user' = [user EXCEPT ![s] = "finalized"]
        /\ legal' = legal \cup {s}
        /\ profile' = profile \cup {s}

(* clearRegistrationTicketCookie: the browser forgets the ticket.          *)
Cleared(k) ==
  [claim EXCEPT ![k].pc = IF @ = "ticket" THEN "cleared" ELSE @]

FinalizeCommit(s) ==
  /\ signup[s].pc = "inserted"
  /\ FinalizeWrites(s)
  /\ signup' = [signup EXCEPT ![s].pc = "done"]
  /\ claim' = Cleared(signup[s].ticket)
  /\ UNCHANGED <<clock, session>>

(* The connection breaks after the commit: the code sees a failed          *)
(* transaction and goes on to compensate.                                  *)
FinalizeLostCommit(s) ==
  /\ "lost_commit" \in Faults
  /\ signup[s].pc = "inserted"
  /\ FinalizeWrites(s)
  /\ signup' = [signup EXCEPT ![s].pc = "compensating"]
  /\ UNCHANGED <<clock, claim, session>>

(* The transaction rolls back: the invite is not consumable by this ticket,*)
(* the user row is gone, or one of the statements fails.                   *)
FinalizeAbort(s) ==
  LET k == signup[s].ticket
      i == claim[k].invite
  IN  /\ signup[s].pc = "inserted"
      /\ \E now \in AppNow :
           /\ now <= claim[k].exp
           /\ \/ ~ Consumable(k, now)
              \/ ~ TriggerAdmits(invite, i, Consumed(invite[i], s))
              \/ user[s] = "absent"
              \/ "abort" \in Faults
      /\ signup' = [signup EXCEPT ![s].pc = "compensating"]
      /\ UNCHANGED <<clock, invite, claim, user, legal, profile, session>>

(* Deleting user s: cascades, and consumed_by_user_id ON DELETE SET NULL.  *)
RemoveUser(s) ==
  /\ user' = [user EXCEPT ![s] = "absent"]
  /\ legal' = legal \ {s}
  /\ profile' = profile \ {s}
  /\ session' = session \ {s}

DeletedRow(row) ==
  [row EXCEPT !.status = "deleted", !.reservedAt = 0, !.nonce = None,
              !.consumedBy = None]

(* Mutant: the compensation does not set its transaction-local flag.       *)
DisownedWithoutFlag(row, s) ==
  IF row.status # "absent" /\ row.email = UserEmail(s) THEN DeletedRow(row) ELSE row

(* The deletion trigger under the compensation flag: only the foreign key  *)
(* acts on the invites.                                                    *)
Disowned(row, s) ==
  IF row.consumedBy = s THEN [row EXCEPT !.consumedBy = None] ELSE row

(* Mutant: the residual trigger is missing from account deletion.          *)
WithoutResidualTrigger(row, s) == Disowned(row, s)

(* delete_user_linked_residuals without the flag: the invites of the       *)
(* account and of its address are deleted.                                 *)
WithoutResiduals(row, s) ==
  IF \/ row.consumedBy = s
     \/ row.status # "absent" /\ row.email = UserEmail(s)
  THEN DeletedRow(row)
  ELSE row

(* compensateFailedRegistration: the transaction-local flag keeps the      *)
(* deletion trigger from removing the invite.                              *)
Compensate(s) ==
  /\ signup[s].pc = "compensating"
  /\ RemoveUser(s)
  /\ invite' = [i \in Invites |-> Disowned(invite[i], s)]
  /\ signup' = [signup EXCEPT ![s].pc = "failed"]
  /\ claim' = Cleared(signup[s].ticket)
  /\ UNCHANGED clock

(* The compensating transaction fails: logged, and otherwise ignored.      *)
CompensateFails(s) ==
  /\ "compensation_error" \in Faults
  /\ signup[s].pc = "compensating"
  /\ signup' = [signup EXCEPT ![s].pc = "failed"]
  /\ claim' = Cleared(signup[s].ticket)
  /\ UNCHANGED <<clock, invite, user, legal, profile, session>>

Crash(s) ==
  /\ "crash" \in Faults
  /\ signup[s].pc \in {"inserted", "compensating"}
  /\ signup' = [signup EXCEPT ![s].pc = "crashed"]
  /\ UNCHANGED <<clock, invite, claim, user, legal, profile, session>>

(* --------------------------- accounts ----------------------------------- *)

(* POST /sign-in/email: refused while invite_finalized_at is null.         *)
SignIn(s) ==
  /\ user[s] = "finalized"
  /\ s \notin session
  /\ session' = session \cup {s}
  /\ UNCHANGED <<clock, invite, claim, signup, user, legal, profile>>

(* getAuthenticatedUser: an unfinalized user is signed out; a finalized    *)
(* one has its profile bootstrapped.                                       *)
SessionRead(s) ==
  /\ s \in session
  /\ \/ /\ user[s] = "unfinalized"
        /\ session' = session \ {s}
        /\ UNCHANGED profile
     \/ /\ user[s] = "finalized"
        /\ profile' = profile \cup {s}
        /\ UNCHANGED session
  /\ UNCHANGED <<clock, invite, claim, signup, user, legal>>

(* POST /delete-user of a signed-in user.                                  *)
DeleteAccount(s) ==
  /\ s \in session
  /\ user[s] # "absent"
  /\ RemoveUser(s)
  /\ invite' = [i \in Invites |-> WithoutResiduals(invite[i], s)]
  /\ UNCHANGED <<clock, claim, signup>>

-----------------------------------------------------------------------------
SignUpStep(s) ==
  \/ InsertUser(s)
  \/ TicketGone(s)
  \/ FinalizeCommit(s)
  \/ FinalizeLostCommit(s)
  \/ FinalizeAbort(s)
  \/ Compensate(s)
  \/ CompensateFails(s)

Next ==
  \/ Tick
  \/ \E e \in Emails, i \in Invites : CreateInvite(e, i)
  \/ \E e \in Emails : RevokeInvite(e)
  \/ \E k \in Claims, e \in Emails, i \in Invites : BeginClaim(k, e, i)
  \/ \E k \in Claims : ReserveInvite(k) \/ MintTicket(k) \/ LoseTicket(k)
  \/ \E s \in SignUps, k \in Claims : BeginSignUp(s, k)
  \/ \E s \in SignUps :
       SignUpStep(s) \/ Crash(s) \/ SignIn(s) \/ SessionRead(s) \/ DeleteAccount(s)

Spec == Init /\ [][Next]_vars

(* A server that does not crash runs the request it is serving to its end. *)
FairSpec == Spec /\ \A s \in SignUps : WF_vars(SignUpStep(s))

-----------------------------------------------------------------------------
(* Properties *)

Finalized == {s \in SignUps : user[s] = "finalized"}

ConsumedBy(s) ==
  {i \in Invites : invite[i].status = "consumed" /\ invite[i].consumedBy = s}

(* Every finalized account is backed by exactly one consumed invite, issued*)
(* to its own address, and has its legal acceptance and its profile: the   *)
(* finalize transaction, revocation, deletion of another account and a     *)
(* late compensation never pull one away from under the other.             *)
SeatBacked ==
  \A s \in Finalized :
    /\ \E i \in Invites : ConsumedBy(s) = {i} /\ invite[i].email = UserEmail(s)
    /\ s \in legal \cap profile

(* An address never has two invites that hold or may still claim a seat,   *)
(* however claims, expiry, revocation and deletion interleave with         *)
(* createStage1Invite.                                                     *)
OneActiveInvitePerEmail ==
  \A e \in Emails : Cardinality(
    {i \in Invites : /\ invite[i].email = e
                     /\ invite[i].status \in {"pending", "reserved", "consumed"}}) <= 1

(* A consumed invite always belongs to a live finalized account: no seat is*)
(* spent on a registration that was rolled back.                           *)
NoBurnedSeat ==
  \A i \in Invites :
    invite[i].status = "consumed" => invite[i].consumedBy \in Finalized

(* An account without invite_finalized_at exists only while the sign-up    *)
(* that inserted it is still being served, so the address stays free for a *)
(* retry.                                                                  *)
UnfinalizedOnlyInFlight ==
  \A s \in SignUps :
    user[s] = "unfinalized" => signup[s].pc \in {"inserted", "compensating"}

(* Redeemed, revoked and expired are final: no sweep, stale ticket or      *)
(* in-flight sign-up brings such an invite back; it can only be deleted.   *)
FinalStatusIsFinal ==
  [][\A i \in Invites :
       invite[i].status \in {"consumed", "revoked", "expired"} =>
         invite'[i].status \in {invite[i].status, "deleted"}]_vars

(* Compensating a failed registration leaves every invite's reservation as *)
(* it was, so that the same ticket may be retried.                         *)
CompensationKeepsReservation ==
  [][\A s \in SignUps :
       signup[s].pc = "compensating" /\ signup'[s].pc = "failed" =>
         \A i \in Invites : /\ invite'[i].status = invite[i].status
                             /\ invite'[i].nonce = invite[i].nonce]_vars

(* Signing out an unfinalized user also compensates the registration that  *)
(* crashed (what the limitation note says of a session read).              *)
SessionReadCompensates ==
  [][\A s \in SignUps :
       /\ signup[s].pc = "crashed" /\ user[s] = "unfinalized"
       /\ s \in session /\ s \notin session'
       => user'[s] = "absent"]_vars

(* Every inserted account ends up finalized or removed.                    *)
InsertedIsResolved ==
  \A s \in SignUps : user[s] = "unfinalized" ~> user[s] # "unfinalized"

(* The seats an invite row stands for, at the database's clock.            *)
Held ==
  {i \in Invites : /\ invite[i].status \in {"pending", "reserved"}
                   /\ invite[i].expiresAt > clock}

Taken == {i \in Invites : invite[i].status = "consumed"}

Ledger == INSTANCE SeatLedger WITH held <- Held, taken <- Taken

(* The seats in use never exceed the stage's capacity, although the        *)
(* application decides with clocks that disagree with the database's.      *)
CapacityRespected == Ledger!CapacityRespected

(* The registration implements the abstract seat ledger.                   *)
ImplementsSeatLedger == Ledger!Spec
=============================================================================
