---------------------- MODULE InviteRegistrationProofs ----------------------
(***************************************************************************)
(* Theorems about InviteRegistration, for every set of addresses, invites, *)
(* requests, every capacity, lifetime, clock skew and every mix of faults; *)
(* two of them exclude faults that the code does not survive, and say so.  *)
(***************************************************************************)
EXTENDS InviteRegistration, FiniteSetTheorems, TLAPS

-----------------------------------------------------------------------------
(* The inductive invariant behind SeatBacked *)

(* A claim past its first round trip has fixed the code and the address it *)
(* was made with.                                                          *)
ClaimFixed ==
  \A k \in Claims :
    claim[k].pc # "idle" => claim[k].invite \in Invites /\ claim[k].email \in Emails

(* A sign-up past its before hook carries a ticket that was really minted. *)
TicketMinted ==
  \A s \in SignUps :
    signup[s].pc # "idle" =>
      /\ signup[s].ticket \in Claims
      /\ claim[signup[s].ticket].pc \in {"ticket", "cleared"}

(* The nonce in a row was drawn by a claim on that row for its address.    *)
NonceMatchesClaim ==
  \A i \in Invites :
    invite[i].nonce # None =>
      /\ claim[invite[i].nonce].pc \notin {"idle", "swept"}
      /\ claim[invite[i].nonce].invite = i
      /\ claim[invite[i].nonce].email = invite[i].email

(* Only consumed rows name a consumer, which held the row's last ticket.   *)
ConsumerHeldTicket ==
  \A i \in Invites :
    invite[i].consumedBy # None =>
      /\ invite[i].status = "consumed"
      /\ signup[invite[i].consumedBy].pc # "idle"
      /\ invite[i].nonce = signup[invite[i].consumedBy].ticket

(* A user row exists only for a sign-up that reached the insert.           *)
UserInserted ==
  \A s \in SignUps :
    user[s] # "absent" => signup[s].pc \notin {"idle", "verified", "rejected"}

(* users.email is unique among live accounts.                              *)
EmailUnique ==
  \A s, t \in SignUps :
    user[s] # "absent" /\ user[t] # "absent" /\ UserEmail(s) = UserEmail(t) => s = t

(* A finalized account's ticket leads to the invite it consumed.           *)
FinalizedByTicket ==
  \A s \in SignUps :
    user[s] = "finalized" =>
      /\ invite[claim[signup[s].ticket].invite].status = "consumed"
      /\ invite[claim[signup[s].ticket].invite].consumedBy = s
      /\ s \in legal /\ s \in profile

IInv ==
  /\ TypeOK
  /\ ClaimFixed
  /\ TicketMinted
  /\ NonceMatchesClaim
  /\ ConsumerHeldTicket
  /\ UserInserted
  /\ EmailUnique
  /\ FinalizedByTicket

-----------------------------------------------------------------------------
(* Type correctness *)

(* A reading of an application clock, plus any lifetime, stays in Times.   *)
LEMMA AppNowTimes ==
  ASSUME clock \in 0 .. MaxTime, NEW now \in AppNow
  PROVE  /\ now \in Times
         /\ now + InviteLife \in Times
         /\ now + ReservationTTL \in Times
  BY ConstantsAssumption DEF AppNow, Times

LEMMA InitType == Init => TypeOK
  BY ConstantsAssumption DEF Init, TypeOK, InviteRow, ClaimState, SignUpState,
     InviteStatus, Times

(* What the updates of a single row preserve.                              *)
WellFormed(row) ==
  row \in InviteRow /\ (row.nonce # None <=> row.status \in {"reserved", "consumed"})

LEMMA RowUpdates ==
  ASSUME NEW row \in InviteRow
  PROVE  /\ WellFormed(Unreserved(row))
         /\ WellFormed(DeletedRow(row))
         /\ WellFormed([row EXCEPT !.status = "expired", !.reservedAt = 0, !.nonce = None])
         /\ WellFormed([row EXCEPT !.status = "revoked", !.reservedAt = 0, !.nonce = None])
<1>1. 0 \in Times
  BY ConstantsAssumption DEF Times
<1> QED
  BY <1>1 DEF WellFormed, Unreserved, DeletedRow, InviteRow, InviteStatus

(* A table whose every row is well formed.                                 *)
TableOK(table) ==
  /\ table \in [Invites -> InviteRow]
  /\ \A i \in Invites :
       table[i].nonce # None <=> table[i].status \in {"reserved", "consumed"}

LEMMA ReservedRow ==
  ASSUME NEW row \in InviteRow, NEW now \in Times, NEW k \in Claims
  PROVE  WellFormed([row EXCEPT !.status = "reserved", !.reservedAt = now, !.nonce = k])
  BY ConstantsAssumption DEF WellFormed, InviteRow, InviteStatus

LEMMA TableByRows ==
  ASSUME NEW table, table = [i \in Invites |-> table[i]],
         \A i \in Invites : WellFormed(table[i])
  PROVE  TableOK(table)
  BY DEF TableOK, WellFormed

LEMMA TableRows ==
  ASSUME TypeOK
  PROVE  TableOK(invite) /\ \A i \in Invites : WellFormed(invite[i])
  BY DEF TypeOK, TableOK, WellFormed

(* The operator's and the claim's steps write well-formed rows.            *)
LEMMA InviteStepType ==
  ASSUME TypeOK,
         \/ \E e \in Emails, i \in Invites : CreateInvite(e, i)
         \/ \E e \in Emails : RevokeInvite(e)
         \/ \E k \in Claims, e \in Emails, i \in Invites : BeginClaim(k, e, i)
         \/ \E k \in Claims : ReserveInvite(k)
  PROVE  TypeOK'
<1>1. ASSUME NEW e \in Emails, NEW i \in Invites, CreateInvite(e, i)
      PROVE  TypeOK'
  <2>1. PICK now \in AppNow :
          invite' = [AfterExpiry(now) EXCEPT ![i] =
            [invite[i] EXCEPT !.status = "pending", !.email = e,
                              !.expiresAt = now + InviteLife]]
    BY <1>1 DEF CreateInvite
  <2> DEFINE issued == [invite[i] EXCEPT !.status = "pending", !.email = e,
                                         !.expiresAt = now + InviteLife]
  <2>2. now + InviteLife \in Times
    BY AppNowTimes DEF TypeOK
  <2>3. WellFormed(issued)
    <3>1. WellFormed(invite[i]) /\ invite[i].status = "absent"
      BY <1>1, TableRows DEF CreateInvite
    <3> QED
      BY <2>2, <3>1 DEF WellFormed, InviteRow, InviteStatus
  <2>4. \A j \in Invites : WellFormed(AfterExpiry(now)[j])
    BY RowUpdates, TableRows DEF AfterExpiry, WellFormed
  <2>5. invite' = [j \in Invites |-> IF j = i THEN issued ELSE AfterExpiry(now)[j]]
    BY <2>1 DEF AfterExpiry
  <2> HIDE DEF issued
  <2>6. TableOK(invite')
    BY <2>3, <2>4, <2>5, TableByRows
  <2> QED
    BY <1>1, <2>6 DEF CreateInvite, TypeOK, TableOK
<1>2. ASSUME NEW e \in Emails, RevokeInvite(e)
      PROVE  TypeOK'
  <2>1. ASSUME NEW i \in Invites
        PROVE  WellFormed(invite'[i])
    <3>1. invite'[i] = invite[i] \/ invite'[i] =
            [invite[i] EXCEPT !.status = "revoked", !.reservedAt = 0, !.nonce = None]
      BY <1>2 DEF RevokeInvite
    <3>2. WellFormed(invite[i]) /\ invite[i] \in InviteRow
      BY TableRows DEF WellFormed
    <3> QED
      BY <3>1, <3>2, RowUpdates
  <2>2. TableOK(invite')
    BY <1>2, <2>1, TableByRows DEF RevokeInvite
  <2> QED
    BY <1>2, <2>2 DEF RevokeInvite, TypeOK, TableOK
<1>3. ASSUME NEW k \in Claims, NEW e \in Emails, NEW i \in Invites, BeginClaim(k, e, i)
      PROVE  TypeOK'
  <2>1. PICK now \in AppNow :
          /\ invite' = [j \in Invites |->
                          IF j \in Stale(now) THEN Unreserved(invite[j]) ELSE invite[j]]
          /\ claim' = [claim EXCEPT ![k] = [pc |-> "swept", invite |-> i, email |-> e,
                                            now |-> now, exp |-> 0]]
    BY <1>3 DEF BeginClaim
  <2>2. now \in Times /\ 0 \in Times
    BY AppNowTimes, ConstantsAssumption DEF TypeOK, Times
  <2>3. claim' \in [Claims -> ClaimState]
    BY <2>1, <2>2 DEF TypeOK, ClaimState
  <2>4. ASSUME NEW j \in Invites
        PROVE  WellFormed(invite'[j])
    <3>1. invite'[j] = invite[j] \/ invite'[j] = Unreserved(invite[j])
      BY <2>1
    <3>2. WellFormed(invite[j]) /\ invite[j] \in InviteRow
      BY TableRows DEF WellFormed
    <3> QED
      BY <3>1, <3>2, RowUpdates
  <2>5. TableOK(invite')
    BY <2>1, <2>4, TableByRows
  <2> QED
    BY <1>3, <2>3, <2>5 DEF BeginClaim, TypeOK, TableOK
<1>4. ASSUME NEW k \in Claims, ReserveInvite(k)
      PROVE  TypeOK'
  <2> DEFINE i   == claim[k].invite
             now == claim[k].now
             row == [invite[i] EXCEPT !.status = "reserved", !.reservedAt = now,
                                      !.nonce = k]
  <2>1. now \in Times /\ 0 \in Times
    BY ConstantsAssumption DEF TypeOK, ClaimState, Times
  <2>2. claim' \in [Claims -> ClaimState]
    <3>1. \E answer \in {"reserved", "refused"} :
            claim' = [claim EXCEPT ![k] = [@ EXCEPT !.pc = answer, !.now = 0]]
      BY <1>4 DEF ReserveInvite
    <3>2. ASSUME NEW answer \in {"reserved", "refused"}
          PROVE  [claim[k] EXCEPT !.pc = answer, !.now = 0] \in ClaimState
      BY <2>1 DEF TypeOK, ClaimState
    <3> QED
      BY <3>1, <3>2 DEF TypeOK
  <2>3. ASSUME i \in Invites
        PROVE  WellFormed(row)
    <3>1. invite[i] \in InviteRow
      BY <2>3, TableRows DEF WellFormed
    <3> HIDE DEF i, now
    <3> QED
      BY <2>1, <3>1, ReservedRow
  <2>4. invite' = invite \/ invite' = [invite EXCEPT ![i] = row]
    BY <1>4 DEF ReserveInvite
  <2> HIDE DEF row, i
  <2>5. TableOK(invite')
    BY <2>3, <2>4, TableRows DEF TableOK, WellFormed
  <2> QED
    BY <1>4, <2>2, <2>5 DEF ReserveInvite, TypeOK, TableOK
<1> QED
  BY <1>1, <1>2, <1>3, <1>4

(* Tickets and the first two steps of a sign-up.                           *)
LEMMA TicketStepType ==
  ASSUME TypeOK,
         \/ Tick
         \/ \E k \in Claims : MintTicket(k) \/ LoseTicket(k)
         \/ \E s \in SignUps, k \in Claims : BeginSignUp(s, k)
         \/ \E s \in SignUps : InsertUser(s)
  PROVE  TypeOK'
<1>1. CASE Tick
  BY <1>1, ConstantsAssumption DEF Tick, TypeOK
<1>2. ASSUME NEW k \in Claims, MintTicket(k)
      PROVE  TypeOK'
  <2>1. PICK now \in AppNow :
          claim' = [claim EXCEPT ![k].pc = "ticket", ![k].exp = now + ReservationTTL]
    BY <1>2 DEF MintTicket
  <2>2. now + ReservationTTL \in Times
    BY AppNowTimes DEF TypeOK
  <2> QED
    BY <1>2, <2>1, <2>2 DEF MintTicket, TypeOK, ClaimState
<1>3. ASSUME NEW k \in Claims, LoseTicket(k)
      PROVE  TypeOK'
  BY <1>3 DEF LoseTicket, TypeOK, ClaimState
<1>4. ASSUME NEW s \in SignUps, NEW k \in Claims, BeginSignUp(s, k)
      PROVE  TypeOK'
  BY <1>4 DEF BeginSignUp, TypeOK, SignUpState
<1>5. ASSUME NEW s \in SignUps, InsertUser(s)
      PROVE  TypeOK'
  BY <1>5 DEF InsertUser, TypeOK, SignUpState
<1> QED
  BY <1>1, <1>2, <1>3, <1>4, <1>5

LEMMA ClearedType ==
  ASSUME TypeOK, NEW k
  PROVE  Cleared(k) \in [Claims -> ClaimState]
  BY DEF Cleared, TypeOK, ClaimState

(* Finalization, compensation and account steps.                           *)
LEMMA AccountStepType ==
  ASSUME TypeOK, NEW s \in SignUps,
         \/ TicketGone(s) \/ FinalizeCommit(s) \/ FinalizeLostCommit(s)
         \/ FinalizeAbort(s) \/ Compensate(s) \/ CompensateFails(s)
         \/ Crash(s) \/ SignIn(s) \/ SessionRead(s) \/ DeleteAccount(s)
  PROVE  TypeOK'
<1>1. ASSUME FinalizeWrites(s)
      PROVE  /\ invite' \in [Invites -> InviteRow]
             /\ user' \in [SignUps -> {"absent", "unfinalized", "finalized"}]
             /\ legal' \subseteq SignUps /\ profile' \subseteq SignUps
             /\ \A i \in Invites :
                  invite'[i].nonce # None <=>
                    invite'[i].status \in {"reserved", "consumed"}
  <2> DEFINE i == claim[signup[s].ticket].invite
  <2>1. /\ invite[i].status = "reserved"
        /\ invite' = [invite EXCEPT ![i] = Consumed(@, s)]
    BY <1>1 DEF FinalizeWrites, Consumable
  <2> HIDE DEF i
  <2>2. /\ invite' \in [Invites -> InviteRow]
        /\ \A j \in Invites :
             invite'[j].nonce # None <=> invite'[j].status \in {"reserved", "consumed"}
    BY <2>1 DEF TypeOK, InviteRow, InviteStatus, Consumed
  <2> QED
    BY <1>1, <2>2 DEF FinalizeWrites, TypeOK
<1>2. CASE FinalizeCommit(s)
  BY <1>1, <1>2, ClearedType DEF FinalizeCommit, TypeOK, SignUpState
<1>3. CASE FinalizeLostCommit(s)
  BY <1>1, <1>3 DEF FinalizeLostCommit, TypeOK, SignUpState
<1>4. CASE TicketGone(s) \/ FinalizeAbort(s) \/ Crash(s)
  BY <1>4 DEF TicketGone, FinalizeAbort, Crash, TypeOK, SignUpState
<1>5. CASE Compensate(s)
  <2>1. /\ invite' \in [Invites -> InviteRow]
        /\ \A i \in Invites :
             invite'[i].nonce # None <=> invite'[i].status \in {"reserved", "consumed"}
    BY <1>5 DEF Compensate, Disowned, TypeOK, InviteRow
  <2> QED
    BY <1>5, <2>1, ClearedType DEF Compensate, RemoveUser, TypeOK, SignUpState
<1>6. CASE CompensateFails(s)
  BY <1>6, ClearedType DEF CompensateFails, TypeOK, SignUpState
<1>7. CASE SignIn(s) \/ SessionRead(s)
  BY <1>7 DEF SignIn, SessionRead, TypeOK
<1>8. CASE DeleteAccount(s)
  <2>1. \A i \in Invites : WellFormed(invite'[i])
    BY <1>8, RowUpdates, TableRows DEF DeleteAccount, WithoutResiduals, WellFormed
  <2>2. TableOK(invite')
    BY <1>8, <2>1, TableByRows DEF DeleteAccount
  <2> QED
    BY <1>8, <2>2 DEF DeleteAccount, RemoveUser, TypeOK, TableOK
<1> QED
  BY <1>2, <1>3, <1>4, <1>5, <1>6, <1>7, <1>8

LEMMA NextType == TypeOK /\ [Next]_vars => TypeOK'
<1> SUFFICES ASSUME TypeOK, [Next]_vars
             PROVE  TypeOK'
  OBVIOUS
<1>1. CASE Next
  BY <1>1, InviteStepType, TicketStepType, AccountStepType DEF Next, SignUpStep
<1>2. CASE UNCHANGED vars
  BY <1>2 DEF vars, TypeOK
<1> QED
  BY <1>1, <1>2

(* Every variable keeps its type, and a row carries a nonce exactly while  *)
(* it is reserved or consumed: a release, revocation, expiry or deletion   *)
(* always invalidates the capability (invite-gate.ts, invite-admin.ts).    *)
THEOREM TypeCorrect == Spec => []TypeOK
  BY InitType, NextType, PTL DEF Spec

-----------------------------------------------------------------------------
(* SeatBacked: preservation of the inductive invariant *)

LEMMA InitIInv == Init => IInv
  BY InitType, ConstantsAssumption
     DEF Init, IInv, ClaimFixed, TicketMinted, NonceMatchesClaim,
         ConsumerHeldTicket, UserInserted, EmailUnique, FinalizedByTicket

(* Clearing a ticket cookie changes nothing else about a claim.            *)
LEMMA ClearedFrame ==
  ASSUME TypeOK, NEW k, NEW c \in Claims
  PROVE  /\ Cleared(k)[c].invite = claim[c].invite
         /\ Cleared(k)[c].email = claim[c].email
         /\ \/ Cleared(k)[c].pc = claim[c].pc
            \/ claim[c].pc = "ticket" /\ Cleared(k)[c].pc = "cleared"
  BY DEF Cleared, TypeOK, ClaimState

(* A step that at most moves the clock, mints or loses tickets, signs      *)
(* users in or out, or moves a sign-up that already inserted its user.     *)
LEMMA QuietIInv ==
  ASSUME IInv, TypeOK',
         \/ Tick
         \/ \E k \in Claims : MintTicket(k) \/ LoseTicket(k)
         \/ \E s \in SignUps : \/ TicketGone(s) \/ FinalizeAbort(s)
                               \/ CompensateFails(s) \/ Crash(s)
                               \/ SignIn(s) \/ SessionRead(s)
  PROVE  IInv'
<1>1. /\ UNCHANGED <<invite, user, legal>>
      /\ profile \subseteq profile'
      /\ \A k \in Claims :
           /\ claim'[k].invite = claim[k].invite
           /\ claim'[k].email = claim[k].email
           /\ \/ claim'[k].pc = claim[k].pc
              \/ claim[k].pc = "reserved"
                 /\ claim'[k].pc \notin {"idle", "swept", "reserved"}
              \/ claim[k].pc = "ticket" /\ claim'[k].pc = "cleared"
      /\ \A s \in SignUps :
           /\ signup'[s].ticket = signup[s].ticket
           /\ \/ signup'[s].pc = signup[s].pc
              \/ /\ signup[s].pc \in {"inserted", "compensating"}
                 /\ signup'[s].pc \in {"compensating", "failed", "crashed"}
  <2> USE DEF IInv, TypeOK
  <2>1. ASSUME NEW k \in Claims, MintTicket(k) \/ LoseTicket(k)
        PROVE  \A c \in Claims :
                 /\ claim'[c].invite = claim[c].invite
                 /\ claim'[c].email = claim[c].email
                 /\ \/ claim'[c].pc = claim[c].pc
                    \/ /\ claim[c].pc = "reserved"
                       /\ claim'[c].pc \notin {"idle", "swept", "reserved"}
    BY <2>1 DEF ClaimState, MintTicket, LoseTicket
  <2>2. ASSUME NEW s \in SignUps, CompensateFails(s)
        PROVE  \A c \in Claims :
                 /\ claim'[c].invite = claim[c].invite
                 /\ claim'[c].email = claim[c].email
                 /\ \/ claim'[c].pc = claim[c].pc
                    \/ claim[c].pc = "ticket" /\ claim'[c].pc = "cleared"
    BY <2>2, ClearedFrame DEF CompensateFails
  <2>3. ASSUME NEW s \in SignUps,
               \/ TicketGone(s) \/ FinalizeAbort(s) \/ CompensateFails(s) \/ Crash(s)
        PROVE  \A r \in SignUps :
                 /\ signup'[r].ticket = signup[r].ticket
                 /\ \/ signup'[r].pc = signup[r].pc
                    \/ /\ signup[r].pc \in {"inserted", "compensating"}
                       /\ signup'[r].pc \in {"compensating", "failed", "crashed"}
    BY <2>3 DEF SignUpState, TicketGone, FinalizeAbort, CompensateFails, Crash
  <2>4. CASE Tick
    BY <2>4 DEF Tick
  <2>5. ASSUME NEW k \in Claims, MintTicket(k) \/ LoseTicket(k)
        PROVE  UNCHANGED <<invite, user, legal, profile, signup>>
    BY <2>5 DEF MintTicket, LoseTicket
  <2>6. ASSUME NEW s \in SignUps, TicketGone(s) \/ FinalizeAbort(s) \/ Crash(s)
        PROVE  UNCHANGED <<invite, user, legal, profile, claim>>
    BY <2>6 DEF TicketGone, FinalizeAbort, Crash
  <2>7. ASSUME NEW s \in SignUps, CompensateFails(s)
        PROVE  UNCHANGED <<invite, user, legal, profile>>
    BY <2>7 DEF CompensateFails
  <2>8. ASSUME NEW s \in SignUps, SignIn(s) \/ SessionRead(s)
        PROVE  UNCHANGED <<invite, user, legal, claim, signup>> /\ profile \subseteq profile'
    BY <2>8 DEF SignIn, SessionRead
  <2> HIDE DEF IInv, TypeOK
  <2>9. CASE \E k \in Claims : MintTicket(k) \/ LoseTicket(k)
    BY <2>9, <2>1, <2>5
  <2>10. CASE \E s \in SignUps : TicketGone(s) \/ FinalizeAbort(s) \/ Crash(s)
    BY <2>10, <2>3, <2>6
  <2>11. CASE \E s \in SignUps : CompensateFails(s)
    BY <2>11, <2>2, <2>3, <2>7
  <2>12. CASE \E s \in SignUps : SignIn(s) \/ SessionRead(s)
    BY <2>12, <2>8
  <2> QED
    BY <2>4, <2>9, <2>10, <2>11, <2>12
<1>2. \A s \in SignUps : signup[s].pc # "idle" <=> signup'[s].pc # "idle"
  BY <1>1
<1>3. \A s \in SignUps : user[s] # "absent" => UserEmail(s)' = UserEmail(s)
  BY <1>1 DEF IInv, TicketMinted, UserInserted, UserEmail
<1>4. ClaimFixed' /\ TicketMinted' /\ UserInserted'
  BY <1>1, <1>2 DEF IInv, ClaimFixed, TicketMinted, UserInserted
<1>5. NonceMatchesClaim'
  BY <1>1 DEF IInv, TypeOK, InviteRow, NonceMatchesClaim
<1>6. ConsumerHeldTicket'
  BY <1>1, <1>2 DEF IInv, TypeOK, InviteRow, ConsumerHeldTicket
<1>7. EmailUnique'
  BY <1>1, <1>3 DEF IInv, EmailUnique
<1>8. FinalizedByTicket'
  BY <1>1 DEF IInv, FinalizedByTicket, TicketMinted, UserInserted
<1> QED
  BY <1>4, <1>5, <1>6, <1>7, <1>8 DEF IInv

(* A step that writes rows without redeeming or un-redeeming any.          *)
LEMMA InviteIInv ==
  ASSUME IInv, TypeOK',
         \/ \E e \in Emails, i \in Invites : CreateInvite(e, i)
         \/ \E e \in Emails : RevokeInvite(e)
         \/ \E k \in Claims, e \in Emails, i \in Invites : BeginClaim(k, e, i)
         \/ \E k \in Claims : ReserveInvite(k)
  PROVE  IInv'
<1>1. /\ UNCHANGED <<signup, user, legal, profile>>
      /\ \A k \in Claims :
           \/ claim'[k] = claim[k]
           \/ /\ claim[k].pc = "idle" /\ claim'[k].pc = "swept"
              /\ claim'[k].invite \in Invites /\ claim'[k].email \in Emails
           \/ /\ claim[k].pc = "swept" /\ claim'[k].pc \in {"reserved", "refused"}
              /\ claim'[k].invite = claim[k].invite /\ claim'[k].email = claim[k].email
  <2>1. ASSUME NEW e \in Emails, NEW i \in Invites, CreateInvite(e, i) \/ RevokeInvite(e)
        PROVE  UNCHANGED <<signup, user, legal, profile, claim>>
    BY <2>1 DEF CreateInvite, RevokeInvite
  <2>2. ASSUME NEW k \in Claims, NEW e \in Emails, NEW i \in Invites, BeginClaim(k, e, i),
               NEW c \in Claims
        PROVE  /\ UNCHANGED <<signup, user, legal, profile>>
               /\ \/ claim'[c] = claim[c]
                  \/ /\ claim[c].pc = "idle" /\ claim'[c].pc = "swept"
                     /\ claim'[c].invite \in Invites /\ claim'[c].email \in Emails
    BY <2>2 DEF IInv, TypeOK, BeginClaim
  <2>3. ASSUME NEW k \in Claims, ReserveInvite(k), NEW c \in Claims
        PROVE  /\ UNCHANGED <<signup, user, legal, profile>>
               /\ \/ claim'[c] = claim[c]
                  \/ /\ claim[c].pc = "swept" /\ claim'[c].pc \in {"reserved", "refused"}
                     /\ claim'[c].invite = claim[c].invite /\ claim'[c].email = claim[c].email
    <3>1. PICK answer \in {"reserved", "refused"} :
            claim' = [claim EXCEPT ![k] = [@ EXCEPT !.pc = answer, !.now = 0]]
      BY <2>3 DEF ReserveInvite
    <3>2. claim[k].pc = "swept" /\ UNCHANGED <<signup, user, legal, profile>>
      BY <2>3 DEF ReserveInvite
    <3> QED
      BY <3>1, <3>2 DEF IInv, TypeOK, ClaimState
  <2>4. CASE \E e \in Emails : RevokeInvite(e)
    BY <2>4 DEF RevokeInvite
  <2>5. CASE \E e \in Emails, i \in Invites : CreateInvite(e, i)
    BY <2>1, <2>5
  <2>6. CASE \E k \in Claims, e \in Emails, i \in Invites : BeginClaim(k, e, i)
    BY <2>2, <2>6
  <2>7. CASE \E k \in Claims : ReserveInvite(k)
    BY <2>3, <2>7
  <2> QED
    BY <2>4, <2>5, <2>6, <2>7
<1>2. ASSUME NEW i \in Invites
      PROVE  \/ invite'[i] = invite[i]
             \/ /\ invite[i].status # "consumed" /\ invite'[i].status # "consumed"
                /\ invite'[i].consumedBy = invite[i].consumedBy
                /\ \/ invite'[i].nonce = None
                   \/ /\ invite'[i].nonce \in Claims
                      /\ claim'[invite'[i].nonce].pc = "reserved"
                      /\ claim'[invite'[i].nonce].invite = i
                      /\ claim'[invite'[i].nonce].email = invite'[i].email
  <2> DEFINE Withdrawn ==
        \/ invite'[i] = invite[i]
        \/ /\ invite[i].status # "consumed" /\ invite'[i].status # "consumed"
           /\ invite'[i].consumedBy = invite[i].consumedBy
           /\ invite'[i].nonce = None
  <2>0. invite[i] \in InviteRow /\ invite \in [Invites -> InviteRow]
    BY DEF IInv, TypeOK
  <2>1. ASSUME NEW e \in Emails, NEW j \in Invites, CreateInvite(e, j)
        PROVE  Withdrawn
    <3>1. PICK now \in AppNow :
            invite' = [AfterExpiry(now) EXCEPT ![j] =
              [invite[j] EXCEPT !.status = "pending", !.email = e,
                                !.expiresAt = now + InviteLife]]
      BY <2>1 DEF CreateInvite
    <3>2. CASE i = j
      <4>1. invite[i].status = "absent" /\ invite[i].nonce = None
        BY <2>1, <3>2 DEF CreateInvite, IInv, TypeOK
      <4>2. invite'[i] = [invite[i] EXCEPT !.status = "pending", !.email = e,
                                           !.expiresAt = now + InviteLife]
        BY <3>1, <3>2 DEF AfterExpiry
      <4> QED
        BY <4>1, <4>2, <2>0 DEF InviteRow
    <3>3. CASE i # j
      <4>1. invite'[i] = AfterExpiry(now)[i]
        BY <3>1, <3>3 DEF AfterExpiry
      <4> QED
        BY <4>1, <2>0 DEF AfterExpiry, InviteRow
    <3> QED
      BY <3>2, <3>3
  <2>2. ASSUME NEW e \in Emails, RevokeInvite(e)
        PROVE  Withdrawn
    <3>1. invite'[i] = IF i \in Revoked(e)
                       THEN [invite[i] EXCEPT !.status = "revoked", !.reservedAt = 0,
                                              !.nonce = None]
                       ELSE invite[i]
      BY <2>2 DEF RevokeInvite
    <3> QED
      BY <3>1, <2>0 DEF InviteRow, Revoked
  <2>3. ASSUME NEW k \in Claims, NEW e \in Emails, NEW j \in Invites, BeginClaim(k, e, j)
        PROVE  Withdrawn
    <3>1. PICK now \in AppNow :
            invite' = [h \in Invites |->
                         IF h \in Stale(now) THEN Unreserved(invite[h]) ELSE invite[h]]
      BY <2>3 DEF BeginClaim
    <3>2. invite'[i] = IF i \in Stale(now) THEN Unreserved(invite[i]) ELSE invite[i]
      BY <3>1
    <3> QED
      BY <3>2, <2>0 DEF InviteRow, Stale, Unreserved
  <2>4. ASSUME NEW k \in Claims, ReserveInvite(k)
        PROVE  \/ invite'[i] = invite[i]
               \/ /\ invite[i].status # "consumed" /\ invite'[i].status # "consumed"
                  /\ invite'[i].consumedBy = invite[i].consumedBy
                  /\ invite'[i].nonce = k
                  /\ claim'[k].pc = "reserved"
                  /\ claim'[k].invite = i
                  /\ claim'[k].email = invite'[i].email
    <3> DEFINE row == [invite[claim[k].invite] EXCEPT !.status = "reserved",
                         !.reservedAt = claim[k].now, !.nonce = k]
    <3>1. CASE invite' = invite
      BY <3>1
    <3>2. CASE /\ invite[claim[k].invite].email = claim[k].email
               /\ invite[claim[k].invite].status = "pending"
               /\ invite' = [invite EXCEPT ![claim[k].invite] = row]
               /\ claim' = [claim EXCEPT ![k] = [@ EXCEPT !.pc = "reserved", !.now = 0]]
      <4>1. claim'[k].pc = "reserved" /\ claim'[k].invite = claim[k].invite
            /\ claim'[k].email = claim[k].email
        BY <3>2 DEF IInv, TypeOK, ClaimState
      <4>2. CASE i = claim[k].invite
        <5>1. invite'[i] = [invite[i] EXCEPT !.status = "reserved",
                              !.reservedAt = claim[k].now, !.nonce = k]
          BY <3>2, <4>2, <2>0
        <5> QED
          BY <3>2, <4>1, <4>2, <5>1, <2>0 DEF InviteRow
      <4>3. CASE i # claim[k].invite
        BY <3>2, <4>3, <2>0
      <4> QED
        BY <4>2, <4>3
    <3> QED
      BY <2>4, <3>1, <3>2 DEF ReserveInvite
  <2> QED
    BY <2>1, <2>2, <2>3, <2>4
<1>3. \A s \in SignUps : user[s] # "absent" => UserEmail(s)' = UserEmail(s)
  BY <1>1 DEF IInv, TicketMinted, UserInserted, UserEmail
<1>4. ClaimFixed' /\ TicketMinted' /\ UserInserted'
  BY <1>1 DEF IInv, ClaimFixed, TicketMinted, UserInserted
<1>5. NonceMatchesClaim'
  BY <1>1, <1>2 DEF IInv, TypeOK, InviteRow, NonceMatchesClaim
<1>6. ConsumerHeldTicket'
  BY <1>1, <1>2 DEF IInv, ConsumerHeldTicket
<1>7. EmailUnique'
  BY <1>1, <1>3 DEF IInv, EmailUnique
<1>8. FinalizedByTicket'
  <2> SUFFICES ASSUME NEW s \in SignUps, user[s] = "finalized"
               PROVE  /\ invite'[claim'[signup[s].ticket].invite].status = "consumed"
                      /\ invite'[claim'[signup[s].ticket].invite].consumedBy = s
                      /\ s \in legal /\ s \in profile
    BY <1>1 DEF FinalizedByTicket
  <2>1. signup[s].ticket \in Claims /\ claim[signup[s].ticket].pc \in {"ticket", "cleared"}
    BY DEF IInv, UserInserted, TicketMinted
  <2>2. claim'[signup[s].ticket] = claim[signup[s].ticket]
    BY <1>1, <2>1
  <2>3. claim[signup[s].ticket].invite \in Invites
    BY <2>1 DEF IInv, ClaimFixed
  <2> QED
    BY <1>2, <2>2, <2>3 DEF IInv, FinalizedByTicket
<1> QED
  BY <1>4, <1>5, <1>6, <1>7, <1>8 DEF IInv

(* The before hook and the insertion of the user row.                      *)
LEMMA SignUpIInv ==
  ASSUME IInv, TypeOK', NEW s \in SignUps,
         (\E k \in Claims : BeginSignUp(s, k)) \/ InsertUser(s)
  PROVE  IInv'
<1>1. CASE \E k \in Claims : BeginSignUp(s, k)
  <2>1. PICK k \in Claims : BeginSignUp(s, k)
    BY <1>1
  <2>2. /\ claim[k].pc = "ticket" /\ signup[s].pc = "idle"
        /\ UNCHANGED <<invite, claim, user, legal, profile>>
    BY <2>1 DEF BeginSignUp
  <2>3. /\ signup'[s].pc \in {"verified", "rejected"} /\ signup'[s].ticket = k
        /\ \A r \in SignUps : r # s => signup'[r] = signup[r]
    BY <2>1 DEF BeginSignUp, IInv, TypeOK
  <2>4. user[s] = "absent"
    BY <2>2 DEF IInv, UserInserted, TypeOK
  <2>5. \A r \in SignUps : user[r] # "absent" => UserEmail(r)' = UserEmail(r)
    BY <2>2, <2>3, <2>4 DEF UserEmail
  <2>6. ClaimFixed' /\ TicketMinted' /\ NonceMatchesClaim' /\ UserInserted'
    BY <2>2, <2>3, <2>4
       DEF IInv, ClaimFixed, TicketMinted, NonceMatchesClaim, UserInserted
  <2>7. ConsumerHeldTicket'
    BY <2>2, <2>3 DEF IInv, ConsumerHeldTicket, TypeOK, InviteRow
  <2>8. EmailUnique'
    BY <2>2, <2>5 DEF IInv, EmailUnique
  <2>9. FinalizedByTicket'
    BY <2>2, <2>3, <2>4 DEF IInv, FinalizedByTicket
  <2> QED
    BY <2>6, <2>7, <2>8, <2>9 DEF IInv
<1>2. CASE InsertUser(s)
  <2>1. UNCHANGED <<invite, claim, legal, profile>> /\ signup[s].pc = "verified"
    BY <1>2 DEF InsertUser
  <2>2. \A r \in SignUps : /\ signup'[r].ticket = signup[r].ticket
                           /\ r # s => signup'[r] = signup[r] /\ user'[r] = user[r]
    BY <1>2 DEF InsertUser, IInv, TypeOK, SignUpState
  <2>3. \/ signup'[s].pc = "rejected" /\ user' = user
        \/ /\ signup'[s].pc = "inserted" /\ user'[s] = "unfinalized"
           /\ \A t \in SignUps : user[t] # "absent" => UserEmail(t) # UserEmail(s)
    BY <1>2 DEF InsertUser, IInv, TypeOK, SignUpState, LiveUsers
  <2>4. user[s] = "absent"
    BY <2>1 DEF IInv, UserInserted, TypeOK
  <2>5. \A r \in SignUps : UserEmail(r)' = UserEmail(r)
    BY <2>1, <2>2 DEF UserEmail
  <2>6. ClaimFixed' /\ TicketMinted' /\ NonceMatchesClaim'
    BY <2>1, <2>2, <2>3 DEF IInv, ClaimFixed, TicketMinted, NonceMatchesClaim
  <2>7. UserInserted'
    BY <2>2, <2>3, <2>4 DEF IInv, UserInserted
  <2>8. ConsumerHeldTicket'
    BY <2>1, <2>2, <2>3 DEF IInv, ConsumerHeldTicket, TypeOK, InviteRow
  <2>9. EmailUnique'
    BY <2>2, <2>3, <2>4, <2>5 DEF IInv, EmailUnique
  <2>10. FinalizedByTicket'
    BY <2>1, <2>2, <2>3, <2>4 DEF IInv, FinalizedByTicket
  <2> QED
    BY <2>6, <2>7, <2>8, <2>9, <2>10 DEF IInv
<1> QED
  BY <1>1, <1>2

(* The finalize transaction, whether or not its client learns the outcome. *)
LEMMA FinalizeIInv ==
  ASSUME IInv, TypeOK', NEW s \in SignUps, FinalizeCommit(s) \/ FinalizeLostCommit(s)
  PROVE  IInv'
<1> DEFINE k == signup[s].ticket
           i == claim[k].invite
<1>1. FinalizeWrites(s) /\ signup[s].pc = "inserted"
  BY DEF FinalizeCommit, FinalizeLostCommit
<1>2. \A r \in SignUps : /\ signup'[r].ticket = signup[r].ticket
                         /\ \/ signup'[r].pc = signup[r].pc
                            \/ r = s /\ signup'[r].pc \in {"done", "compensating"}
  <2>1. \/ signup' = [signup EXCEPT ![s].pc = "done"]
        \/ signup' = [signup EXCEPT ![s].pc = "compensating"]
    BY DEF FinalizeCommit, FinalizeLostCommit
  <2>2. signup \in [SignUps -> SignUpState]
    BY DEF IInv, TypeOK
  <2>3. CASE signup' = [signup EXCEPT ![s].pc = "done"]
    BY <2>2, <2>3 DEF SignUpState
  <2>4. CASE signup' = [signup EXCEPT ![s].pc = "compensating"]
    BY <2>2, <2>4 DEF SignUpState
  <2> HIDE DEF k, i
  <2> QED
    BY <2>1, <2>3, <2>4
<1>3. \A c \in Claims : /\ claim'[c].invite = claim[c].invite
                        /\ claim'[c].email = claim[c].email
                        /\ \/ claim'[c].pc = claim[c].pc
                           \/ claim[c].pc = "ticket" /\ claim'[c].pc = "cleared"
  <2>1. TypeOK
    BY DEF IInv
  <2>2. claim' = claim \/ claim' = Cleared(k)
    BY DEF FinalizeCommit, FinalizeLostCommit
  <2> HIDE DEF k
  <2> QED
    BY <2>1, <2>2, ClearedFrame
<1>4. k \in Claims /\ i \in Invites
  BY <1>1 DEF IInv, TicketMinted, ClaimFixed
<1>5. /\ invite[i].status = "reserved" /\ invite[i].nonce = k
      /\ invite' = [invite EXCEPT ![i] = Consumed(@, s)]
      /\ user' = [user EXCEPT ![s] = "finalized"]
      /\ user[s] # "absent"
      /\ legal' = legal \cup {s} /\ profile' = profile \cup {s}
  BY <1>1 DEF FinalizeWrites, Consumable
<1> HIDE DEF i
<1>6. /\ invite'[i].status = "consumed" /\ invite'[i].consumedBy = s
      /\ invite'[i].nonce = k /\ invite'[i].email = invite[i].email
      /\ \A j \in Invites : j # i => invite'[j] = invite[j]
  BY <1>4, <1>5 DEF IInv, TypeOK, InviteRow, Consumed
<1>7. user'[s] = "finalized" /\ \A r \in SignUps : r # s => user'[r] = user[r]
  BY <1>5 DEF IInv, TypeOK
<1>8. \A r \in SignUps : user'[r] # "absent" =>
        user[r] # "absent" /\ UserEmail(r)' = UserEmail(r)
  BY <1>2, <1>3, <1>5, <1>7 DEF IInv, TicketMinted, UserInserted, UserEmail
<1>9. ClaimFixed' /\ TicketMinted' /\ UserInserted'
  BY <1>1, <1>2, <1>3, <1>5, <1>7 DEF IInv, ClaimFixed, TicketMinted, UserInserted
<1>10. NonceMatchesClaim'
  <2>1. \A j \in Invites : /\ invite'[j].nonce = invite[j].nonce
                           /\ invite'[j].email = invite[j].email
                           /\ invite[j].nonce \in Claims \cup {None}
    BY <1>5, <1>6 DEF IInv, TypeOK, InviteRow
  <2> QED
    BY <1>3, <2>1 DEF IInv, NonceMatchesClaim
<1>11. ConsumerHeldTicket'
  <2> SUFFICES ASSUME NEW j \in Invites, invite'[j].consumedBy # None
               PROVE  /\ invite'[j].status = "consumed"
                      /\ signup'[invite'[j].consumedBy].pc # "idle"
                      /\ invite'[j].nonce = signup'[invite'[j].consumedBy].ticket
    BY DEF ConsumerHeldTicket
  <2>1. CASE j = i
    BY <1>1, <1>2, <1>6, <2>1
  <2>2. CASE j # i
    <3>1. invite[j].consumedBy \in SignUps /\ invite'[j] = invite[j]
      BY <1>6, <2>2 DEF IInv, TypeOK, InviteRow
    <3> QED
      BY <1>2, <3>1 DEF IInv, ConsumerHeldTicket
  <2> QED
    BY <2>1, <2>2
<1>12. EmailUnique'
  BY <1>8 DEF IInv, EmailUnique
<1>13. FinalizedByTicket'
  <2> SUFFICES ASSUME NEW r \in SignUps, user'[r] = "finalized"
               PROVE  /\ invite'[claim'[signup'[r].ticket].invite].status = "consumed"
                      /\ invite'[claim'[signup'[r].ticket].invite].consumedBy = r
                      /\ r \in legal' /\ r \in profile'
    BY DEF FinalizedByTicket
  <2>1. CASE r = s
    BY <1>2, <1>3, <1>4, <1>5, <1>6, <2>1 DEF i
  <2>2. CASE r # s
    <3>1. user[r] = "finalized"
      BY <1>7, <2>2
    <3>2. /\ invite[claim[signup[r].ticket].invite].status = "consumed"
          /\ invite[claim[signup[r].ticket].invite].consumedBy = r
          /\ r \in legal /\ r \in profile
      BY <3>1 DEF IInv, FinalizedByTicket
    <3>3. signup[r].ticket \in Claims /\ claim[signup[r].ticket].invite \in Invites
      BY <3>1 DEF IInv, UserInserted, TicketMinted, ClaimFixed
    <3>4. claim[signup[r].ticket].invite # i
      BY <1>5, <3>2
    <3> QED
      BY <1>2, <1>3, <1>5, <1>6, <3>2, <3>3, <3>4
  <2> QED
    BY <2>1, <2>2
<1> QED
  BY <1>9, <1>10, <1>11, <1>12, <1>13 DEF IInv

(* Removing a user row, by compensation or by the member's own request:    *)
(* what the invites of everybody else look like afterwards.                *)
LEMMA RemovalIInv ==
  ASSUME IInv, TypeOK', NEW s \in SignUps, Compensate(s) \/ DeleteAccount(s)
  PROVE  IInv'
<1>1. /\ user' = [user EXCEPT ![s] = "absent"]
      /\ legal' = legal \ {s} /\ profile' = profile \ {s}
  BY DEF Compensate, DeleteAccount, RemoveUser
<1>2. user'[s] = "absent" /\ \A r \in SignUps : r # s => user'[r] = user[r]
  BY <1>1 DEF IInv, TypeOK
<1>3. \A r \in SignUps : /\ signup'[r].ticket = signup[r].ticket
                         /\ \/ signup'[r].pc = signup[r].pc
                            \/ signup[r].pc = "compensating" /\ signup'[r].pc = "failed"
  <2>1. \/ signup' = signup
        \/ signup[s].pc = "compensating" /\ signup' = [signup EXCEPT ![s].pc = "failed"]
    BY DEF Compensate, DeleteAccount
  <2>2. signup \in [SignUps -> SignUpState]
    BY DEF IInv, TypeOK
  <2> QED
    BY <2>1, <2>2 DEF SignUpState
<1>4. \A c \in Claims : /\ claim'[c].invite = claim[c].invite
                        /\ claim'[c].email = claim[c].email
                        /\ \/ claim'[c].pc = claim[c].pc
                           \/ claim[c].pc = "ticket" /\ claim'[c].pc = "cleared"
  <2> DEFINE k == signup[s].ticket
  <2>1. TypeOK
    BY DEF IInv
  <2>2. claim' = claim \/ claim' = Cleared(k)
    BY DEF Compensate, DeleteAccount
  <2> HIDE DEF k
  <2> QED
    BY <2>1, <2>2, ClearedFrame
<1>5. ASSUME NEW i \in Invites
      PROVE  /\ \/ invite'[i].nonce = None
                \/ /\ invite'[i].nonce = invite[i].nonce
                   /\ invite'[i].email = invite[i].email
             /\ invite'[i].consumedBy # None =>
                  invite'[i] = invite[i] /\ invite[i].consumedBy # s
             /\ \A r \in SignUps :
                  /\ r # s /\ user[r] = "finalized" /\ invite[i].consumedBy = r
                  /\ i = claim[signup[r].ticket].invite
                  => invite'[i] = invite[i]
  <2>1. invite[i] \in InviteRow /\ s # None
    BY ConstantsAssumption DEF IInv, TypeOK
  <2>2. CASE Compensate(s)
    <3>1. invite'[i] = Disowned(invite[i], s)
      BY <2>2 DEF Compensate
    <3> QED
      BY <2>1, <3>1 DEF Disowned, InviteRow
  <2>3. CASE DeleteAccount(s)
    <3>1. invite'[i] = WithoutResiduals(invite[i], s) /\ user[s] # "absent"
      BY <2>3 DEF DeleteAccount
    <3>2. \/ invite'[i] = invite[i] /\ invite[i].consumedBy # s
          \/ invite'[i].nonce = None /\ invite'[i].consumedBy = None
      BY <2>1, <3>1 DEF WithoutResiduals, DeletedRow, InviteRow
    <3>3. ASSUME NEW r \in SignUps, r # s, user[r] = "finalized",
                 invite[i].consumedBy = r
          PROVE  invite'[i] = invite[i]
      <4>1. r # None
        BY ConstantsAssumption
      <4>2. invite[i].nonce = signup[r].ticket /\ signup[r].ticket \in Claims
        BY <3>3, <4>1 DEF IInv, ConsumerHeldTicket, UserInserted, TicketMinted
      <4>3. invite[i].email = UserEmail(r)
        BY <4>2, ConstantsAssumption DEF IInv, NonceMatchesClaim, UserEmail
      <4>4. UserEmail(r) # UserEmail(s)
        BY <3>1, <3>3 DEF IInv, EmailUnique
      <4> QED
        BY <3>1, <3>3, <4>3, <4>4 DEF WithoutResiduals
    <3> QED
      BY <3>2, <3>3
  <2> QED
    BY <2>2, <2>3
<1>6. \A r \in SignUps : user'[r] # "absent" =>
        user[r] # "absent" /\ UserEmail(r)' = UserEmail(r)
  BY <1>2, <1>3, <1>4 DEF IInv, TicketMinted, UserInserted, UserEmail
<1>7. ClaimFixed' /\ TicketMinted' /\ UserInserted'
  BY <1>2, <1>3, <1>4 DEF IInv, ClaimFixed, TicketMinted, UserInserted
<1>8. NonceMatchesClaim'
  <2> SUFFICES ASSUME NEW i \in Invites, invite'[i].nonce # None
               PROVE  /\ claim'[invite'[i].nonce].pc \notin {"idle", "swept"}
                      /\ claim'[invite'[i].nonce].invite = i
                      /\ claim'[invite'[i].nonce].email = invite'[i].email
    BY DEF NonceMatchesClaim
  <2>1. /\ invite'[i].nonce = invite[i].nonce /\ invite'[i].email = invite[i].email
        /\ invite[i].nonce \in Claims
    BY <1>5 DEF IInv, TypeOK, InviteRow
  <2> QED
    BY <1>4, <2>1 DEF IInv, NonceMatchesClaim
<1>9. ConsumerHeldTicket'
  <2> SUFFICES ASSUME NEW i \in Invites, invite'[i].consumedBy # None
               PROVE  /\ invite'[i].status = "consumed"
                      /\ signup'[invite'[i].consumedBy].pc # "idle"
                      /\ invite'[i].nonce = signup'[invite'[i].consumedBy].ticket
    BY DEF ConsumerHeldTicket
  <2>1. invite'[i] = invite[i] /\ invite[i].consumedBy \in SignUps
    BY <1>5 DEF IInv, TypeOK, InviteRow
  <2> QED
    BY <1>3, <2>1 DEF IInv, ConsumerHeldTicket
<1>10. EmailUnique'
  BY <1>6 DEF IInv, EmailUnique
<1>11. FinalizedByTicket'
  <2> SUFFICES ASSUME NEW r \in SignUps, user'[r] = "finalized"
               PROVE  /\ invite'[claim'[signup'[r].ticket].invite].status = "consumed"
                      /\ invite'[claim'[signup'[r].ticket].invite].consumedBy = r
                      /\ r \in legal' /\ r \in profile'
    BY DEF FinalizedByTicket
  <2>1. r # s /\ user[r] = "finalized"
    BY <1>2
  <2>2. /\ invite[claim[signup[r].ticket].invite].status = "consumed"
        /\ invite[claim[signup[r].ticket].invite].consumedBy = r
        /\ r \in legal /\ r \in profile
    BY <2>1 DEF IInv, FinalizedByTicket
  <2>3. signup[r].ticket \in Claims /\ claim[signup[r].ticket].invite \in Invites
    BY <2>1 DEF IInv, UserInserted, TicketMinted, ClaimFixed
  <2>4. invite'[claim[signup[r].ticket].invite] = invite[claim[signup[r].ticket].invite]
    BY <1>5, <2>1, <2>2, <2>3
  <2> QED
    BY <1>1, <1>3, <1>4, <2>1, <2>2, <2>3, <2>4
<1> QED
  BY <1>7, <1>8, <1>9, <1>10, <1>11 DEF IInv

LEMMA NextIInv == IInv /\ [Next]_vars => IInv'
<1> SUFFICES ASSUME IInv, [Next]_vars
             PROVE  IInv'
  OBVIOUS
<1>1. TypeOK'
  BY NextType DEF IInv
<1>2. CASE Next
  BY <1>1, <1>2, QuietIInv, InviteIInv, SignUpIInv, FinalizeIInv, RemovalIInv
     DEF Next, SignUpStep
<1>3. CASE UNCHANGED vars
  BY <1>3 DEF vars, IInv, TypeOK, ClaimFixed, TicketMinted, NonceMatchesClaim,
     ConsumerHeldTicket, UserInserted, EmailUnique, FinalizedByTicket, UserEmail
<1> QED
  BY <1>2, <1>3

LEMMA Invariance == Spec => []IInv
  BY InitIInv, NextIInv, PTL DEF Spec

LEMMA IInvBacks == IInv => SeatBacked
<1> SUFFICES ASSUME IInv, NEW s \in SignUps, user[s] = "finalized"
             PROVE  /\ \E i \in Invites :
                         ConsumedBy(s) = {i} /\ invite[i].email = UserEmail(s)
                    /\ s \in legal \cap profile
  BY DEF SeatBacked, Finalized
<1> DEFINE k == signup[s].ticket
           i == claim[k].invite
<1>1. /\ invite[i].status = "consumed" /\ invite[i].consumedBy = s
      /\ s \in legal /\ s \in profile
  BY DEF IInv, FinalizedByTicket
<1>2. k \in Claims /\ i \in Invites
  BY DEF IInv, UserInserted, TicketMinted, ClaimFixed
<1>3. \A j \in Invites : invite[j].consumedBy = s => invite[j].nonce = k
  BY ConstantsAssumption DEF IInv, ConsumerHeldTicket
<1>4. \A j \in Invites : invite[j].nonce = k => i = j /\ invite[j].email = claim[k].email
  BY <1>2, ConstantsAssumption DEF IInv, NonceMatchesClaim
<1>5. ConsumedBy(s) = {i}
  BY <1>1, <1>2, <1>3, <1>4 DEF ConsumedBy
<1>6. invite[i].email = UserEmail(s)
  BY <1>1, <1>2, <1>3, <1>4 DEF UserEmail
<1> QED
  BY <1>1, <1>2, <1>5, <1>6

(* Every finalized account is backed by exactly one consumed invite of its *)
(* own address, with its legal acceptance and its profile, under every     *)
(* interleaving of claims, sign-ups, revocations, deletions and faults     *)
(* (finalizeInviteRegistration, compensateFailedRegistration).             *)
THEOREM SeatsBacked == Spec => []SeatBacked
  BY Invariance, IInvBacks, PTL

-----------------------------------------------------------------------------
(* What a step does to one row of alpha_invites *)

Active(row) == row.status \in {"pending", "reserved", "consumed"}

(* A row that exists keeps its address and its date; it goes on, is closed,*)
(* is redeemed while it is reserved, or is deleted.                        *)
RowStep(old, new) ==
  \/ new = old
  \/ /\ new.email = old.email /\ new.expiresAt = old.expiresAt
     /\ \/ /\ old.status \in {"pending", "reserved"}
           /\ new.status \in {"pending", "reserved", "expired", "revoked"}
        \/ old.status = "reserved" /\ new.status = "consumed"
        \/ new.status = old.status
        \/ new.status = "deleted"

(* The table after createStage1Invite read the clock.                      *)
Created(e, i, now) ==
  invite' = [AfterExpiry(now) EXCEPT ![i] =
               [invite[i] EXCEPT !.status = "pending", !.email = e,
                                 !.expiresAt = now + InviteLife]]

LEMMA CreatedRows ==
  ASSUME TypeOK, NEW e \in Emails, NEW i \in Invites, NEW now \in AppNow,
         Created(e, i, now)
  PROVE  /\ invite'[i].status = "pending" /\ invite'[i].email = e
         /\ invite'[i].expiresAt = now + InviteLife
         /\ \A j \in Invites \ {i} :
              /\ invite'[j] = AfterExpiry(now)[j]
              /\ RowStep(invite[j], invite'[j])
              /\ Active(invite'[j]) \/ invite[j].status = "consumed" => invite'[j] = invite[j]
<1>1. invite[i] \in InviteRow
  BY DEF TypeOK
<1>2. /\ invite'[i].status = "pending" /\ invite'[i].email = e
      /\ invite'[i].expiresAt = now + InviteLife
  BY <1>1 DEF Created, InviteRow, AfterExpiry
<1>3. ASSUME NEW j \in Invites \ {i}
      PROVE  /\ invite'[j] = AfterExpiry(now)[j]
             /\ RowStep(invite[j], invite'[j])
             /\ Active(invite'[j]) \/ invite[j].status = "consumed" => invite'[j] = invite[j]
  <2>1. invite[j] \in InviteRow
    BY DEF TypeOK
  <2>2. invite'[j] = AfterExpiry(now)[j]
    BY DEF Created, AfterExpiry
  <2>3. \/ invite'[j] = invite[j]
        \/ /\ invite[j].status \in {"pending", "reserved"}
           /\ invite'[j] = [invite[j] EXCEPT !.status = "expired", !.reservedAt = 0,
                                             !.nonce = None]
    BY <2>2 DEF AfterExpiry
  <2> QED
    BY <2>1, <2>2, <2>3 DEF RowStep, Active, InviteRow
<1> QED
  BY <1>2, <1>3

(* Every step but the issue of row j itself.                               *)
LEMMA RowSteps ==
  ASSUME TypeOK, [Next]_vars, NEW j \in Invites
  PROVE  RowStep(invite[j], invite'[j]) \/ \E e \in Emails : CreateInvite(e, j)
<1> USE DEF RowStep
<1>1. invite[j] \in InviteRow
  BY DEF TypeOK
<1>2. CASE UNCHANGED invite
  BY <1>2
<1>3. ASSUME NEW e \in Emails, NEW i \in Invites, CreateInvite(e, i), i # j
      PROVE  RowStep(invite[j], invite'[j])
  <2>1. PICK now \in AppNow : Created(e, i, now)
    BY <1>3 DEF CreateInvite, Created
  <2> HIDE DEF RowStep
  <2> QED
    BY <1>3, <2>1, CreatedRows
<1>4. ASSUME NEW e \in Emails, RevokeInvite(e)
      PROVE  RowStep(invite[j], invite'[j])
  BY <1>1, <1>4 DEF RevokeInvite, Revoked, InviteRow
<1>5. ASSUME NEW k \in Claims, NEW e \in Emails, NEW i \in Invites, BeginClaim(k, e, i)
      PROVE  RowStep(invite[j], invite'[j])
  <2>1. \/ invite'[j] = invite[j]
        \/ invite[j].status = "reserved" /\ invite'[j] = Unreserved(invite[j])
    BY <1>5 DEF BeginClaim, Stale
  <2> QED
    BY <1>1, <2>1 DEF Unreserved, InviteRow
<1>6. ASSUME NEW k \in Claims, ReserveInvite(k)
      PROVE  RowStep(invite[j], invite'[j])
  <2> DEFINE i == claim[k].invite
             row == [invite[i] EXCEPT !.status = "reserved", !.reservedAt = claim[k].now,
                                      !.nonce = k]
  <2>1. \/ invite' = invite
        \/ invite[i].status = "pending" /\ invite' = [invite EXCEPT ![i] = row]
    BY <1>6 DEF ReserveInvite
  <2>2. i = j => row.email = invite[j].email /\ row.expiresAt = invite[j].expiresAt
                 /\ row.status = "reserved"
    BY <1>1 DEF InviteRow
  <2> HIDE DEF row, i
  <2> QED
    BY <2>1, <2>2 DEF TypeOK
<1>7. ASSUME NEW s \in SignUps, FinalizeWrites(s)
      PROVE  RowStep(invite[j], invite'[j])
  <2> DEFINE i == claim[signup[s].ticket].invite
  <2>1. invite[i].status = "reserved" /\ invite' = [invite EXCEPT ![i] = Consumed(@, s)]
    BY <1>7 DEF FinalizeWrites, Consumable
  <2> HIDE DEF i
  <2> QED
    BY <1>1, <2>1 DEF Consumed, TypeOK, InviteRow
<1>8. ASSUME NEW s \in SignUps, Compensate(s)
      PROVE  RowStep(invite[j], invite'[j])
  BY <1>1, <1>8 DEF Compensate, Disowned, InviteRow
<1>9. ASSUME NEW s \in SignUps, DeleteAccount(s)
      PROVE  RowStep(invite[j], invite'[j])
  BY <1>1, <1>9 DEF DeleteAccount, WithoutResiduals, DeletedRow, InviteRow
<1>10. ASSUME NEW s \in SignUps,
              \/ TicketGone(s) \/ FinalizeAbort(s) \/ CompensateFails(s) \/ Crash(s)
              \/ SignIn(s) \/ SessionRead(s) \/ InsertUser(s)
              \/ \E k \in Claims : BeginSignUp(s, k)
       PROVE  UNCHANGED invite
  BY <1>10 DEF TicketGone, FinalizeAbort, CompensateFails, Crash, SignIn, SessionRead,
     InsertUser, BeginSignUp
<1>11. ASSUME NEW k \in Claims, MintTicket(k) \/ LoseTicket(k)
       PROVE  UNCHANGED invite
  BY <1>11 DEF MintTicket, LoseTicket
<1>12. Tick \/ UNCHANGED vars => UNCHANGED invite
  BY DEF Tick, vars
<1>13. ASSUME NEW s \in SignUps, SignUpStep(s)
       PROVE  RowStep(invite[j], invite'[j])
  <2>1. FinalizeCommit(s) \/ FinalizeLostCommit(s) => FinalizeWrites(s)
    BY DEF FinalizeCommit, FinalizeLostCommit
  <2>2. CASE FinalizeCommit(s) \/ FinalizeLostCommit(s)
    BY <1>7, <2>1, <2>2
  <2>3. CASE Compensate(s)
    BY <1>8, <2>3
  <2>4. CASE TicketGone(s) \/ FinalizeAbort(s) \/ CompensateFails(s) \/ InsertUser(s)
    BY <1>10, <2>4
  <2> QED
    BY <1>13, <2>2, <2>3, <2>4 DEF SignUpStep
<1> HIDE DEF RowStep
<1> QED
  BY <1>2, <1>3, <1>4, <1>5, <1>6, <1>9, <1>10, <1>11, <1>12, <1>13 DEF Next

(* Redeemed, revoked and expired invites stay so until they are deleted,   *)
(* whatever sweeps, stale tickets and sign-ups in flight do                *)
(* (reserveInviteForEmail, consumeReservedInvite, revokeInvite).           *)
THEOREM FinalStays == Spec => FinalStatusIsFinal
<1>1. TypeOK /\ [Next]_vars =>
        [\A i \in Invites :
           invite[i].status \in {"consumed", "revoked", "expired"} =>
             invite'[i].status \in {invite[i].status, "deleted"}]_vars
  <2> SUFFICES ASSUME TypeOK, [Next]_vars, NEW i \in Invites,
                      invite[i].status \in {"consumed", "revoked", "expired"}
               PROVE  invite'[i].status \in {invite[i].status, "deleted"}
    OBVIOUS
  <2>1. RowStep(invite[i], invite'[i])
    BY RowSteps DEF CreateInvite
  <2> QED
    BY <2>1 DEF RowStep
<1> QED
  BY <1>1, TypeCorrect, PTL DEF Spec, FinalStatusIsFinal

(* A compensation, successful or not, leaves status and nonce of every     *)
(* invite alone (compensateFailedRegistration's transaction-local flag).   *)
THEOREM ReservationsKept == Spec => CompensationKeepsReservation
<1>1. TypeOK /\ [Next]_vars =>
        [\A s \in SignUps :
           signup[s].pc = "compensating" /\ signup'[s].pc = "failed" =>
             \A i \in Invites : /\ invite'[i].status = invite[i].status
                                 /\ invite'[i].nonce = invite[i].nonce]_vars
  <2> SUFFICES ASSUME TypeOK, [Next]_vars, NEW s \in SignUps,
                      signup[s].pc = "compensating", signup'[s].pc = "failed",
                      NEW i \in Invites
               PROVE  invite'[i].status = invite[i].status /\ invite'[i].nonce = invite[i].nonce
    OBVIOUS
  <2>1. \/ UNCHANGED invite
        \/ \E r \in SignUps : Compensate(r)
    <3>1. ~ UNCHANGED signup
      OBVIOUS
    <3>2. ASSUME NEW r \in SignUps, FinalizeCommit(r) \/ FinalizeLostCommit(r) PROVE FALSE
      <4>1. signup[r].pc = "inserted" /\ \E pc \in {"done", "compensating"} :
              signup' = [signup EXCEPT ![r].pc = pc]
        BY <3>2 DEF FinalizeCommit, FinalizeLostCommit
      <4> QED
        BY <4>1 DEF TypeOK, SignUpState
    <3> QED
      BY <3>1, <3>2
         DEF Next, SignUpStep, vars, Tick, CreateInvite, RevokeInvite, BeginClaim,
             ReserveInvite, MintTicket, LoseTicket, BeginSignUp, InsertUser, TicketGone,
             FinalizeAbort, CompensateFails, Crash, SignIn, SessionRead, DeleteAccount
  <2> QED
    BY <2>1 DEF Compensate, Disowned, TypeOK, InviteRow
<1> QED
  BY <1>1, TypeCorrect, PTL DEF Spec, CompensationKeepsReservation

-----------------------------------------------------------------------------
(* OneActiveInvitePerEmail *)

OneActive ==
  \A e \in Emails : \A i, j \in Invites :
    /\ invite[i].email = e /\ Active(invite[i])
    /\ invite[j].email = e /\ Active(invite[j])
    => i = j

LEMMA InitOneActive == Init => OneActive
  BY DEF Init, OneActive, Active

LEMMA NextOneActive == TypeOK /\ OneActive /\ [Next]_vars => OneActive'
<1> SUFFICES ASSUME TypeOK, OneActive, [Next]_vars
             PROVE  OneActive'
  OBVIOUS
<1>1. ASSUME NEW e \in Emails, NEW i \in Invites, CreateInvite(e, i)
      PROVE  OneActive'
  <2>1. PICK now \in AppNow :
          /\ ActiveForEmail(AfterExpiry(now), e) = {}
          /\ Created(e, i, now)
    BY <1>1 DEF CreateInvite, Created
  <2>2. /\ invite'[i].email = e
        /\ \A j \in Invites \ {i} :
             /\ invite'[j] = AfterExpiry(now)[j]
             /\ Active(invite'[j]) => invite'[j] = invite[j]
    BY <2>1, CreatedRows
  <2>3. \A j \in Invites \ {i} : Active(invite'[j]) => invite'[j] = invite[j] /\ invite'[j].email # e
    BY <2>1, <2>2 DEF ActiveForEmail, Active
  <2> QED
    BY <2>2, <2>3 DEF OneActive, Active
<1>2. CASE \A e \in Emails, i \in Invites : ~ CreateInvite(e, i)
  <2>1. \A j \in Invites : RowStep(invite[j], invite'[j])
    BY <1>2, RowSteps
  <2>2. \A j \in Invites : Active(invite'[j]) => Active(invite[j]) /\ invite'[j].email = invite[j].email
    BY <2>1 DEF RowStep, Active
  <2> QED
    BY <2>2 DEF OneActive, Active
<1> QED
  BY <1>1, <1>2

(* An address never has two invites that hold or may still claim a seat    *)
(* (createStage1Invite's ACTIVE_INVITE_EXISTS against claims, expiry,      *)
(* revocation and deletion).                                               *)
THEOREM OneInvitePerEmail == Spec => []OneActiveInvitePerEmail
<1>1. OneActive => OneActiveInvitePerEmail
  <2> SUFFICES ASSUME OneActive, NEW e \in Emails
               PROVE  Cardinality({i \in Invites :
                        /\ invite[i].email = e
                        /\ invite[i].status \in {"pending", "reserved", "consumed"}}) <= 1
    BY DEF OneActiveInvitePerEmail
  <2> DEFINE S == {i \in Invites :
                     /\ invite[i].email = e
                     /\ invite[i].status \in {"pending", "reserved", "consumed"}}
  <2>1. \A i, j \in S : i = j
    BY DEF OneActive, Active
  <2> HIDE DEF S
  <2>2. S = {} => Cardinality(S) <= 1
    BY FS_EmptySet
  <2>3. ASSUME S # {} PROVE Cardinality(S) <= 1
    <3>1. PICK i \in S : TRUE
      BY <2>3
    <3>2. S = {i}
      BY <2>1, <3>1
    <3>3. Cardinality({i}) = 1
      BY FS_Singleton
    <3> QED
      BY <3>2, <3>3
  <2>4. Cardinality(S) <= 1
    BY <2>2, <2>3
  <2> QED
    BY <2>4 DEF S
<1> QED
  BY <1>1, InitOneActive, NextOneActive, TypeCorrect, PTL DEF Spec

-----------------------------------------------------------------------------
(* NoBurnedSeat and UnfinalizedOnlyInFlight: the life of one sign-up *)

Stays(s) == signup'[s] = signup[s] /\ user'[s] = user[s]

Goes(s, from, to, account) ==
  signup[s].pc = from /\ signup'[s].pc = to /\ user'[s] = account

(* What a step does to sign-up s and to the account it inserted.           *)
SignUpMove(s) ==
  \/ Stays(s)
  \/ DeleteAccount(s) /\ signup'[s] = signup[s] /\ user'[s] = "absent"
  \/ Goes(s, "idle", "verified", user[s])
  \/ Goes(s, "idle", "rejected", user[s])
  \/ Goes(s, "verified", "rejected", user[s])
  \/ Goes(s, "verified", "inserted", "unfinalized")
  \/ Goes(s, "inserted", "compensating", user[s])
  \/ Goes(s, "inserted", "done", "finalized")
  \/ "lost_commit" \in Faults /\ Goes(s, "inserted", "compensating", "finalized")
  \/ Compensate(s) /\ Goes(s, "compensating", "failed", "absent")
  \/ "compensation_error" \in Faults /\ Goes(s, "compensating", "failed", user[s])
  \/ "crash" \in Faults /\ signup'[s].pc = "crashed" /\ user'[s] = user[s]

LEMMA SignUpMoves ==
  ASSUME TypeOK, [Next]_vars, NEW s \in SignUps
  PROVE  SignUpMove(s)
<1> USE DEF SignUpMove, Stays, Goes
<1>1. /\ signup \in [SignUps -> SignUpState]
      /\ user \in [SignUps -> {"absent", "unfinalized", "finalized"}]
  BY DEF TypeOK
<1>2. CASE UNCHANGED <<signup, user>>
  BY <1>2
<1>3. ASSUME NEW r \in SignUps, NEW k \in Claims, BeginSignUp(r, k) PROVE SignUpMove(s)
  <2>1. UNCHANGED user /\ signup[r].pc = "idle"
    BY <1>3 DEF BeginSignUp
  <2>2. \E pc \in {"verified", "rejected"} :
          signup' = [signup EXCEPT ![r] = [pc |-> pc, ticket |-> k]]
    BY <1>3 DEF BeginSignUp
  <2> QED
    BY <1>1, <2>1, <2>2
<1>4. ASSUME NEW r \in SignUps, InsertUser(r) PROVE SignUpMove(s)
  BY <1>1, <1>4 DEF InsertUser, SignUpState
<1>5. ASSUME NEW r \in SignUps, TicketGone(r) \/ FinalizeAbort(r) PROVE SignUpMove(s)
  <2>1. /\ UNCHANGED user /\ signup[r].pc = "inserted"
        /\ signup' = [signup EXCEPT ![r].pc = "compensating"]
    BY <1>5 DEF TicketGone, FinalizeAbort
  <2> QED
    BY <1>1, <2>1 DEF SignUpState
<1>6. ASSUME NEW r \in SignUps, FinalizeCommit(r) PROVE SignUpMove(s)
  <2>1. /\ signup[r].pc = "inserted" /\ signup' = [signup EXCEPT ![r].pc = "done"]
        /\ user' = [user EXCEPT ![r] = "finalized"]
    BY <1>6 DEF FinalizeCommit, FinalizeWrites
  <2> QED
    BY <1>1, <2>1 DEF SignUpState
<1>7. ASSUME NEW r \in SignUps, FinalizeLostCommit(r) PROVE SignUpMove(s)
  <2>1. /\ signup[r].pc = "inserted" /\ signup' = [signup EXCEPT ![r].pc = "compensating"]
        /\ user' = [user EXCEPT ![r] = "finalized"] /\ "lost_commit" \in Faults
    BY <1>7 DEF FinalizeLostCommit, FinalizeWrites
  <2> QED
    BY <1>1, <2>1 DEF SignUpState
<1>8. ASSUME NEW r \in SignUps, Compensate(r) PROVE SignUpMove(s)
  <2>1. /\ signup[r].pc = "compensating" /\ signup' = [signup EXCEPT ![r].pc = "failed"]
        /\ user' = [user EXCEPT ![r] = "absent"]
    BY <1>8 DEF Compensate, RemoveUser
  <2> QED
    BY <1>1, <1>8, <2>1 DEF SignUpState
<1>9. ASSUME NEW r \in SignUps, CompensateFails(r) PROVE SignUpMove(s)
  BY <1>1, <1>9 DEF CompensateFails, SignUpState
<1>10. ASSUME NEW r \in SignUps, Crash(r) PROVE SignUpMove(s)
  BY <1>1, <1>10 DEF Crash, SignUpState
<1>11. ASSUME NEW r \in SignUps, DeleteAccount(r) PROVE SignUpMove(s)
  <2>1. UNCHANGED signup /\ user' = [user EXCEPT ![r] = "absent"]
    BY <1>11 DEF DeleteAccount, RemoveUser
  <2> QED
    BY <1>1, <1>11, <2>1
<1>12. ASSUME NEW r \in SignUps, SignIn(r) \/ SessionRead(r) PROVE UNCHANGED <<signup, user>>
  BY <1>12 DEF SignIn, SessionRead
<1>13. ASSUME NEW k \in Claims, ReserveInvite(k) \/ MintTicket(k) \/ LoseTicket(k)
       PROVE  UNCHANGED <<signup, user>>
  BY <1>13 DEF ReserveInvite, MintTicket, LoseTicket
<1>14. ASSUME NEW e \in Emails,
              \/ RevokeInvite(e)
              \/ \E i \in Invites : CreateInvite(e, i)
              \/ \E k \in Claims, i \in Invites : BeginClaim(k, e, i)
       PROVE  UNCHANGED <<signup, user>>
  BY <1>14 DEF RevokeInvite, CreateInvite, BeginClaim
<1>15. Tick \/ UNCHANGED vars => UNCHANGED <<signup, user>>
  BY DEF Tick, vars
<1> HIDE DEF SignUpMove, Stays, Goes
<1>16. ASSUME NEW r \in SignUps, SignUpStep(r) PROVE SignUpMove(s)
  BY <1>4, <1>5, <1>6, <1>7, <1>8, <1>9, <1>16 DEF SignUpStep
<1> QED
  BY <1>2, <1>3, <1>10, <1>11, <1>12, <1>13, <1>14, <1>15, <1>16 DEF Next

(* What a step does to a consumed invite: nothing, or it consumes it, or it*)
(* takes away its consumer.                                                *)
LEMMA ConsumedRows ==
  ASSUME TypeOK, [Next]_vars, NEW j \in Invites, invite'[j].status = "consumed"
  PROVE  \/ invite'[j] = invite[j] /\ \A r \in SignUps :
                                        DeleteAccount(r) => invite[j].consumedBy # r
         \/ \E r \in SignUps : /\ invite'[j].consumedBy = r /\ invite[j].status = "reserved"
                               /\ FinalizeCommit(r) \/ FinalizeLostCommit(r)
         \/ \E r \in SignUps : /\ Compensate(r) /\ invite[j].consumedBy = r
                               /\ invite[j].status = "consumed"
                               /\ invite'[j].consumedBy = None
<1>1. invite[j] \in InviteRow
  BY DEF TypeOK
<1>2. \A r \in SignUps : DeleteAccount(r) => invite[j].consumedBy # r /\ invite'[j] = invite[j]
  <2> SUFFICES ASSUME NEW r \in SignUps, DeleteAccount(r)
               PROVE  invite[j].consumedBy # r /\ invite'[j] = invite[j]
    OBVIOUS
  <2>1. invite'[j] = WithoutResiduals(invite[j], r)
    BY DEF DeleteAccount
  <2>2. DeletedRow(invite[j]).status = "deleted"
    BY <1>1 DEF DeletedRow, InviteRow
  <2> QED
    BY <2>1, <2>2 DEF WithoutResiduals
<1>3. CASE UNCHANGED invite
  BY <1>2, <1>3
<1>4. ASSUME NEW e \in Emails, NEW i \in Invites, CreateInvite(e, i)
      PROVE  invite'[j] = invite[j]
  <2>1. PICK now \in AppNow : Created(e, i, now)
    BY <1>4 DEF CreateInvite, Created
  <2> QED
    BY <2>1, CreatedRows DEF Active
<1>5. ASSUME NEW e \in Emails, RevokeInvite(e) PROVE invite'[j] = invite[j]
  BY <1>1, <1>5 DEF RevokeInvite, Revoked, InviteRow
<1>6. ASSUME NEW k \in Claims, NEW e \in Emails, NEW i \in Invites, BeginClaim(k, e, i)
      PROVE  invite'[j] = invite[j]
  <2>1. \/ invite'[j] = invite[j]
        \/ invite[j].status = "reserved" /\ invite'[j] = Unreserved(invite[j])
    BY <1>6 DEF BeginClaim, Stale
  <2> QED
    BY <1>1, <2>1 DEF Unreserved, InviteRow
<1>7. ASSUME NEW k \in Claims, ReserveInvite(k) PROVE invite'[j] = invite[j]
  <2> DEFINE i == claim[k].invite
             row == [invite[i] EXCEPT !.status = "reserved", !.reservedAt = claim[k].now,
                                      !.nonce = k]
  <2>1. invite' = invite \/ invite' = [invite EXCEPT ![i] = row]
    BY <1>7 DEF ReserveInvite
  <2>2. i = j => row.status = "reserved"
    BY <1>1 DEF InviteRow
  <2> HIDE DEF row, i
  <2> QED
    BY <2>1, <2>2 DEF TypeOK
<1>8. ASSUME NEW r \in SignUps, FinalizeWrites(r)
      PROVE  \/ invite'[j] = invite[j]
             \/ invite'[j].consumedBy = r /\ invite[j].status = "reserved"
  <2> DEFINE i == claim[signup[r].ticket].invite
  <2>1. invite[i].status = "reserved" /\ invite' = [invite EXCEPT ![i] = Consumed(@, r)]
    BY <1>8 DEF FinalizeWrites, Consumable
  <2> HIDE DEF i
  <2> QED
    BY <1>1, <2>1 DEF Consumed, TypeOK, InviteRow
<1>9. ASSUME NEW r \in SignUps, Compensate(r)
      PROVE  \/ invite'[j] = invite[j]
             \/ /\ invite[j].consumedBy = r /\ invite[j].status = "consumed"
                /\ invite'[j].consumedBy = None
  BY <1>1, <1>9 DEF Compensate, Disowned, InviteRow
<1>10. ASSUME NEW r \in SignUps,
              \/ TicketGone(r) \/ FinalizeAbort(r) \/ CompensateFails(r) \/ Crash(r)
              \/ SignIn(r) \/ SessionRead(r) \/ InsertUser(r)
              \/ \E k \in Claims : BeginSignUp(r, k)
       PROVE  UNCHANGED invite
  BY <1>10 DEF TicketGone, FinalizeAbort, CompensateFails, Crash, SignIn, SessionRead,
     InsertUser, BeginSignUp
<1>11. ASSUME NEW k \in Claims, MintTicket(k) \/ LoseTicket(k)
       PROVE  UNCHANGED invite
  BY <1>11 DEF MintTicket, LoseTicket
<1>12. Tick \/ UNCHANGED vars => UNCHANGED invite
  BY DEF Tick, vars
<1>13. \A r \in SignUps : FinalizeCommit(r) \/ FinalizeLostCommit(r) => FinalizeWrites(r)
  BY DEF FinalizeCommit, FinalizeLostCommit
<1> QED
  BY <1>2, <1>3, <1>4, <1>5, <1>6, <1>7, <1>8, <1>9, <1>10, <1>11, <1>12, <1>13
     DEF Next, SignUpStep

(* While no client loses sight of a commit, the account of a sign-up that  *)
(* may still compensate is not finalized.                                  *)
Unsettled ==
  \A s \in SignUps :
    signup[s].pc \in {"inserted", "compensating"} => user[s] # "finalized"

LEMMA NextUnsettled ==
  ASSUME "lost_commit" \notin Faults, TypeOK, Unsettled, [Next]_vars
  PROVE  Unsettled'
<1> SUFFICES ASSUME NEW s \in SignUps, signup'[s].pc \in {"inserted", "compensating"}
             PROVE  user'[s] # "finalized"
  BY DEF Unsettled
<1> QED
  BY SignUpMoves DEF Unsettled, SignUpMove, Stays, Goes

LEMMA NextNoBurnedSeat ==
  ASSUME "lost_commit" \notin Faults, IInv, Unsettled, NoBurnedSeat, [Next]_vars
  PROVE  NoBurnedSeat'
<1> SUFFICES ASSUME NEW j \in Invites, invite'[j].status = "consumed"
             PROVE  invite'[j].consumedBy \in SignUps /\ user'[invite'[j].consumedBy] = "finalized"
  BY DEF NoBurnedSeat, Finalized
<1>1. TypeOK
  BY DEF IInv
<1>2. invite[j].status = "consumed" =>
        invite[j].consumedBy \in SignUps /\ user[invite[j].consumedBy] = "finalized"
  BY DEF NoBurnedSeat, Finalized
<1>3. CASE /\ invite'[j] = invite[j]
           /\ \A r \in SignUps : DeleteAccount(r) => invite[j].consumedBy # r
  <2> DEFINE s == invite[j].consumedBy
  <2>1. s \in SignUps /\ user[s] = "finalized"
    BY <1>2, <1>3
  <2>2. signup[s].pc \notin {"verified", "inserted", "compensating"} /\ ~ DeleteAccount(s)
    BY <1>3, <2>1 DEF Unsettled, IInv, UserInserted
  <2> HIDE DEF s
  <2>3. SignUpMove(s)
    BY <1>1, <2>1, SignUpMoves
  <2>4. user'[s] = "finalized"
    BY <2>1, <2>2, <2>3 DEF SignUpMove, Stays, Goes
  <2> QED
    BY <1>3, <2>1, <2>4 DEF s
<1>4. ASSUME NEW r \in SignUps, invite'[j].consumedBy = r,
             FinalizeCommit(r) \/ FinalizeLostCommit(r)
      PROVE  user'[r] = "finalized"
  BY <1>1, <1>4 DEF FinalizeCommit, FinalizeLostCommit, FinalizeWrites, TypeOK
<1>5. ASSUME NEW r \in SignUps, Compensate(r), invite[j].consumedBy = r,
             invite[j].status = "consumed"
      PROVE  FALSE
  BY <1>2, <1>5 DEF Compensate, Unsettled
<1> QED
  BY <1>1, <1>3, <1>4, <1>5, ConsumedRows

(* Unless the outcome of a commit is lost on its client, a consumed invite *)
(* always belongs to a live, finalized account: rolled-back registrations, *)
(* compensations and account deletions spend no seat.                      *)
THEOREM NoSeatBurned ==
  ASSUME "lost_commit" \notin Faults PROVE Spec => []NoBurnedSeat
<1>1. Init => Unsettled /\ NoBurnedSeat
  BY DEF Init, Unsettled, NoBurnedSeat
<1>2. IInv /\ Unsettled /\ NoBurnedSeat /\ [Next]_vars => Unsettled' /\ NoBurnedSeat'
  BY NextUnsettled, NextNoBurnedSeat DEF IInv
<1> QED
  BY <1>1, <1>2, Invariance, PTL DEF Spec

(* Unless the server dies or the compensation itself fails, an account     *)
(* without invite_finalized_at exists only while its sign-up is served     *)
(* (finalizeInviteRegistration's catch block compensates every failure).   *)
THEOREM UnfinalizedInFlight ==
  ASSUME "compensation_error" \notin Faults, "crash" \notin Faults
  PROVE  Spec => []UnfinalizedOnlyInFlight
<1>1. Init => UnfinalizedOnlyInFlight
  BY DEF Init, UnfinalizedOnlyInFlight
<1>2. TypeOK /\ UnfinalizedOnlyInFlight /\ [Next]_vars => UnfinalizedOnlyInFlight'
  <2> SUFFICES ASSUME TypeOK, UnfinalizedOnlyInFlight, [Next]_vars,
                      NEW s \in SignUps, user'[s] = "unfinalized"
               PROVE  signup'[s].pc \in {"inserted", "compensating"}
    BY DEF UnfinalizedOnlyInFlight
  <2> QED
    BY SignUpMoves DEF UnfinalizedOnlyInFlight, SignUpMove, Stays, Goes
<1> QED
  BY <1>1, <1>2, TypeCorrect, PTL DEF Spec

-----------------------------------------------------------------------------
(* The registration and the seat ledger *)

LedgerProofs == INSTANCE SeatLedgerProofs WITH held <- Held, taken <- Taken

LEMMA SameCardinality ==
  /\ \A S : Ledger!Cardinality(S) = Cardinality(S)
  /\ \A S : LedgerProofs!Cardinality(S) = Cardinality(S)
  /\ \A S : LedgerProofs!IsFiniteSet(S) = IsFiniteSet(S)
<1>1. \A S : LedgerProofs!IsFiniteSet(S) = IsFiniteSet(S)
  BY DEF LedgerProofs!IsFiniteSet, IsFiniteSet
<1>2. \A S : LedgerProofs!Cardinality(S) = Cardinality(S)
  BY DEF LedgerProofs!Cardinality, Cardinality
<1>3. \A S : Ledger!Cardinality(S) = Cardinality(S)
  BY DEF Ledger!Cardinality, Cardinality
<1> QED
  BY <1>1, <1>2, <1>3

Unredeemed(row) == row.status \in {"pending", "reserved"}

LEMMA HeldTaken ==
  /\ \A j : j \in Held <=> j \in Invites /\ Unredeemed(invite[j]) /\ invite[j].expiresAt > clock
  /\ \A j : j \in Taken <=> j \in Invites /\ invite[j].status = "consumed"
  /\ \A j : j \in Held' <=> j \in Invites /\ Unredeemed(invite'[j]) /\ invite'[j].expiresAt > clock'
  /\ \A j : j \in Taken' <=> j \in Invites /\ invite'[j].status = "consumed"
  /\ \A j \in Invites : Occupies(invite[j], clock) <=> j \in Held \cup Taken
  /\ \A j : ~ (j \in Held /\ j \in Taken)
  BY DEF Held, Taken, Unredeemed, Occupies

(* What a step does to the seat of one row.                                *)
SeatKept(j) == (j \in Held' <=> j \in Held) /\ (j \in Taken' <=> j \in Taken)
SeatGone(j) == j \notin Held' /\ j \notin Taken'

(* Rows keep or lose their seats: the ledger vacates.                      *)
LEMMA Vacates ==
  ASSUME \A j \in Invites : SeatKept(j) \/ SeatGone(j)
  PROVE  Ledger!Next
<1> DEFINE gone == {j \in Held \cup Taken : SeatGone(j)}
<1>1. \A j : (j \in Held \/ j \in Taken \/ j \in Held' \/ j \in Taken') => j \in Invites
  BY HeldTaken
<1>2. Held' = Held \ gone /\ Taken' = Taken \ gone
  BY <1>1 DEF SeatKept, SeatGone
<1>3. gone \in SUBSET (Held \cup Taken)
  OBVIOUS
<1> HIDE DEF gone
<1>4. Ledger!Vacate(gone)
  BY <1>2, <1>3 DEF Ledger!Vacate, Ledger!Occupied
<1> QED
  BY <1>3, <1>4 DEF Ledger!Next, Ledger!Occupied

(* The seats of the table without row i, which the trigger counts.         *)
LEMMA OtherSeats ==
  ASSUME NEW i \in Invites, i \notin Held, i \notin Taken
  PROVE  {j \in Invites \ {i} : Occupies(invite[j], clock)} = Held \cup Taken
  BY HeldTaken

(* createStage1Invite issues a seat, and gives back those that have lapsed *)
(* by its clock; with a clock far behind, its invite is lapsed from birth. *)
LEMMA CreateIssues ==
  ASSUME TypeOK, NEW e \in Emails, NEW i \in Invites, CreateInvite(e, i)
  PROVE  Ledger!Next
<1>1. PICK now \in AppNow :
        LET row == [invite[i] EXCEPT !.status = "pending", !.email = e,
                                     !.expiresAt = now + InviteLife]
        IN  TriggerAdmits(AfterExpiry(now), i, row) /\ Created(e, i, now)
  BY DEF CreateInvite, Created
<1> DEFINE row == [invite[i] EXCEPT !.status = "pending", !.email = e,
                                    !.expiresAt = now + InviteLife]
           lapsed == {j \in Held : AfterExpiry(now)[j] # invite[j]}
           others == {j \in Invites \ {i} : Occupies(AfterExpiry(now)[j], clock)}
<1>2. /\ UNCHANGED clock /\ invite[i].status = "absent"
      /\ row.status = "pending" /\ row.expiresAt = now + InviteLife
  BY DEF CreateInvite, TypeOK, InviteRow
<1>3. /\ invite'[i].status = "pending" /\ invite'[i].expiresAt = now + InviteLife
      /\ \A j \in Invites \ {i} :
           /\ invite'[j] = AfterExpiry(now)[j]
           /\ RowStep(invite[j], invite'[j])
           /\ Active(invite'[j]) \/ invite[j].status = "consumed" => invite'[j] = invite[j]
  BY <1>1, CreatedRows
<1>4. i \notin Held /\ i \notin Taken
  BY <1>2, HeldTaken DEF Unredeemed
<1>5. TriggerAdmits(AfterExpiry(now), i, row)
  BY <1>1
<1> HIDE DEF row
<1>6. \A j \in Invites \ {i} :
        IF invite'[j] = invite[j] THEN SeatKept(j)
        ELSE invite[j].status # "consumed" /\ ~ Active(invite'[j]) /\ SeatGone(j)
  BY <1>2, <1>3, HeldTaken DEF SeatKept, SeatGone, Active, Unredeemed
<1>7. CASE i \in Held'
  <2>1. Occupies(row, clock)
    BY <1>2, <1>3, <1>7, HeldTaken DEF Occupies
  <2>2. Cardinality(others) < Cap
    BY <1>5, <2>1 DEF TriggerAdmits
  <2>3. others = (Held \cup Taken) \ lapsed
    <3>1. \A j \in Invites \ {i} : Occupies(AfterExpiry(now)[j], clock) <=> j \in Held' \cup Taken'
      BY <1>2, <1>3, HeldTaken DEF Occupies, Unredeemed
    <3>2. \A j \in Held \cup Taken : j \in Invites \ {i}
      BY <1>4, HeldTaken
    <3>3. \A j \in Invites \ {i} : j \in Held' \cup Taken' <=> j \in (Held \cup Taken) \ lapsed
      BY <1>3, <1>6, HeldTaken DEF SeatKept, SeatGone
    <3> QED
      BY <3>1, <3>2, <3>3
  <2>4. Held' = (Held \ lapsed) \cup {i} /\ Taken' = Taken
    <3>1. \A j : (j \in Held \/ j \in Taken \/ j \in Held' \/ j \in Taken') => j \in Invites
      BY HeldTaken
    <3>2. i \notin Taken'
      BY <1>3, HeldTaken
    <3> QED
      BY <1>3, <1>4, <1>6, <1>7, <3>1, <3>2, HeldTaken DEF SeatKept, SeatGone
  <2>5. lapsed \in SUBSET Held
    OBVIOUS
  <2> HIDE DEF lapsed, others
  <2>6. Ledger!Issue(i, lapsed)
    BY <1>4, <2>2, <2>3, <2>4, <2>5, SameCardinality DEF Ledger!Issue, Ledger!Occupied
  <2> QED
    BY <2>5, <2>6 DEF Ledger!Next
<1>8. CASE i \notin Held'
  <2>1. SeatGone(i)
    BY <1>3, <1>8, HeldTaken DEF SeatGone
  <2> QED
    BY <1>6, <2>1, Vacates
<1> QED
  BY <1>7, <1>8

(* The finalize transaction takes the seat of the ticket's invite; one that*)
(* lapsed by the database's clock only while another seat is free.         *)
LEMMA FinalizeRedeems ==
  ASSUME IInv, NEW s \in SignUps, FinalizeCommit(s) \/ FinalizeLostCommit(s)
  PROVE  Ledger!Next
<1> DEFINE k == signup[s].ticket
           i == claim[k].invite
<1>1. signup[s].pc = "inserted" /\ FinalizeWrites(s) /\ UNCHANGED clock
  BY DEF FinalizeCommit, FinalizeLostCommit
<1>2. k \in Claims /\ i \in Invites
  BY <1>1 DEF IInv, TicketMinted, ClaimFixed
<1>3. /\ invite[i].status = "reserved"
      /\ TriggerAdmits(invite, i, Consumed(invite[i], s))
      /\ invite' = [invite EXCEPT ![i] = Consumed(@, s)]
  BY <1>1 DEF FinalizeWrites, Consumable
<1> HIDE DEF i
<1>4. /\ Consumed(invite[i], s).status = "consumed" /\ invite'[i].status = "consumed"
      /\ \A j \in Invites \ {i} : invite'[j] = invite[j]
  BY <1>2, <1>3 DEF IInv, TypeOK, InviteRow, Consumed
<1>5. i \in Taken' /\ i \notin Held' /\ i \notin Taken
  BY <1>2, <1>3, <1>4, HeldTaken DEF Unredeemed
<1>6. Held' = Held \ {i} /\ Taken' = Taken \cup {i}
  <2>1. \A j \in Invites \ {i} : SeatKept(j)
    BY <1>1, <1>4, HeldTaken DEF SeatKept
  <2>2. \A j : (j \in Held \/ j \in Taken \/ j \in Held' \/ j \in Taken') => j \in Invites
    BY HeldTaken
  <2> QED
    BY <1>5, <2>1, <2>2 DEF SeatKept
<1>7. i \in Held \/ Cardinality(Held \cup Taken) < Cap
  <2>1. Cardinality({j \in Invites \ {i} : Occupies(invite[j], clock)}) < Cap
    BY <1>3, <1>4 DEF TriggerAdmits, Occupies
  <2> QED
    BY <1>2, <1>5, <2>1, OtherSeats
<1>8. Ledger!Redeem(i)
  BY <1>5, <1>6, <1>7, SameCardinality DEF Ledger!Redeem, Ledger!Occupied
<1> QED
  BY <1>2, <1>8 DEF Ledger!Next

(* Every other step keeps seats or gives them back.                        *)
LEMMA StepLedger == IInv /\ [Next]_vars => [Ledger!Next]_<<Held, Taken>>
<1> SUFFICES ASSUME IInv, [Next]_vars, ~ UNCHANGED <<Held, Taken>>
             PROVE  Ledger!Next
  OBVIOUS
<1>1. TypeOK
  BY DEF IInv
<1>2. CASE \E e \in Emails, i \in Invites : CreateInvite(e, i)
  BY <1>1, <1>2, CreateIssues
<1>3. CASE \E s \in SignUps : FinalizeCommit(s) \/ FinalizeLostCommit(s)
  BY <1>3, FinalizeRedeems
<1>4. CASE Tick
  <2>1. UNCHANGED invite /\ clock \in Nat /\ clock' = clock + 1
    BY <1>1, <1>4, ConstantsAssumption DEF Tick, TypeOK
  <2>2. \A j \in Invites : invite[j].expiresAt \in Nat
    BY <1>1, ConstantsAssumption DEF TypeOK, InviteRow, Times
  <2>3. \A j \in Invites : SeatKept(j) \/ SeatGone(j)
    BY <2>1, <2>2, HeldTaken DEF SeatKept, SeatGone
  <2> QED
    BY <2>3, Vacates
<1>5. CASE ~ Tick /\ (\A e \in Emails, i \in Invites : ~ CreateInvite(e, i))
           /\ (\A s \in SignUps : ~ FinalizeCommit(s) /\ ~ FinalizeLostCommit(s))
  <2>1. UNCHANGED clock
    BY <1>5 DEF Next, vars, SignUpStep, RevokeInvite, BeginClaim, ReserveInvite, MintTicket,
       LoseTicket, BeginSignUp, InsertUser, TicketGone, FinalizeAbort, Compensate,
       CompensateFails, Crash, SignIn, SessionRead, DeleteAccount
  <2>2. ASSUME NEW j \in Invites PROVE SeatKept(j) \/ SeatGone(j)
    <3>1. RowStep(invite[j], invite'[j])
      BY <1>1, <1>5, RowSteps
    <3>2. invite'[j].status = "consumed" => invite[j].status = "consumed"
      BY <1>1, <1>5, ConsumedRows
    <3> QED
      BY <2>1, <3>1, <3>2, HeldTaken DEF RowStep, SeatKept, SeatGone, Unredeemed
  <2> QED
    BY <2>2, Vacates
<1> QED
  BY <1>2, <1>3, <1>4, <1>5

LEMMA InitLedger == Init => Held = {} /\ Taken = {}
  BY DEF Init, Held, Taken

(* The registration implements the abstract seat ledger: issuing, claiming,*)
(* finalizing, compensating, revoking, deleting and the passing of time are*)
(* issues, redemptions and vacations of seats, or leave them alone, however*)
(* the application's clocks disagree with the database's.                  *)
THEOREM RegistrationImplementsLedger == Spec => ImplementsSeatLedger
<1>1. Init => Ledger!Init
  BY InitLedger DEF Ledger!Init
<1>2. IInv /\ [Next]_vars => [Ledger!Next]_(Ledger!vars)
  BY StepLedger DEF Ledger!vars
<1> QED
  BY <1>1, <1>2, Invariance, PTL DEF Spec, ImplementsSeatLedger, Ledger!Spec

(* At the database's clock, the invites never occupy more than Cap seats   *)
(* (enforce_alpha_stage1_capacity).                                        *)
THEOREM StageNeverOverfull == Spec => []CapacityRespected
<1>1. LedgerProofs!SeatAssumption
  BY ConstantsAssumption, SameCardinality DEF LedgerProofs!SeatAssumption
<1>2. [Ledger!Next]_<<Held, Taken>> => [LedgerProofs!Next]_(LedgerProofs!vars)
  BY SameCardinality
     DEF Ledger!Next, Ledger!Issue, Ledger!Redeem, Ledger!Vacate, Ledger!Occupied,
         LedgerProofs!Next, LedgerProofs!Issue, LedgerProofs!Redeem, LedgerProofs!Vacate,
         LedgerProofs!Occupied, LedgerProofs!vars
<1>3. IInv /\ LedgerProofs!LedgerInv /\ [Next]_vars => LedgerProofs!LedgerInv'
  BY <1>1, <1>2, StepLedger, LedgerProofs!NextLedger
<1>4. Init => LedgerProofs!LedgerInv
  BY <1>1, InitLedger, LedgerProofs!InitLedger DEF LedgerProofs!Init
<1>5. LedgerProofs!LedgerInv => CapacityRespected
  BY SameCardinality
     DEF LedgerProofs!LedgerInv, LedgerProofs!CapacityRespected, LedgerProofs!Occupied,
         CapacityRespected, Ledger!CapacityRespected, Ledger!Occupied
<1> QED
  BY <1>3, <1>4, <1>5, Invariance, PTL DEF Spec
=============================================================================
