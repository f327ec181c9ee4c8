------------------------------ MODULE Waitlist ------------------------------
(***************************************************************************)
(* The waitlist: joining (POST), returning (GET) and withdrawing (DELETE   *)
(* /api/waitlist), without accounts.  A browser holds the token of its     *)
(* entry in a cookie that the answer to its own POST has set; the server   *)
(* holds the token's hash.                                                 *)
(*                                                                         *)
(* Calls of one browser overlap, answers are lost or late, and a late      *)
(* answer changes whatever cookie the browser holds by then.               *)
(***************************************************************************)
EXTENDS Naturals

CONSTANTS
  Browsers,
  Emails,
  Calls,
  Tokens,    \* what generateWaitlistToken may return; never the same twice
  MaxDay,    \* bound: the last UTC date
  None

(* What the proofs need of the constants.                                  *)
WaitlistAssumption == MaxDay \in Nat \ {0} /\ None \notin Browsers \cup Emails \cup Tokens

VARIABLES
  day,        \* the UTC date
  entries,    \* waitlist_entries: the address of the entry of a token
  visits,     \* waitlist_visit_days
  cookie,     \* unstandard_waitlist in each browser
  call,
  joined,     \* history: the browser and the date of the join of a token
  seen        \* history: the dates on which a browser called

vars == <<day, entries, visits, cookie, call, joined, seen>>

Days == 1 .. MaxDay

Kinds == {"join", "visit", "withdraw"}

Call ==
  [pc : {"idle", "sent", "found", "created", "accepted", "visited", "cleared",
         "unavailable"},
   kind : Kinds \cup {None}, browser : Browsers \cup {None}, email : Emails \cup {None},
   token : Tokens \cup {None},  \* of the cookie sent, or of the entry created
   today : Days \cup {0}]       \* the server's date when it was received

Idle ==
  [pc |-> "idle", kind |-> None, browser |-> None, email |-> None, token |-> None,
   today |-> 0]

(* Types; two entries have different addresses; a cookie or a call names   *)
(* no token that was never given out.                                      *)
TypeOK ==
  /\ day \in Days
  /\ entries \in [Tokens -> Emails \cup {None}]
  /\ visits \subseteq Tokens \X Days
  /\ cookie \in [Browsers -> Tokens \cup {None}]
  /\ call \in [Calls -> Call]
  /\ joined \in [Tokens -> [browser : Browsers \cup {None}, date : Days \cup {0}]]
  /\ seen \subseteq Browsers \X Days
  /\ \A t, u \in Tokens : entries[t] # None /\ entries[t] = entries[u] => t = u

Init ==
  /\ day = 1
  /\ entries = [t \in Tokens |-> None]
  /\ visits = {}
  /\ cookie = [b \in Browsers |-> None]
  /\ call = [c \in Calls |-> Idle]
  /\ joined = [t \in Tokens |-> [browser |-> None, date |-> 0]]
  /\ seen = {}

Midnight ==
  /\ day < MaxDay
  /\ day' = day + 1
  /\ UNCHANGED <<entries, visits, cookie, call, joined, seen>>

(* A browser calls; without a cookie there is nothing to visit or withdraw.*)
Send(c, b, kind, e) ==
  /\ call[c].pc = "idle"
  /\ kind # "join" => cookie[b] # None /\ e = None
  /\ kind = "join" => e # None
  /\ call' = [call EXCEPT ![c] =
                [pc |-> "sent", kind |-> kind, browser |-> b, email |-> e,
                 token |-> IF kind = "join" THEN None ELSE cookie[b], today |-> day]]
  /\ seen' = seen \cup {<<b, day>>}
  /\ UNCHANGED <<day, entries, visits, cookie, joined>>

Fresh(t) == joined[t].browser = None

Go(c, pc) ==
  /\ call' = [call EXCEPT ![c].pc = pc]
  /\ UNCHANGED <<day, entries, visits, cookie, joined, seen>>

(* Mutant: ON CONFLICT DO UPDATE hands the entry over to the last caller.  *)
JoinTakesOver(c, t) ==
  LET k == call[c] IN
  /\ k.pc = "sent" /\ k.kind = "join" /\ Fresh(t)
  /\ entries' = [u \in Tokens |-> IF u = t THEN k.email
                                  ELSE IF entries[u] = k.email THEN None ELSE entries[u]]
  /\ visits' = visits \cup {<<t, k.today>>}
  /\ joined' = [joined EXCEPT ![t] = [browser |-> k.browser, date |-> k.today]]
  /\ call' = [call EXCEPT ![c].pc = "created", ![c].token = t]
  /\ UNCHANGED <<day, cookie, seen>>

(* joinWaitlist: the entry and its first visit in one transaction; an      *)
(* address that is on the list is accepted without a word and without a    *)
(* token.                                                                  *)
Join(c, t) ==
  LET k == call[c] IN
  /\ k.pc = "sent" /\ k.kind = "join" /\ Fresh(t)
  /\ \/ (\E u \in Tokens : entries[u] = k.email) /\ Go(c, "accepted")
     \/ /\ \A u \in Tokens : entries[u] # k.email
        /\ entries' = [entries EXCEPT ![t] = k.email]
        /\ visits' = visits \cup {<<t, k.today>>}
        /\ joined' = [joined EXCEPT ![t] = [browser |-> k.browser, date |-> k.today]]
        /\ call' = [call EXCEPT ![c].pc = "created", ![c].token = t]
        /\ UNCHANGED <<day, cookie, seen>>

(* recordWaitlistVisit: the entry of the token, ...                        *)
LookUp(c) ==
  /\ call[c].pc = "sent" /\ call[c].kind = "visit"
  /\ Go(c, IF entries[call[c].token] = None THEN "cleared" ELSE "found")

(* Mutant: the date of the insert instead of the date of the visit.        *)
RecordVisitLate(c) ==
  LET t == call[c].token IN
  /\ call[c].pc = "found"
  /\ \/ entries[t] = None /\ Go(c, "unavailable")
     \/ /\ entries[t] # None
        /\ visits' = visits \cup {<<t, day>>}
        /\ call' = [call EXCEPT ![c].pc = "visited"]
        /\ UNCHANGED <<day, entries, cookie, joined, seen>>

(* Mutant: no foreign key.                                                 *)
RecordVisitUnchecked(c) ==
  /\ call[c].pc = "found"
  /\ visits' = visits \cup {<<call[c].token, call[c].today>>}
  /\ call' = [call EXCEPT ![c].pc = "visited"]
  /\ UNCHANGED <<day, entries, cookie, joined, seen>>

(* ... and its visit of the day.  The entry may be gone by now: the foreign*)
(* key fails, and the answer is 503.                                       *)
RecordVisit(c) ==
  LET t == call[c].token IN
  /\ call[c].pc = "found"
  /\ \/ entries[t] = None /\ Go(c, "unavailable")
     \/ /\ entries[t] # None
        /\ visits' = visits \cup {<<t, call[c].today>>}
        /\ call' = [call EXCEPT ![c].pc = "visited"]
        /\ UNCHANGED <<day, entries, cookie, joined, seen>>

(* deleteWaitlistEntry, with the cascade to the visits; an entry that is   *)
(* gone already clears the cookie as well.                                 *)
Withdraw(c) ==
  LET t == call[c].token IN
  /\ call[c].pc = "sent" /\ call[c].kind = "withdraw"
  /\ entries' = [entries EXCEPT ![t] = None]
  /\ visits' = {v \in visits : v[1] # t}
  /\ call' = [call EXCEPT ![c].pc = "cleared"]
  /\ UNCHANGED <<day, cookie, joined, seen>>

(* A statement fails, or is committed and not acknowledged.                *)
Fail(c) ==
  /\ call[c].pc \in {"sent", "found", "created", "visited", "cleared"}
  /\ Go(c, "unavailable")

(* The answer arrives, with the cookie it sets or deletes.                 *)
Deliver(c) ==
  LET k == call[c] IN
  /\ k.pc \in {"created", "accepted", "visited", "cleared", "unavailable"}
  /\ cookie' = CASE k.pc = "created" -> [cookie EXCEPT ![k.browser] = k.token]
                 [] k.pc = "cleared" -> [cookie EXCEPT ![k.browser] = None]
                 [] OTHER -> cookie
  /\ call' = [call EXCEPT ![c] = Idle]
  /\ UNCHANGED <<day, entries, visits, joined, seen>>

(* The answer is lost.                                                     *)
Lose(c) ==
  /\ call[c].pc # "idle"
  /\ call[c].pc \notin {"sent", "found"}
  /\ call' = [call EXCEPT ![c] = Idle]
  /\ UNCHANGED <<day, entries, visits, cookie, joined, seen>>

(* The cookie expires, or its owner clears it.                             *)
Expire(b) ==
  /\ cookie[b] # None
  /\ cookie' = [cookie EXCEPT ![b] = None]
  /\ UNCHANGED <<day, entries, visits, call, joined, seen>>

Next ==
  \/ Midnight
  \/ \E c \in Calls :
       \/ \E b \in Browsers, kind \in Kinds, e \in Emails \cup {None} : Send(c, b, kind, e)
       \/ \E t \in Tokens : Join(c, t)
       \/ LookUp(c) \/ RecordVisit(c) \/ Withdraw(c)
       \/ Fail(c) \/ Deliver(c) \/ Lose(c)
  \/ \E b \in Browsers : Expire(b)

Spec == Init /\ [][Next]_vars

(* Who takes an entry off the list is the browser that put it there.       *)
RegistrantWithdraws ==
  \A t \in Tokens :
    entries[t] # None /\ entries'[t] # entries[t] =>
      \E c \in Calls :
        /\ call[c].kind = "withdraw" /\ call[c].pc = "sent" /\ call'[c].pc = "cleared"
        /\ call[c].browser = joined[t].browser

(* An entry leaves the list only by a withdrawal from the browser that put *)
(* it there: an address sent again, from anywhere, neither removes it nor  *)
(* gives anybody else its token (joinWaitlist, the POST and DELETE route). *)
OnlyTheRegistrantWithdraws == [][RegistrantWithdraws]_vars

(* What the revisit metric counts: every entry has the visit of the day it *)
(* was made, none before it, and each visit is of a date on which the      *)
(* registering browser did call.  Withdrawing takes the visits too, and a  *)
(* visit that was under way at the time leaves nothing behind              *)
(* (joinWaitlist, recordWaitlistVisit, deleteWaitlistEntry).               *)
VisitDaysSound ==
  /\ \A t \in Tokens : entries[t] # None => <<t, joined[t].date>> \in visits
  /\ \A v \in visits :
       /\ entries[v[1]] # None
       /\ v[2] >= joined[v[1]].date
       /\ <<joined[v[1]].browser, v[2]>> \in seen
=============================================================================
