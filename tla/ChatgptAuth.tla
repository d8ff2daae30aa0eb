---------------------------- MODULE ChatgptAuth ----------------------------
(***************************************************************************)
(* The ChatGPT plan's credential (core/chatgpt_auth.py): one token file,   *)
(* shared by every thread of every harness process on the machine, and     *)
(* OpenAI, which issues refresh tokens that a refresh spends.  Each        *)
(* read-modify-write of the file happens under a lock of the process and   *)
(* then one of the operating system; a thread is a program counter through *)
(* those sections and the posts to OpenAI made inside or between them.     *)
(*                                                                         *)
(* OpenAI and the network are external: a post may be refused, not arrive, *)
(* or arrive and have its answer lost.  A process may die anywhere; the    *)
(* next one of the same name starts with the file as it was left.          *)
(*                                                                         *)
(* A definition right before another of the same parameters, which nothing *)
(* uses, is the second one with a plausible bug in it: the properties are  *)
(* checked to notice it.                                                   *)
(***************************************************************************)
EXTENDS Naturals, FiniteSets

CONSTANTS
  Threads,     \* every thread that uses the plan
  Process,     \* the process of each
  Accounts,    \* ChatGPT accounts, each named by the client id it registers
  None,        \* no account, or no thread
  MaxGrants,   \* bound: refresh tokens OpenAI issues
  MaxCalls,    \* bound: calls made on the module
  MaxCrashes   \* bound: processes that die

ASSUME GrantsAssumption == MaxGrants \in Nat \ {0}
ASSUME BoundsAssumption == MaxCalls \in Nat /\ MaxCrashes \in Nat
ASSUME NoneAssumption == None \notin Threads \cup Accounts

VARIABLES
  file,     \* chatgpt_auth.json
  flock,    \* the thread whose descriptor holds the .lock file's lock
  rlock,    \* of each process: the thread that holds _THREAD_LOCK
  pc,       \* where each thread is
  section,  \* the locked section it is in, wants or comes from
  copy,     \* `data`: what it read under the lock, and changed since
  client,   \* the client id its sign-in was answered with or exchanges for
  tries,    \* revocation attempts of its sign-out so far
  hand,     \* tokens it must store or revoke: nobody else may have them
  openai,   \* what OpenAI makes of each refresh token
  excused,  \* history: tokens lost to the file by a death, a failed write, a
            \* lost answer or a refusal, and tokens whose replacement was
  calls,    \* calls made
  crashes   \* processes that died

threadVars == <<pc, section, copy, client, tries, hand>>
vars == <<file, flock, rlock, threadVars, openai, excused, calls, crashes>>

Tokens == 1..MaxGrants
Processes == {Process[t] : t \in Threads}
Of(p) == {t \in Threads : Process[t] = p}

NoSession == [token |-> 0, account |-> None]
\* The file: whether the host id was made, the account of the registered client,
\* whether the notice was shown, and the session.
Blank == [host |-> FALSE, account |-> None, shown |-> FALSE,
          session |-> NoSession]

SignOutSections == {"sign_out", "forget"}

Init ==
  /\ file = Blank
  /\ flock = None
  /\ rlock = [p \in Processes |-> None]
  /\ pc = [t \in Threads |-> "idle"]
  /\ section = [t \in Threads |-> "none"]
  /\ copy = [t \in Threads |-> Blank]
  /\ client = [t \in Threads |-> None]
  /\ tries = [t \in Threads |-> 0]
  /\ hand = [t \in Threads |-> {}]
  /\ openai = [n \in Tokens |-> "unissued"]
  /\ excused = {}
  /\ calls = 0
  /\ crashes = 0

-----------------------------------------------------------------------------
(* Moving a thread.                                                        *)

\* The call returns or raises: its locals are gone.
Over(t) ==
  /\ pc' = [pc EXCEPT ![t] = "idle"]
  /\ section' = [section EXCEPT ![t] = "none"]
  /\ copy' = [copy EXCEPT ![t] = Blank]
  /\ client' = [client EXCEPT ![t] = None]
  /\ tries' = [tries EXCEPT ![t] = 0]
  /\ hand' = [hand EXCEPT ![t] = {}]

Step(t, from, to) == pc[t] = from /\ pc' = [pc EXCEPT ![t] = to]

\* On to another locked section.
Enter(t, from, s) ==
  /\ Step(t, from, "waiting")
  /\ section' = [section EXCEPT ![t] = s]

In(t, s) == pc[t] = "locked" /\ section[t] = s

\* The end of the `with`, whichever way it is left.
Unlock(t) ==
  /\ flock' = None
  /\ rlock' = [rlock EXCEPT ![Process[t]] = None]

KeepsUnlocked(t) == flock' = None /\ UNCHANGED rlock

\* A post made inside the `with`.
Keeps(t) == UNCHANGED <<flock, rlock>>

DoneWithCopy(t) == copy' = [copy EXCEPT ![t] = Blank]

\* OpenAI issues a token.
Unissued == {n \in Tokens : openai[n] = "unissued"}
Fresh(n) == n \in Unissued /\ \A m \in Unissued : n <= m

Held(t) == copy[t].session.token
Cleared(d) == [d EXCEPT !.session = NoSession]
Forgotten(d) == [d EXCEPT !.account = None, !.shown = FALSE]

outside == <<openai, excused, calls, crashes>>

-----------------------------------------------------------------------------
(* _locked                                                                 *)

\* A turn asks for a token at any time.  The TUI takes no command while a turn
\* runs, a sign-in waits for the browser or a notice is on screen, and signs out
\* only of something the file shows.  (A sign-in that is past the browser can be
\* "cancelled" and goes on beside the next command.)
Call(t, s) ==
  /\ calls < MaxCalls
  /\ s # "access" => \A u \in Of(Process[t]) :
                        pc[u] \notin {"browser", "noticing"} /\ section[u] # "access"
  /\ s = "sign_out" => file.session # NoSession
  /\ s = "forget" => file.session # NoSession \/ file.account # None
  /\ Enter(t, "idle", s)
  /\ calls' = calls + 1
  /\ UNCHANGED <<file, flock, rlock, copy, client, tries, hand, openai,
                 excused, crashes>>

EnterProcess(t) ==
  /\ rlock[Process[t]] = None
  /\ Step(t, "waiting", "locking")
  /\ rlock' = [rlock EXCEPT ![Process[t]] = t]
  /\ UNCHANGED <<file, flock, section, copy, client, tries, hand, outside>>

LockIgnored == TRUE

LockIsFree == flock = None

\* The lock is had, and the file read.
TryLock(t) ==
  /\ LockIsFree
  /\ Step(t, "locking", "locked")
  /\ flock' = t
  /\ copy' = [copy EXCEPT ![t] = file]
  /\ UNCHANGED <<file, rlock, section, client, tries, hand, outside>>

LockGivesUpHolding(t) == UNCHANGED rlock

\* LOCK_WAIT_S went by: Transient leaves the outer `with` as well.
LockGivesUp(t) == rlock' = [rlock EXCEPT ![Process[t]] = None]

\* A sign-in that cannot store what it was just granted drops it.
LockTimesOut(t) ==
  /\ pc[t] = "locking" /\ flock # None
  /\ LockGivesUp(t)
  /\ Over(t)
  /\ excused' = excused \cup hand[t]
  /\ UNCHANGED <<file, flock, openai, calls, crashes>>

-----------------------------------------------------------------------------
(* start, and the wait for the browser                                     *)

StartSection(t) ==
  /\ In(t, "start")
  /\ IF copy[t].host THEN UNCHANGED file
                     ELSE file' = [copy[t] EXCEPT !.host = TRUE]
  /\ Step(t, "locked", "browser")
  /\ Unlock(t)
  /\ DoneWithCopy(t)
  /\ UNCHANGED <<section, client, tries, hand, outside>>

\* The redirect comes back, with the client id OpenAI gave or with none.
BrowserAnswers(t) ==
  /\ Enter(t, "browser", "check")
  /\ \E id \in Accounts \cup {None} : client' = [client EXCEPT ![t] = id]
  /\ UNCHANGED <<file, flock, rlock, copy, tries, hand, outside>>

\* SIGN_IN_WAIT_S, /connect cancel, a refusal at OpenAI, an unusable answer.
BrowserEnds(t) ==
  /\ pc[t] = "browser"
  /\ Over(t)
  /\ UNCHANGED <<file, flock, rlock, outside>>

-----------------------------------------------------------------------------
(* complete                                                                *)

ClientOf(t) == IF copy[t].account # None THEN copy[t].account ELSE client[t]

\* Another account than the registered one, or no client id at all.
CheckRefuses(t) ==
  /\ In(t, "check")
  /\ \/ ClientOf(t) = None
     \/ client[t] \notin {None, ClientOf(t)}
  /\ Unlock(t)
  /\ Over(t)
  /\ UNCHANGED <<file, outside>>

CheckPasses(t) ==
  /\ In(t, "check")
  /\ ClientOf(t) # None /\ client[t] \in {None, ClientOf(t)}
  /\ client' = [client EXCEPT ![t] = ClientOf(t)]
  /\ Step(t, "locked", "exchanging")
  /\ Unlock(t)
  /\ DoneWithCopy(t)
  /\ UNCHANGED <<file, section, tries, hand, outside>>

Exchanged(t) ==
  /\ Enter(t, "exchanging", "store")
  /\ \E n \in Tokens : /\ Fresh(n)
                       /\ openai' = [openai EXCEPT ![n] = "live"]
                       /\ hand' = [hand EXCEPT ![t] = {n}]
  /\ UNCHANGED <<file, flock, rlock, copy, client, tries, excused, calls,
                 crashes>>

\* Granted, and the answer lost or its ID token not accepted.
ExchangeWasted(t) ==
  /\ pc[t] = "exchanging"
  /\ \E n \in Tokens : /\ Fresh(n)
                       /\ openai' = [openai EXCEPT ![n] = "live"]
                       /\ excused' = excused \cup {n}
  /\ Over(t)
  /\ UNCHANGED <<file, flock, rlock, calls, crashes>>

ExchangeRefused(t) ==
  /\ pc[t] = "exchanging"
  /\ Over(t)
  /\ UNCHANGED <<file, flock, rlock, outside>>

Signed(t) ==
  [copy[t] EXCEPT
     !.account = client[t],
     !.shown = copy[t].shown /\ copy[t].account = client[t],
     !.session = [token |-> CHOOSE n \in hand[t] : TRUE, account |-> client[t]]]

PreviousForgotten(t) == {}

\* The refresh token of the session that was there.
Previous(t) == {Held(t)} \ {0}

Store(t) ==
  /\ In(t, "store")
  /\ file' = Signed(t)
  /\ copy' = [copy EXCEPT ![t] = Signed(t)]
  /\ hand' = [hand EXCEPT ![t] = Previous(t)]
  /\ Step(t, "locked", "revoking_old")
  /\ Unlock(t)
  /\ UNCHANGED <<section, client, tries, outside>>

\* complete returns.  The notice is due once for an account that shares its
\* plan, which it need not have done.
Completed(t) ==
  \/ Over(t)
  \/ /\ ~copy[t].shown
     /\ pc' = [pc EXCEPT ![t] = "noticing"]
     /\ section' = [section EXCEPT ![t] = "notice"]
     /\ hand' = [hand EXCEPT ![t] = {}]
     /\ client' = [client EXCEPT ![t] = None]
     /\ DoneWithCopy(t)
     /\ UNCHANGED tries

\* OpenAI revokes these, whether its 200 is heard or not.
Revoked(S) == openai' = [n \in Tokens |-> IF n \in S /\ openai[n] = "live"
                                          THEN "dead" ELSE openai[n]]

OldRevoked(t) ==
  /\ pc[t] = "revoking_old"
  /\ Revoked(hand[t])
  /\ Completed(t)
  /\ UNCHANGED <<file, flock, rlock, excused, calls, crashes>>

\* One attempt, not confirmed.
OldNotRevoked(t) ==
  /\ pc[t] = "revoking_old" /\ hand[t] # {}
  /\ excused' = excused \cup hand[t]
  /\ Completed(t)
  /\ UNCHANGED <<file, flock, rlock, openai, calls, crashes>>

\* The person closes the notice: mark_notice_shown.
Acknowledge(t) ==
  /\ Enter(t, "noticing", "notice")
  /\ UNCHANGED <<file, flock, rlock, copy, client, tries, hand, outside>>

NoticeSection(t) ==
  /\ In(t, "notice")
  /\ IF copy[t].account = None THEN UNCHANGED file
                               ELSE file' = [copy[t] EXCEPT !.shown = TRUE]
  /\ Unlock(t)
  /\ Over(t)
  /\ UNCHANGED outside

-----------------------------------------------------------------------------
(* access_token                                                            *)

\* SignedOut, or a token that is not due.
AccessReturns(t) ==
  /\ In(t, "access")
  /\ Unlock(t)
  /\ Over(t)
  /\ UNCHANGED <<file, outside>>

\* The clock, or the token a request was just refused with, makes it due.
AccessDue(t) ==
  /\ In(t, "access") /\ Held(t) # 0
  /\ Step(t, "locked", "refreshing")
  /\ Keeps(t)
  /\ UNCHANGED <<file, section, copy, client, tries, hand, outside>>

Rotates(r, n) ==
  /\ openai[r] = "live" /\ Fresh(n)
  /\ openai' = [openai EXCEPT ![r] = "spent", ![n] = "live"]

Rotated(t) ==
  /\ Step(t, "refreshing", "writing")
  /\ \E n \in Tokens :
       /\ Rotates(Held(t), n)
       /\ copy' = [copy EXCEPT ![t].session.token = n]
       /\ hand' = [hand EXCEPT ![t] = {n}]
  /\ UNCHANGED <<file, flock, rlock, section, client, tries, excused, calls,
                 crashes>>

\* A new access token and no new refresh token.
NotRotated(t) ==
  /\ Step(t, "refreshing", "writing")
  /\ openai[Held(t)] = "live"
  /\ UNCHANGED <<file, flock, rlock, section, copy, client, tries, hand, outside>>

\* Unusable: spent, revoked, or ended by OpenAI.
Unusable(t) ==
  /\ Step(t, "refreshing", "writing")
  /\ Revoked({Held(t)})
  /\ copy' = [copy EXCEPT ![t] = Cleared(@)]
  /\ UNCHANGED <<file, flock, rlock, section, client, tries, hand, excused,
                 calls, crashes>>

\* Transient: nothing reached OpenAI, or it could not answer.
NotRefreshed(t) ==
  /\ pc[t] = "refreshing"
  /\ Unlock(t)
  /\ Over(t)
  /\ UNCHANGED <<file, outside>>

\* Transient as well, and OpenAI did rotate.
RefreshLost(t) ==
  /\ pc[t] = "refreshing"
  /\ \E n \in Tokens : /\ Rotates(Held(t), n)
                       /\ excused' = excused \cup {Held(t), n}
  /\ Unlock(t)
  /\ Over(t)
  /\ UNCHANGED <<file, calls, crashes>>

\* The copy is written whole.  What the hand held and the file now does not
\* is a revocation that was not confirmed.
Write(t) ==
  /\ pc[t] = "writing"
  /\ file' = copy[t]
  /\ excused' = excused \cup (hand[t] \ {Held(t)})
  /\ Unlock(t)
  /\ Over(t)
  /\ UNCHANGED <<openai, calls, crashes>>

-----------------------------------------------------------------------------
(* sign_out                                                                *)

NothingToRevoke(t) ==
  /\ In(t, "sign_out") \/ In(t, "forget")
  /\ Held(t) = 0
  /\ IF section[t] = "forget" THEN file' = Forgotten(copy[t])
                              ELSE UNCHANGED file
  /\ Unlock(t)
  /\ Over(t)
  /\ UNCHANGED outside

Revoking(t) ==
  /\ In(t, "sign_out") \/ In(t, "forget")
  /\ Held(t) # 0
  /\ Step(t, "locked", "revoking")
  /\ tries' = [tries EXCEPT ![t] = 1]
  /\ Keeps(t)
  /\ UNCHANGED <<file, section, copy, client, hand, outside>>

\* The length of REVOKE_PAUSES_S.
Attempts == 3

\* A network failure or a 5xx: again, unless that was the last attempt.
RevokeAgain(t) ==
  /\ pc[t] = "revoking" /\ tries[t] < Attempts
  /\ tries' = [tries EXCEPT ![t] = @ + 1]
  /\ \E S \in {{}, {Held(t)}} : Revoked(S)
  /\ UNCHANGED <<file, flock, rlock, pc, section, copy, client, hand, excused,
                 calls, crashes>>

\* The session goes confirmed or not; forget drops the registration too.
SignedOutKeeping(t, confirmed) ==
  LET cleared == IF confirmed THEN Cleared(copy[t]) ELSE copy[t]
  IN  IF section[t] = "forget" THEN Forgotten(cleared) ELSE cleared

SignedOut(t, confirmed) ==
  IF section[t] = "forget" THEN Forgotten(Cleared(copy[t])) ELSE Cleared(copy[t])

RevokeConfirmed(t) ==
  /\ Step(t, "revoking", "writing")
  /\ Revoked({Held(t)})
  /\ copy' = [copy EXCEPT ![t] = SignedOut(t, TRUE)]
  /\ UNCHANGED <<file, flock, rlock, section, client, tries, hand, excused,
                 calls, crashes>>

\* The last attempt failed, or OpenAI's answer is final.
RevokeGivesUp(t) ==
  /\ Step(t, "revoking", "writing")
  /\ copy' = [copy EXCEPT ![t] = SignedOut(t, FALSE)]
  /\ hand' = [hand EXCEPT ![t] = {Held(t)}]
  /\ UNCHANGED <<file, flock, rlock, section, client, tries, outside>>

-----------------------------------------------------------------------------
(* What can go wrong on this machine: the file cannot be written, or a     *)
(* process dies, and its locks with it.  Either way what the threads had   *)
(* in hand is lost, and a replacement not written leaves the file a spent  *)
(* token.                                                                  *)

Replacing(t) == pc[t] = "writing" /\ section[t] = "access" /\ hand[t] # {}

Lost(S) ==
  LET stored == {file.session.token}
  IN  ((UNION {hand[t] : t \in S}) \ stored)
        \cup (IF \E t \in S : Replacing(t) THEN stored ELSE {})

AboutToWrite(t) ==
  \/ pc[t] = "writing" \/ In(t, "store")
  \/ In(t, "start") /\ ~copy[t].host
  \/ In(t, "notice") /\ copy[t].account # None
  \/ In(t, "forget") /\ Held(t) = 0

\* OSError out of write_json_atomic: the old file stays whole.
WriteFails(t) ==
  /\ AboutToWrite(t)
  /\ excused' = excused \cup Lost({t})
  /\ Unlock(t)
  /\ Over(t)
  /\ UNCHANGED <<file, openai, calls, crashes>>

Crash(p) ==
  LET gone(f, v) == [t \in Threads |-> IF t \in Of(p) THEN v ELSE f[t]]
  IN  /\ crashes < MaxCrashes
      /\ \E t \in Of(p) : pc[t] # "idle"
      /\ crashes' = crashes + 1
      /\ flock' = IF flock \in Of(p) THEN None ELSE flock
      /\ rlock' = [rlock EXCEPT ![p] = None]
      /\ pc' = gone(pc, "idle") /\ section' = gone(section, "none")
      /\ copy' = gone(copy, Blank) /\ client' = gone(client, None)
      /\ tries' = gone(tries, 0) /\ hand' = gone(hand, {})
      /\ excused' = excused \cup Lost(Of(p))
      /\ UNCHANGED <<file, openai, calls>>

-----------------------------------------------------------------------------
Locking(t) == EnterProcess(t) \/ TryLock(t) \/ LockTimesOut(t)

Sections(t) ==
  \/ StartSection(t) \/ CheckRefuses(t) \/ CheckPasses(t) \/ Store(t)
  \/ NoticeSection(t) \/ AccessReturns(t) \/ AccessDue(t) \/ Write(t)
  \/ NothingToRevoke(t) \/ Revoking(t) \/ WriteFails(t)

\* OpenAI's answers, and what a post without one raises.
Answers(t) ==
  \/ Exchanged(t) \/ ExchangeWasted(t) \/ ExchangeRefused(t)
  \/ OldRevoked(t) \/ OldNotRevoked(t)
  \/ Rotated(t) \/ NotRotated(t) \/ Unusable(t) \/ NotRefreshed(t)
  \/ RefreshLost(t)
  \/ RevokeAgain(t) \/ RevokeConfirmed(t) \/ RevokeGivesUp(t)

CallStep(t) == Locking(t) \/ Sections(t) \/ Answers(t) \/ BrowserEnds(t)

\* Every call within the bound is over.
AllOver ==
  /\ calls = MaxCalls /\ \A t \in Threads : pc[t] = "idle"
  /\ UNCHANGED vars

Next ==
  \/ \E t \in Threads : \/ \E s \in {"start", "access"} \cup SignOutSections :
                             Call(t, s)
                        \/ CallStep(t) \/ BrowserAnswers(t) \/ Acknowledge(t)
  \/ \E p \in Processes : Crash(p)
  \/ AllOver

Spec == Init /\ [][Next]_vars

\* A thread in a call keeps running: its waits have timeouts (_HTTP_TIMEOUT_S,
\* LOCK_WAIT_S, SIGN_IN_WAIT_S), the process lock excepted.  Nothing is asked
\* of the person or of new calls.
FairSpec == Spec /\ \A t \in Threads : WF_vars(CallStep(t))

-----------------------------------------------------------------------------
(* A refresh token is posted once (CG4: "two harness processes refreshing  *)
(* at once would each spend the same one").  A refresh never posts a token *)
(* that an earlier refresh spent, whichever thread or process made it,     *)
(* unless the replacement never reached the file.                          *)
SpentOnce ==
  \A t \in Threads :
    pc[t] = "refreshing" /\ openai[Held(t)] = "spent" => Held(t) \in excused

(***************************************************************************)
(* No token that works is left where nobody can revoke it: one alive at    *)
(* OpenAI is in the file, or in the hands of a thread about to store or    *)
(* revoke it, unless an answer was lost, a process died or could not write *)
(* with it in hand, or OpenAI would not confirm.  A sign-out that dies     *)
(* half way is no excuse (sign_out's docstring), nor is a second sign-in.  *)
(***************************************************************************)
LiveIsHeld ==
  \A n \in Tokens :
    openai[n] = "live" =>
      n \in {file.session.token} \cup excused \cup UNION {hand[t] : t \in Threads}

(* A session is stored only beside the registration it was made with: the  *)
(* client id a refresh or a revocation sends is the token's own.           *)
SessionIsRegistered ==
  file.session # NoSession => file.session.account = file.account

(* So what the file keeps can be revoked: the token and whom to say it to. *)
TokensAreKept == LiveIsHeld /\ SessionIsRegistered

(***************************************************************************)
(* A token reaches the file in two ways: a sign-in stores it, or it        *)
(* replaces the very token the file holds, which is spent.  So a slow      *)
(* refresh brings back neither a session that was signed out nor one that  *)
(* a newer sign-in replaced.                                               *)
(***************************************************************************)
NewTokenIsEarned ==
  [][file'.session.token \notin {0, file.session.token} =>
       \/ \E t \in Threads : In(t, "store") /\ file'.session.token \in hand[t]
       \/ /\ file.session.token # 0
          /\ openai[file.session.token] = "spent"]_vars

(* Every call returns or raises, however the threads and processes contend *)
(* for the two locks, and whoever dies holding them.  (MaxCalls bounds the *)
(* calls, so that no thread is in one again and again means that each one  *)
(* made comes to its end.)                                                 *)
CallsReturn == []<>(\A t \in Threads : pc[t] \in {"idle", "noticing"})
=============================================================================
