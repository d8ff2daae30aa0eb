-------------------------- MODULE ChatgptAuthProofs --------------------------
(***************************************************************************)
(* Proofs about ChatgptAuth, for any threads, any division of them into    *)
(* processes, any accounts and bounds.  The argument is the .lock file's:  *)
(* whoever is past it holds a copy of the file as it is, nobody else has   *)
(* in hand a token the file holds or somebody has in hand, and what a      *)
(* refresh or a sign-out owes the file is known until it is written.       *)
(***************************************************************************)
EXTENDS ChatgptAuth, TLAPS

USE GrantsAssumption, NoneAssumption

Session == [token : Tokens, account : Accounts] \cup {NoSession}
File == [host : BOOLEAN, account : Accounts \cup {None}, shown : BOOLEAN,
         session : Session]

PCs == {"idle", "waiting", "locking", "locked", "browser", "exchanging",
        "revoking_old", "noticing", "refreshing", "revoking", "writing"}
LockedSections == {"start", "check", "store", "notice", "access"} \cup SignOutSections

TypeOK ==
  /\ file \in File
  /\ flock \in Threads \cup {None}
  /\ rlock \in [Processes -> Threads \cup {None}]
  /\ pc \in [Threads -> PCs]
  /\ section \in [Threads -> LockedSections \cup {"none"}]
  /\ copy \in [Threads -> File]
  /\ client \in [Threads -> Accounts \cup {None}]
  /\ tries \in [Threads -> 0..Attempts]
  /\ hand \in [Threads -> SUBSET Tokens]
  /\ openai \in [Tokens -> {"unissued", "live", "spent", "dead"}]
  /\ excused \subseteq Tokens

Stored == file.session.token
Waits == {"waiting", "locking", "locked"}
Readers == {"locked", "refreshing", "revoking"}
Holds(t) == pc[t] \in Readers \cup {"writing"}
Granted(t) == \E n \in Tokens : hand[t] = {n} /\ openai[n] = "live"

\* Whoever is past the .lock file has its lock, and its copy is the file until
\* it has something to write.
HasLock(t) == Holds(t) => flock = t
ReadsFile(t) == pc[t] \in Readers => copy[t] = file

\* What a thread has in hand, by where it is: a grant that works on the way to
\* the file, nothing, or what it is about to revoke or to write.
Storing(t) == pc[t] \in Waits /\ section[t] = "store"
HandAsSaid(t) ==
  /\ Storing(t) => Granted(t) /\ client[t] \in Accounts
  /\ pc[t] = "exchanging" => client[t] \in Accounts
  /\ ~Storing(t) /\ pc[t] \notin {"revoking_old", "writing"} => hand[t] = {}
  /\ pc[t] = "refreshing" => section[t] = "access"
  /\ pc[t] = "revoking" => section[t] \in SignOutSections
  /\ pc[t] \in {"refreshing", "revoking"} => Stored # 0

\* What is about to be written: the file with the replacement of the token it
\* holds, the file as it is, or the file without a session, and then OpenAI has
\* ended the session or the token is in hand.
Replaces(t) ==
  /\ Granted(t) /\ hand[t] = {Held(t)}
  /\ copy[t] = [file EXCEPT !.session.token = Held(t)]
  /\ openai[Stored] = "spent"
Rewrites(t) == hand[t] = {} /\ copy[t] = file
Ends(t) ==
  /\ copy[t].session = NoSession
  /\ \/ hand[t] = {} /\ openai[Stored] # "live"
     \/ hand[t] = {Stored} /\ section[t] \in SignOutSections
WritesAsSaid(t) ==
  pc[t] = "writing" =>
    /\ Stored # 0
    /\ \/ section[t] \in SignOutSections /\ Ends(t)
       \/ section[t] = "access" /\ (Replaces(t) \/ Rewrites(t) \/ Ends(t))

\* Nothing in hand is in the file, except while a sign-out that was not
\* confirmed is about to write; and it was issued.
OwnHand(t) ==
  /\ Stored \in hand[t] => pc[t] = "writing" /\ section[t] \in SignOutSections
  /\ \A n \in hand[t] : openai[n] # "unissued"

Row(t) == HasLock(t) /\ ReadsFile(t) /\ HandAsSaid(t) /\ WritesAsSaid(t) /\ OwnHand(t)

NoTwoHands == \A t, u \in Threads : t # u => hand[t] \cap hand[u] = {}
StoredIsIssued == Stored # 0 => openai[Stored] # "unissued"

\* The file holds a spent token only while its replacement is on the way, or
\* when that was lost.
SpentIsReplaced ==
  Stored # 0 /\ openai[Stored] = "spent" =>
    Stored \in excused \/ \E t \in Threads : Replacing(t)

IInv == /\ TypeOK /\ (\A t \in Threads : Row(t))
        /\ NoTwoHands /\ StoredIsIssued /\ SpentIsReplaced
        /\ LiveIsHeld /\ SessionIsRegistered

-----------------------------------------------------------------------------
(* Type correctness.                                                       *)

LEMMA RecordsTyped ==
  /\ Blank \in File
  /\ \A d \in File : /\ Cleared(d) \in File /\ Forgotten(d) \in File
                     /\ [d EXCEPT !.host = TRUE] \in File
                     /\ [d EXCEPT !.shown = TRUE] \in File
                     /\ d.session.token \in Tokens \cup {0}
                     /\ d.session.token = 0 <=> d.session = NoSession
                     /\ \A n \in Tokens : d.session # NoSession =>
                          [d EXCEPT !.session.token = n] \in File
<1>1. NoSession \in Session /\ Blank \in File
  BY DEF Blank, File, Session
<1>. SUFFICES ASSUME NEW d \in File
              PROVE  /\ Cleared(d) \in File /\ Forgotten(d) \in File
                     /\ [d EXCEPT !.host = TRUE] \in File
                     /\ [d EXCEPT !.shown = TRUE] \in File
                     /\ d.session.token \in Tokens \cup {0}
                     /\ d.session.token = 0 <=> d.session = NoSession
                     /\ \A n \in Tokens : d.session # NoSession =>
                          [d EXCEPT !.session.token = n] \in File
  BY <1>1
<1>2. Cleared(d) \in File /\ Forgotten(d) \in File
  BY <1>1 DEF Cleared, Forgotten, File
<1>3. [d EXCEPT !.host = TRUE] \in File /\ [d EXCEPT !.shown = TRUE] \in File
  BY DEF File
<1>4. d.session \in Session
  BY DEF File
<1>5. /\ d.session.token \in Tokens \cup {0}
      /\ d.session.token = 0 <=> d.session = NoSession
  BY <1>4 DEF Session, NoSession, Tokens
<1>6. ASSUME NEW n \in Tokens, d.session # NoSession
      PROVE  [d EXCEPT !.session.token = n] \in File
  <2>1. [d.session EXCEPT !.token = n] \in Session
    BY <1>4, <1>6 DEF Session
  <2>. QED
    BY <2>1 DEF File
<1>. QED
  BY <1>2, <1>3, <1>5, <1>6

LEMMA OverTyped ==
  ASSUME TypeOK, NEW t \in Threads, Over(t)
  PROVE  /\ pc' \in [Threads -> PCs] /\ section' \in [Threads -> LockedSections \cup {"none"}]
         /\ copy' \in [Threads -> File] /\ client' \in [Threads -> Accounts \cup {None}]
         /\ tries' \in [Threads -> 0..Attempts] /\ hand' \in [Threads -> SUBSET Tokens]
  BY RecordsTyped DEF TypeOK, Over, PCs, Attempts

LEMMA UnlockTyped ==
  ASSUME TypeOK, NEW t \in Threads, Unlock(t)
  PROVE  flock' \in Threads \cup {None} /\ rlock' \in [Processes -> Threads \cup {None}]
  BY DEF TypeOK, Unlock

LEMMA RevokedTyped ==
  ASSUME TypeOK, NEW S, Revoked(S)
  PROVE  openai' \in [Tokens -> {"unissued", "live", "spent", "dead"}]
  BY DEF TypeOK, Revoked

\* What a sign-in stores is a session of the account it was answered with.
LEMMA SignedIs ==
  ASSUME TypeOK, NEW t \in Threads, NEW n \in Tokens, hand[t] = {n}, client[t] \in Accounts
  PROVE  /\ Signed(t) \in File
         /\ Signed(t).session = [token |-> n, account |-> client[t]]
         /\ Signed(t).account = client[t]
<1>1. (CHOOSE m \in hand[t] : TRUE) = n
  OBVIOUS
<1>2. copy[t] \in File
  BY DEF TypeOK
<1>3. [token |-> n, account |-> client[t]] \in Session
  BY DEF Session
<1>4. (copy[t].shown /\ copy[t].account = client[t]) \in BOOLEAN
  OBVIOUS
<1>. QED
  BY <1>1, <1>2, <1>3, <1>4 DEF Signed, File

LEMMA TypeStep == ASSUME IInv, [Next]_vars PROVE TypeOK'
<1>. USE DEF IInv
<1>a. TypeOK
  OBVIOUS
<1>1. ASSUME NEW t \in Threads, NEW s \in {"start", "access"} \cup SignOutSections, Call(t, s)
      PROVE  TypeOK'
  BY <1>1 DEF Call, Enter, Step, TypeOK, PCs, LockedSections
<1>2. ASSUME NEW t \in Threads, EnterProcess(t) \/ TryLock(t) PROVE TypeOK'
  BY <1>2 DEF EnterProcess, TryLock, Step, TypeOK, PCs, outside, Processes
<1>3. ASSUME NEW t \in Threads, LockTimesOut(t) PROVE TypeOK'
  BY <1>3, OverTyped DEF LockTimesOut, LockGivesUp, TypeOK
<1>4. ASSUME NEW t \in Threads, StartSection(t) PROVE TypeOK'
  <2>0. file \in File /\ copy[t] \in File
    BY DEF TypeOK
  <2>1. file' \in File
    BY <1>4, <2>0, RecordsTyped DEF StartSection
  <2>. QED
    BY <1>4, <2>1, RecordsTyped, UnlockTyped
       DEF StartSection, Step, DoneWithCopy, outside, TypeOK, PCs
<1>5. ASSUME NEW t \in Threads, BrowserAnswers(t) \/ Acknowledge(t) PROVE TypeOK'
  BY <1>5 DEF BrowserAnswers, Acknowledge, Enter, Step, outside, TypeOK, PCs, LockedSections
<1>6. ASSUME NEW t \in Threads, BrowserEnds(t) \/ ExchangeRefused(t) PROVE TypeOK'
  BY <1>6, OverTyped DEF BrowserEnds, ExchangeRefused, outside, TypeOK
<1>7. ASSUME NEW t \in Threads, CheckRefuses(t) \/ AccessReturns(t) \/ NotRefreshed(t)
      PROVE  TypeOK'
  BY <1>7, OverTyped, UnlockTyped DEF CheckRefuses, AccessReturns, NotRefreshed, outside, TypeOK
<1>8. ASSUME NEW t \in Threads, CheckPasses(t) PROVE TypeOK'
  <2>1. ClientOf(t) \in Accounts \cup {None}
    BY DEF ClientOf, TypeOK, File
  <2>. QED
    BY <1>8, <2>1, RecordsTyped, UnlockTyped
       DEF CheckPasses, Step, DoneWithCopy, outside, TypeOK, PCs
<1>9. ASSUME NEW t \in Threads, Exchanged(t) PROVE TypeOK'
  BY <1>9 DEF Exchanged, Enter, Step, TypeOK, PCs, LockedSections
<1>10. ASSUME NEW t \in Threads, ExchangeWasted(t) PROVE TypeOK'
  BY <1>10, OverTyped DEF ExchangeWasted, TypeOK
<1>11. ASSUME NEW t \in Threads, Store(t) PROVE TypeOK'
  <2>1. \E n \in Tokens : hand[t] = {n} /\ client[t] \in Accounts
    BY <1>11 DEF Store, In, Row, HandAsSaid, Storing, Granted, Waits
  <2>2. Signed(t) \in File
    BY <2>1, SignedIs
  <2>3. Previous(t) \subseteq Tokens
    BY RecordsTyped DEF Previous, Held, TypeOK
  <2>. QED
    BY <1>11, <2>2, <2>3, UnlockTyped DEF Store, Step, outside, TypeOK, PCs
<1>12. ASSUME NEW t \in Threads, Completed(t)
       PROVE  /\ pc' \in [Threads -> PCs] /\ section' \in [Threads -> LockedSections \cup {"none"}]
              /\ copy' \in [Threads -> File] /\ client' \in [Threads -> Accounts \cup {None}]
              /\ tries' \in [Threads -> 0..Attempts] /\ hand' \in [Threads -> SUBSET Tokens]
  <2>1. CASE Over(t)
    BY <2>1, OverTyped
  <2>2. CASE ~Over(t)
    BY <1>12, <2>2, RecordsTyped DEF Completed, DoneWithCopy, TypeOK, PCs, LockedSections
  <2>. QED
    BY <2>1, <2>2
<1>13. ASSUME NEW t \in Threads, OldRevoked(t) PROVE TypeOK'
  BY <1>12, <1>13, RevokedTyped DEF OldRevoked, TypeOK
<1>14. ASSUME NEW t \in Threads, OldNotRevoked(t) PROVE TypeOK'
  BY <1>12, <1>14 DEF OldNotRevoked, TypeOK
<1>15. ASSUME NEW t \in Threads, NoticeSection(t) PROVE TypeOK'
  <2>0. file \in File /\ copy[t] \in File
    BY DEF TypeOK
  <2>1. file' \in File
    BY <1>15, <2>0, RecordsTyped DEF NoticeSection
  <2>. QED
    BY <1>15, <2>1, OverTyped, UnlockTyped DEF NoticeSection, outside, TypeOK
<1>16. ASSUME NEW t \in Threads, AccessDue(t) \/ NotRotated(t) PROVE TypeOK'
  BY <1>16 DEF AccessDue, NotRotated, Keeps, Step, outside, TypeOK, PCs
<1>17. ASSUME NEW t \in Threads, Rotated(t) PROVE TypeOK'
  <2>1. copy[t] = file /\ Stored # 0
    BY <1>17 DEF Rotated, Step, Row, ReadsFile, HandAsSaid, Readers
  <2>2. \A n \in Tokens : [copy EXCEPT ![t].session.token = n] \in [Threads -> File]
    BY <2>1, RecordsTyped DEF TypeOK, Stored
  <2>. QED
    BY <1>17, <2>2 DEF Rotated, Rotates, Step, TypeOK, PCs
<1>18. ASSUME NEW t \in Threads, Unusable(t) PROVE TypeOK'
  BY <1>18, RecordsTyped, RevokedTyped DEF Unusable, Step, TypeOK, PCs
<1>19. ASSUME NEW t \in Threads, RefreshLost(t) PROVE TypeOK'
  <2>1. Held(t) \in Tokens
    BY <1>19, RecordsTyped DEF RefreshLost, Row, ReadsFile, HandAsSaid, Readers, TypeOK, Stored, Held
  <2>. QED
    BY <1>19, <2>1, OverTyped, UnlockTyped DEF RefreshLost, Rotates, TypeOK
<1>20. ASSUME NEW t \in Threads, Write(t) PROVE TypeOK'
  BY <1>20, OverTyped, UnlockTyped DEF Write, TypeOK
<1>21. ASSUME NEW t \in Threads, NothingToRevoke(t) PROVE TypeOK'
  <2>0. file \in File /\ copy[t] \in File
    BY DEF TypeOK
  <2>1. file' \in File
    BY <1>21, <2>0, RecordsTyped DEF NothingToRevoke
  <2>. QED
    BY <1>21, <2>1, OverTyped, UnlockTyped DEF NothingToRevoke, outside, TypeOK
<1>22. ASSUME NEW t \in Threads, Revoking(t) PROVE TypeOK'
  BY <1>22 DEF Revoking, Keeps, Step, outside, TypeOK, PCs, Attempts
<1>23. ASSUME NEW t \in Threads, RevokeAgain(t) PROVE TypeOK'
  <2>1. tries' \in [Threads -> 0..Attempts]
    BY <1>23 DEF RevokeAgain, TypeOK, Attempts
  <2>. QED
    BY <1>23, <2>1, RevokedTyped DEF RevokeAgain, TypeOK
<1>24. \A t \in Threads : SignedOut(t, TRUE) \in File /\ SignedOut(t, FALSE) \in File
  BY RecordsTyped DEF SignedOut, TypeOK
<1>25. ASSUME NEW t \in Threads, RevokeConfirmed(t) PROVE TypeOK'
  BY <1>24, <1>25, RevokedTyped DEF RevokeConfirmed, Step, TypeOK, PCs
<1>26. ASSUME NEW t \in Threads, RevokeGivesUp(t) PROVE TypeOK'
  <2>1. Held(t) \in Tokens
    BY <1>26, RecordsTyped DEF RevokeGivesUp, Step, Row, ReadsFile, HandAsSaid, Readers, TypeOK,
       Stored, Held
  <2>. QED
    BY <1>24, <1>26, <2>1 DEF RevokeGivesUp, Step, outside, TypeOK, PCs
<1>27. \A S \in SUBSET Threads : (\E t \in S : Replacing(t)) => Stored \in Tokens
  BY RecordsTyped DEF Replacing, Row, WritesAsSaid, TypeOK, Stored
<1>28. \A S \in SUBSET Threads : Lost(S) \subseteq Tokens
  BY <1>27 DEF Lost, TypeOK, Stored
<1>29. ASSUME NEW t \in Threads, WriteFails(t) PROVE TypeOK'
  BY <1>28, <1>29, OverTyped, UnlockTyped DEF WriteFails, TypeOK
<1>30. ASSUME NEW p \in Processes, Crash(p) PROVE TypeOK'
  BY <1>28, <1>30, RecordsTyped DEF Crash, Of, TypeOK, PCs, Attempts
<1>31. CASE UNCHANGED vars
  BY <1>31 DEF vars, threadVars, TypeOK
<1>. QED
  BY <1>1, <1>2, <1>3, <1>4, <1>5, <1>6, <1>7, <1>8, <1>9, <1>10, <1>11, <1>13, <1>14, <1>15,
     <1>16, <1>17, <1>18, <1>19, <1>20, <1>21, <1>22, <1>23, <1>25, <1>26, <1>29, <1>30, <1>31
     DEF Next, CallStep, Locking, Sections, Answers, AllOver

-----------------------------------------------------------------------------
(* What a step of the threads S may do to the others.                      *)

\* It leaves the others where they are and what they have,
Aside(S) ==
  /\ \A u \in Threads \ S :
       /\ pc'[u] = pc[u] /\ section'[u] = section[u] /\ copy'[u] = copy[u]
       /\ client'[u] = client[u] /\ hand'[u] = hand[u]
  /\ flock' = flock \/ flock \in S \cup {None}

\* changes the file only with the lock, to a token of its own or to none,
FileMoves(S) ==
  /\ file' = file \/ flock \in S
  /\ Stored' \in {0, Stored} \/ \E t \in S : Stored' \in hand[t]

\* ends at OpenAI only what is stored or what it has in hand,
OpenaiMoves(S) ==
  \A n \in Tokens :
    /\ openai[n] # "unissued" => openai'[n] # "unissued"
    /\ openai[n] \in {"spent", "dead"} => openai'[n] = openai[n]
    /\ openai[n] = "live" /\ openai'[n] # "live" =>
         n = Stored \/ \E t \in S : n \in hand[t]

\* takes in hand only new tokens, and with the lock the stored one,
HandsMove(S) ==
  /\ \A t \in S : \A n \in hand'[t] :
       n \in hand[t] \/ openai[n] = "unissued" \/ (n = Stored /\ flock \in S)
  /\ \A t, u \in S : t # u => hand'[t] \cap hand'[u] = {}

\* and accounts for what it takes, lets go of, or replaces.
Accounted(S) ==
  /\ excused \subseteq excused'
  /\ \A n \in Tokens :
       openai'[n] = "live" /\ (openai[n] # "live" \/ n = Stored \/ \E t \in S : n \in hand[t])
         => n = Stored' \/ n \in excused' \/ \E t \in S : n \in hand'[t]
  /\ Stored' # 0 /\ openai'[Stored'] = "spent" =>
       \/ Stored' \in excused' \/ \E t \in S : Replacing(t)'
       \/ Stored' = Stored /\ openai[Stored] = "spent" /\ \A t \in S : ~Replacing(t)

Moves(S) == Aside(S) /\ FileMoves(S) /\ OpenaiMoves(S) /\ HandsMove(S) /\ Accounted(S)

\* Such a step keeps what the invariant says of the others, and of all together.
LEMMA OthersKeep ==
  ASSUME IInv, TypeOK', NEW S \in SUBSET Threads, Moves(S)
  PROVE  /\ \A u \in Threads \ S : Row(u)'
         /\ NoTwoHands' /\ StoredIsIssued' /\ SpentIsReplaced' /\ LiveIsHeld'
<1>. USE DEF IInv, Moves
<1>0. Stored \in Tokens \cup {0} /\ Stored' \in Tokens \cup {0}
  BY RecordsTyped DEF TypeOK, Stored
<1>1. \A u \in Threads : /\ hand[u] \subseteq Tokens /\ HasLock(u) /\ OwnHand(u)
                         /\ \A n \in hand[u] : openai[n] # "unissued"
  BY DEF TypeOK, Row, OwnHand
<1>2. ASSUME NEW u \in Threads \ S, NEW n \in hand[u]
      PROVE  openai[n] # "unissued" /\ \A t \in S : n \notin hand[t] /\ n \notin hand'[t]
  <2>1. \A t \in S : n \notin hand[t]
    BY DEF NoTwoHands
  <2>2. n = Stored => flock = u
    BY <1>1 DEF OwnHand, HasLock, Holds
  <2>. QED
    BY <1>1, <2>1, <2>2 DEF HandsMove
<1>3. ASSUME NEW u \in Threads \ S, Holds(u) PROVE file' = file /\ flock' = flock /\ flock = u
  BY <1>1, <1>3 DEF HasLock, Aside, FileMoves
<1>4. ASSUME NEW u \in Threads \ S PROVE Stored' \in hand[u] => Stored' = Stored
  BY <1>0, <1>1, <1>2 DEF FileMoves, Tokens
<1>5. ASSUME NEW u \in Threads \ S, NEW n \in hand[u], n # Stored
      PROVE  openai[n] = "live" => openai'[n] = "live"
  BY <1>1, <1>2, <1>5 DEF OpenaiMoves
<1>6. ASSUME NEW u \in Threads \ S PROVE Row(u)'
  <2>0. Row(u)
    OBVIOUS
  <2>1. /\ pc'[u] = pc[u] /\ section'[u] = section[u] /\ copy'[u] = copy[u]
        /\ client'[u] = client[u] /\ hand'[u] = hand[u]
    BY DEF Aside
  <2>2. HasLock(u)' /\ ReadsFile(u)'
    BY <1>3, <2>0, <2>1 DEF Row, HasLock, ReadsFile, Holds
  <2>3. OwnHand(u)'
    BY <1>1, <1>4, <2>0, <2>1 DEF Row, OwnHand, OpenaiMoves
  <2>4. pc[u] # "writing" /\ Granted(u) => Granted(u)'
    BY <1>1, <1>5, <2>0, <2>1 DEF Row, OwnHand, Granted
  <2>5. Holds(u) => Stored' = Stored
    BY <1>3 DEF Stored
  <2>6. HandAsSaid(u)'
    BY <2>0, <2>1, <2>4, <2>5 DEF Row, HandAsSaid, Storing, Waits, Holds, Readers
  <2>7. WritesAsSaid(u)'
    <3>. SUFFICES ASSUME pc[u] = "writing" PROVE WritesAsSaid(u)'
      BY <2>1 DEF WritesAsSaid
    <3>1. file' = file /\ Stored' = Stored /\ Stored \in Tokens
      BY <1>0, <1>3, <2>0 DEF Row, WritesAsSaid, Holds, Stored
    <3>2. /\ openai[Stored] = "spent" => openai'[Stored] = "spent"
          /\ openai[Stored] # "live" => openai'[Stored] # "live"
      <4>1. openai[Stored] \in {"unissued", "live", "spent", "dead"} /\ openai[Stored] # "unissued"
        BY <3>1 DEF TypeOK, StoredIsIssued, Tokens
      <4>. QED
        BY <3>1, <4>1 DEF OpenaiMoves
    <3>3. Rewrites(u) => Rewrites(u)'
      BY <2>1, <3>1 DEF Rewrites
    <3>4. Ends(u) => Ends(u)'
      BY <2>1, <3>1, <3>2 DEF Ends
    <3>5. section[u] = "access" /\ Replaces(u) => Replaces(u)'
      <4>. SUFFICES ASSUME section[u] = "access", Replaces(u) PROVE Replaces(u)'
        OBVIOUS
      <4>1. Stored \notin hand[u]
        BY <1>1 DEF OwnHand, SignOutSections
      <4>2. Granted(u)'
        BY <1>1, <1>5, <2>1, <4>1 DEF Replaces, Granted
      <4>. QED
        BY <2>1, <3>1, <3>2, <4>2 DEF Replaces, Held
    <3>. QED
      BY <2>0, <2>1, <3>1, <3>3, <3>4, <3>5 DEF Row, WritesAsSaid
  <2>. QED
    BY <2>2, <2>3, <2>6, <2>7 DEF Row
<1>7. NoTwoHands'
  BY <1>2 DEF NoTwoHands, HandsMove, Aside
<1>8. StoredIsIssued'
  BY <1>0, <1>1 DEF StoredIsIssued, FileMoves, OpenaiMoves
<1>9. SpentIsReplaced'
  BY DEF SpentIsReplaced, Accounted, Aside, Replacing
<1>10. LiveIsHeld'
  <2>. SUFFICES ASSUME NEW n \in Tokens, openai'[n] = "live"
                PROVE  n = Stored' \/ n \in excused' \/ \E t \in Threads : n \in hand'[t]
    BY DEF LiveIsHeld, Stored
  <2>1. CASE openai[n] # "live" \/ n = Stored \/ \E t \in S : n \in hand[t]
    BY <2>1 DEF Accounted
  <2>2. CASE openai[n] = "live" /\ n # Stored /\ \A t \in S : n \notin hand[t]
    BY <2>2 DEF LiveIsHeld, Stored, Accounted, Aside
  <2>. QED
    BY <2>1, <2>2
<1>. QED
  BY <1>6, <1>7, <1>8, <1>9, <1>10

-----------------------------------------------------------------------------
(* A step of one thread.                                                   *)

\* It is enough to say of the thread that steps what the invariant says of it.
LEMMA OneKeeps ==
  ASSUME IInv, TypeOK', NEW t \in Threads, Moves({t}), Row(t)', SessionIsRegistered'
  PROVE  IInv'
<1>1. \A u \in Threads \ {t} : Row(u)'
  BY OthersKeep
<1>2. NoTwoHands' /\ StoredIsIssued' /\ SpentIsReplaced' /\ LiveIsHeld'
  BY OthersKeep
<1>. QED
  BY <1>1, <1>2 DEF IInv

\* A thread whose call is over has nothing, and needs nothing.
LEMMA OverRow == ASSUME TypeOK, NEW t \in Threads, Over(t) PROVE Row(t)' /\ hand'[t] = {}
  BY DEF TypeOK, Over, Row, HasLock, ReadsFile, HandAsSaid, WritesAsSaid, OwnHand, Holds, Readers,
     Storing, Waits

\* It keeps the lock as it is, or lets go of its own.
LetsGo(t) == flock' = flock \/ (flock' = None /\ flock \in {t, None})

\* What such steps have in common: no other thread's row, and the lock.
LEMMA OverAside ==
  ASSUME TypeOK, NEW t \in Threads, Over(t),
         LetsGo(t)
  PROVE  Aside({t}) /\ HandsMove({t})
  BY OverRow DEF LetsGo, TypeOK, Over, Aside, HandsMove

\* A step that changes neither the token in the file nor what OpenAI thinks of any,
\* and keeps what is in hand, or says that it is lost.
LEMMA QuietMoves ==
  ASSUME IInv, NEW t \in Threads, Aside({t}), openai' = openai, excused \subseteq excused',
         file' = file \/ flock = t, Stored' = Stored,
         hand'[t] = hand[t] \/ (hand'[t] = {} /\ hand[t] \subseteq excused'),
         ~Replacing(t)
  PROVE  Moves({t})
<1>1. FileMoves({t})
  BY DEF FileMoves
<1>2. OpenaiMoves({t})
  BY DEF OpenaiMoves
<1>3. HandsMove({t})
  BY DEF HandsMove
<1>4. Accounted({t})
  BY DEF Accounted
<1>. QED
  BY <1>1, <1>2, <1>3, <1>4 DEF Moves

\* A call that ends with nothing in hand but what it lost.
LEMMA QuietEnd ==
  ASSUME IInv, TypeOK', NEW t \in Threads, Over(t), openai' = openai, excused \subseteq excused',
         file' = file \/ flock = t, Stored' = Stored, SessionIsRegistered',
         LetsGo(t),
         hand[t] \subseteq excused', ~Replacing(t)
  PROVE  IInv'
<1>1. Row(t)' /\ hand'[t] = {} /\ Aside({t})
  BY OverRow, OverAside DEF IInv
<1>2. Moves({t})
  BY <1>1, QuietMoves
<1>. QED
  BY <1>1, <1>2, OneKeeps

\* One that goes on with what it has in hand.
LEMMA QuietStep ==
  ASSUME IInv, TypeOK', NEW t \in Threads, openai' = openai, excused' = excused, file' = file,
         Aside({t}), hand' = hand, ~Replacing(t), Row(t)'
  PROVE  IInv'
<1>1. Moves({t})
  BY QuietMoves DEF Stored
<1>2. SessionIsRegistered'
  BY DEF IInv, SessionIsRegistered
<1>. QED
  BY <1>1, <1>2, OneKeeps

\* What the invariant says of a thread in a section, or posting from one.
LEMMA Inside ==
  ASSUME IInv, NEW t \in Threads
  PROVE  /\ \A s \in LockedSections : In(t, s) =>
              flock = t /\ copy[t] = file /\ (s # "store" => hand[t] = {})
         /\ pc[t] \in {"refreshing", "revoking"} =>
              flock = t /\ copy[t] = file /\ hand[t] = {} /\ Stored \in Tokens
         /\ pc[t] = "writing" => flock = t /\ Stored \in Tokens
         /\ pc[t] \in {"idle", "browser", "exchanging", "noticing"} => hand[t] = {}
<1>1. HasLock(t) /\ ReadsFile(t) /\ HandAsSaid(t) /\ WritesAsSaid(t)
  BY DEF IInv, Row
<1>2. Stored \in Tokens \cup {0}
  BY RecordsTyped DEF IInv, TypeOK, Stored
<1>3. \A s \in LockedSections : In(t, s) =>
        flock = t /\ copy[t] = file /\ (s # "store" => hand[t] = {})
  BY <1>1 DEF HasLock, ReadsFile, HandAsSaid, Holds, Readers, In, Storing
<1>4. pc[t] \in {"refreshing", "revoking"} =>
        flock = t /\ copy[t] = file /\ hand[t] = {} /\ Stored \in Tokens
  BY <1>1, <1>2 DEF HasLock, ReadsFile, HandAsSaid, Holds, Readers, Storing, Waits
<1>5. pc[t] = "writing" => flock = t /\ Stored \in Tokens
  BY <1>1, <1>2 DEF HasLock, WritesAsSaid, Holds
<1>6. pc[t] \in {"idle", "browser", "exchanging", "noticing"} => hand[t] = {}
  BY <1>1 DEF HandAsSaid, Storing, Waits
<1>. QED
  BY <1>3, <1>4, <1>5, <1>6

\* The calls that end here change nothing that is kept.
LEMMA EndsQuietly ==
  ASSUME IInv, TypeOK', NEW t \in Threads,
         \/ LockTimesOut(t) \/ BrowserEnds(t) \/ CheckRefuses(t) \/ ExchangeRefused(t)
         \/ AccessReturns(t) \/ NotRefreshed(t)
  PROVE  IInv'
<1>1. Over(t) /\ openai' = openai /\ file' = file /\ excused \subseteq excused'
  BY DEF LockTimesOut, BrowserEnds, CheckRefuses, ExchangeRefused, AccessReturns, NotRefreshed,
     outside
<1>2. Stored' = Stored /\ SessionIsRegistered'
  BY <1>1 DEF Stored, IInv, SessionIsRegistered
<1>3. LetsGo(t)
  BY Inside DEF LetsGo, LockTimesOut, BrowserEnds, CheckRefuses, ExchangeRefused, AccessReturns,
     NotRefreshed, Unlock, LockedSections
<1>4. hand[t] \subseteq excused' /\ pc[t] # "writing"
  BY Inside DEF LockTimesOut, BrowserEnds, CheckRefuses, ExchangeRefused, AccessReturns,
     NotRefreshed, In, LockedSections
<1>. QED
  BY <1>1, <1>2, <1>3, <1>4, QuietEnd DEF Replacing

\* So do these, which write everything but the session.
LEMMA EndsWriting ==
  ASSUME IInv, TypeOK', NEW t \in Threads, NoticeSection(t) \/ NothingToRevoke(t)
  PROVE  IInv'
<1>0. flock = t /\ copy[t] = file /\ hand[t] = {} /\ file \in File /\ pc[t] = "locked"
  BY Inside DEF NoticeSection, NothingToRevoke, In, LockedSections, SignOutSections, IInv, TypeOK
<1>1. Over(t) /\ openai' = openai /\ excused' = excused /\ flock' = None
  BY DEF NoticeSection, NothingToRevoke, outside, Unlock
<1>2. file'.session = file.session
  BY <1>0 DEF NoticeSection, NothingToRevoke, Forgotten, File
<1>3. file'.account = file.account \/ file'.session = NoSession
  <2>1. CASE NoticeSection(t)
    BY <1>0, <2>1 DEF NoticeSection, File
  <2>2. CASE NothingToRevoke(t)
    <3>1. file.session = NoSession
      BY <1>0, <2>2, RecordsTyped DEF NothingToRevoke, Held
    <3>. QED
      BY <1>2, <3>1
  <2>. QED
    BY <2>1, <2>2
<1>4. Stored' = Stored /\ SessionIsRegistered'
  BY <1>2, <1>3 DEF Stored, IInv, SessionIsRegistered
<1>. QED
  BY <1>0, <1>1, <1>4, QuietEnd DEF Replacing, LetsGo

\* The calls that go on here change nothing that is kept either.
LEMMA GoesOnQuietly ==
  ASSUME IInv, TypeOK', NEW t \in Threads,
         \/ \E s \in {"start", "access"} \cup SignOutSections : Call(t, s)
         \/ EnterProcess(t) \/ TryLock(t) \/ BrowserAnswers(t) \/ Acknowledge(t)
         \/ CheckPasses(t) \/ AccessDue(t) \/ NotRotated(t) \/ Revoking(t)
  PROVE  IInv'
<1>0. TypeOK /\ Row(t)
  BY DEF IInv
<1>q. ASSUME UNCHANGED <<openai, excused, file, hand>>, pc[t] # "writing", Aside({t}), Row(t)'
      PROVE  IInv'
  BY <1>q, QuietStep DEF Replacing
<1>. USE DEF outside, Enter, Step, TypeOK, Row, HasLock, ReadsFile, HandAsSaid, WritesAsSaid,
         OwnHand, Holds, Readers, Storing, Waits, In
<1>1. ASSUME NEW s \in {"start", "access"} \cup SignOutSections, Call(t, s) PROVE IInv'
  <2>1. UNCHANGED <<openai, excused, file, hand>> /\ pc[t] # "writing" /\ Aside({t})
    BY <1>0, <1>1 DEF Call, Aside
  <2>2. Row(t)'
    BY <1>0, <1>1 DEF Call, SignOutSections
  <2>. QED
    BY <1>q, <2>1, <2>2
<1>2. CASE EnterProcess(t)
  <2>1. UNCHANGED <<openai, excused, file, hand>> /\ pc[t] # "writing" /\ Aside({t})
    BY <1>0, <1>2 DEF EnterProcess, Aside
  <2>2. Row(t)'
    BY <1>0, <1>2 DEF EnterProcess, Granted, Stored
  <2>. QED
    BY <1>q, <2>1, <2>2
<1>3. CASE TryLock(t)
  <2>1. UNCHANGED <<openai, excused, file, hand>> /\ pc[t] # "writing" /\ Aside({t})
    BY <1>0, <1>3 DEF TryLock, LockIsFree, Aside
  <2>2. Row(t)'
    BY <1>0, <1>3 DEF TryLock, Granted, Stored
  <2>. QED
    BY <1>q, <2>1, <2>2
<1>4. CASE BrowserAnswers(t) \/ Acknowledge(t)
  <2>1. UNCHANGED <<openai, excused, file, hand>> /\ pc[t] # "writing" /\ Aside({t})
    BY <1>0, <1>4 DEF BrowserAnswers, Acknowledge, Aside
  <2>2. Row(t)'
    BY <1>0, <1>4 DEF BrowserAnswers, Acknowledge
  <2>. QED
    BY <1>q, <2>1, <2>2
<1>5. CASE CheckPasses(t)
  <2>1. UNCHANGED <<openai, excused, file, hand>> /\ pc[t] # "writing" /\ Aside({t})
    BY <1>0, <1>5 DEF CheckPasses, Unlock, DoneWithCopy, Aside
  <2>2. Row(t)'
    BY <1>0, <1>5 DEF CheckPasses, ClientOf, File
  <2>. QED
    BY <1>q, <2>1, <2>2
<1>6. CASE AccessDue(t)
  <2>1. UNCHANGED <<openai, excused, file, hand>> /\ pc[t] # "writing" /\ Aside({t})
    BY <1>0, <1>6 DEF AccessDue, Keeps, Aside
  <2>2. Row(t)'
    BY <1>0, <1>6 DEF AccessDue, Keeps, Held, Stored
  <2>. QED
    BY <1>q, <2>1, <2>2
<1>7. CASE NotRotated(t)
  <2>1. UNCHANGED <<openai, excused, file, hand>> /\ pc[t] # "writing" /\ Aside({t})
    BY <1>0, <1>7 DEF NotRotated, Aside
  <2>2. Row(t)'
    BY <1>0, <1>7 DEF NotRotated, Rewrites, Stored
  <2>. QED
    BY <1>q, <2>1, <2>2
<1>8. CASE Revoking(t)
  <2>1. UNCHANGED <<openai, excused, file, hand>> /\ pc[t] # "writing" /\ Aside({t})
    BY <1>0, <1>8 DEF Revoking, Keeps, Aside
  <2>2. Row(t)'
    BY <1>0, <1>8 DEF Revoking, Keeps, Held, Stored, SignOutSections
  <2>. QED
    BY <1>q, <2>1, <2>2
<1>. QED
  BY <1>1, <1>2, <1>3, <1>4, <1>5, <1>6, <1>7, <1>8

\* start writes everything but the session, and goes on to the browser.
LEMMA StartKeeps == ASSUME IInv, TypeOK', NEW t \in Threads, StartSection(t) PROVE IInv'
<1>0. flock = t /\ copy[t] = file /\ hand[t] = {} /\ pc[t] = "locked" /\ section[t] = "start"
  BY Inside DEF StartSection, In, LockedSections
<1>t. TypeOK
  BY DEF IInv
<1>1. file'.session = file.session /\ file'.account = file.account
  BY <1>0, <1>t DEF StartSection, TypeOK, File
<1>2. Stored' = Stored /\ SessionIsRegistered'
  BY <1>1 DEF Stored, IInv, SessionIsRegistered
<1>3. UNCHANGED <<openai, excused, hand>> /\ Aside({t})
  BY <1>0, <1>t DEF StartSection, Step, Unlock, DoneWithCopy, outside, Aside, TypeOK
<1>4. Moves({t})
  BY <1>0, <1>2, <1>3, QuietMoves DEF Replacing
<1>5. Row(t)'
  BY <1>0, <1>3, <1>t DEF StartSection, Step, TypeOK, Row, HasLock, ReadsFile, HandAsSaid,
     WritesAsSaid, OwnHand, Holds, Readers, Storing, Waits
<1>. QED
  BY <1>2, <1>4, <1>5, OneKeeps

-----------------------------------------------------------------------------
(* The steps that move a token.                                            *)

\* A token OpenAI issues is nowhere yet.
LEMMA FreshIsNew ==
  ASSUME IInv, NEW n \in Tokens, Fresh(n)
  PROVE  openai[n] = "unissued" /\ n # Stored /\ \A t \in Threads : n \notin hand[t]
<1>1. openai[n] = "unissued" /\ n # 0
  BY DEF Fresh, Unissued, Tokens
<1>2. n # Stored
  BY <1>1 DEF IInv, StoredIsIssued
<1>3. \A t \in Threads : n \notin hand[t]
  BY <1>1 DEF IInv, Row, OwnHand
<1>. QED
  BY <1>1, <1>2, <1>3

LEMMA ExchangedKeeps == ASSUME IInv, TypeOK', NEW t \in Threads, Exchanged(t) PROVE IInv'
<1>t. TypeOK /\ Row(t)
  BY DEF IInv
<1>1. PICK n \in Tokens : /\ Fresh(n)
                          /\ openai' = [openai EXCEPT ![n] = "live"]
                          /\ hand' = [hand EXCEPT ![t] = {n}]
  BY DEF Exchanged
<1>2. openai[n] = "unissued" /\ n # Stored /\ \A u \in Threads : n \notin hand[u]
  BY <1>1, FreshIsNew
<1>3. hand[t] = {} /\ hand'[t] = {n} /\ openai'[n] = "live" /\ UNCHANGED <<file, excused>>
      /\ \A m \in Tokens \ {n} : openai'[m] = openai[m]
  BY <1>t, <1>1, Inside DEF Exchanged, Enter, Step, TypeOK
<1>4. Stored' = Stored /\ SessionIsRegistered'
  BY <1>3 DEF Stored, IInv, SessionIsRegistered
<1>5. Aside({t})
  BY <1>t, <1>1 DEF Aside, Exchanged, Enter, Step, TypeOK
<1>6. FileMoves({t}) /\ OpenaiMoves({t}) /\ HandsMove({t})
  BY <1>2, <1>3, <1>4 DEF FileMoves, OpenaiMoves, HandsMove
<1>7. Accounted({t})
  BY <1>2, <1>3, <1>4 DEF Accounted, Exchanged, Enter, Step, Replacing
<1>8. Row(t)'
  <2>1. pc'[t] = "waiting" /\ section'[t] = "store" /\ client'[t] \in Accounts
    BY <1>t DEF Exchanged, Enter, Step, TypeOK, Row, HandAsSaid
  <2>2. Granted(t)'
    BY <1>3 DEF Granted
  <2>. QED
    BY <1>2, <1>3, <1>4, <2>1, <2>2 DEF Row, HasLock, ReadsFile, HandAsSaid, WritesAsSaid, OwnHand,
       Holds, Readers, Storing, Waits
<1>. QED
  BY <1>4, <1>5, <1>6, <1>7, <1>8, OneKeeps DEF Moves

\* A token granted or spent in vain is one the machine is not asked to keep.
LEMMA WastedKeeps == ASSUME IInv, TypeOK', NEW t \in Threads, ExchangeWasted(t) PROVE IInv'
<1>t. TypeOK
  BY DEF IInv
<1>1. PICK n \in Tokens : /\ Fresh(n)
                          /\ openai' = [openai EXCEPT ![n] = "live"]
                          /\ excused' = excused \cup {n}
  BY DEF ExchangeWasted
<1>2. openai[n] = "unissued" /\ n # Stored /\ \A u \in Threads : n \notin hand[u]
  BY <1>1, FreshIsNew
<1>3. /\ hand[t] = {} /\ openai'[n] = "live" /\ UNCHANGED <<file, flock>> /\ pc[t] = "exchanging"
      /\ \A m \in Tokens \ {n} : openai'[m] = openai[m]
      /\ Over(t)
  BY <1>t, <1>1, Inside DEF ExchangeWasted, TypeOK
<1>4. Stored' = Stored /\ SessionIsRegistered'
  BY <1>3 DEF Stored, IInv, SessionIsRegistered
<1>5. Aside({t}) /\ HandsMove({t}) /\ Row(t)' /\ hand'[t] = {}
  BY <1>t, <1>3, OverRow, OverAside DEF LetsGo
<1>6. FileMoves({t}) /\ OpenaiMoves({t})
  BY <1>2, <1>3, <1>4 DEF FileMoves, OpenaiMoves
<1>7. Accounted({t})
  BY <1>1, <1>2, <1>3, <1>4 DEF Accounted, Replacing
<1>. QED
  BY <1>4, <1>5, <1>6, <1>7, OneKeeps DEF Moves

LEMMA RefreshLostKeeps == ASSUME IInv, TypeOK', NEW t \in Threads, RefreshLost(t) PROVE IInv'
<1>t. TypeOK
  BY DEF IInv
<1>h. Held(t) = Stored /\ Stored \in Tokens /\ hand[t] = {} /\ flock = t /\ pc[t] = "refreshing"
  BY Inside DEF RefreshLost, Held, Stored
<1>1. PICK n \in Tokens : /\ openai[Stored] = "live" /\ Fresh(n)
                          /\ openai' = [openai EXCEPT ![Stored] = "spent", ![n] = "live"]
                          /\ excused' = excused \cup {Stored, n}
  BY <1>h DEF RefreshLost, Rotates
<1>2. openai[n] = "unissued" /\ n # Stored /\ \A u \in Threads : n \notin hand[u]
  BY <1>1, FreshIsNew
<1>3. /\ openai'[n] = "live" /\ openai'[Stored] = "spent" /\ file' = file
      /\ \A m \in Tokens \ {n, Stored} : openai'[m] = openai[m]
      /\ Over(t) /\ flock' = None
  BY <1>t, <1>h, <1>1, <1>2 DEF RefreshLost, Unlock, TypeOK
<1>4. Stored' = Stored /\ SessionIsRegistered'
  BY <1>3 DEF Stored, IInv, SessionIsRegistered
<1>5. Aside({t}) /\ HandsMove({t}) /\ Row(t)' /\ hand'[t] = {}
  BY <1>t, <1>h, <1>3, OverRow, OverAside DEF LetsGo
<1>6. FileMoves({t}) /\ OpenaiMoves({t})
  BY <1>1, <1>2, <1>3, <1>4 DEF FileMoves, OpenaiMoves
<1>7. Accounted({t})
  BY <1>h, <1>1, <1>2, <1>3, <1>4 DEF Accounted, Replacing
<1>. QED
  BY <1>4, <1>5, <1>6, <1>7, OneKeeps DEF Moves

\* The replacement goes to the hand, and the token it replaces is spent.
LEMMA RotatedKeeps == ASSUME IInv, TypeOK', NEW t \in Threads, Rotated(t) PROVE IInv'
<1>t. TypeOK /\ Row(t)
  BY DEF IInv
<1>h. /\ Held(t) = Stored /\ Stored \in Tokens /\ hand[t] = {} /\ flock = t /\ pc[t] = "refreshing"
      /\ copy[t] = file /\ section[t] = "access"
  BY <1>t, Inside DEF Rotated, Step, Held, Stored, Row, HandAsSaid
<1>1. PICK n \in Tokens : /\ openai[Stored] = "live" /\ Fresh(n)
                          /\ openai' = [openai EXCEPT ![Stored] = "spent", ![n] = "live"]
                          /\ copy' = [copy EXCEPT ![t].session.token = n]
                          /\ hand' = [hand EXCEPT ![t] = {n}]
  BY <1>h DEF Rotated, Rotates
<1>2. openai[n] = "unissued" /\ n # Stored /\ \A u \in Threads : n \notin hand[u]
  BY <1>1, FreshIsNew
<1>3. /\ openai'[n] = "live" /\ openai'[Stored] = "spent" /\ UNCHANGED <<file, flock, excused>>
      /\ \A m \in Tokens \ {n, Stored} : openai'[m] = openai[m]
      /\ hand'[t] = {n} /\ pc'[t] = "writing" /\ section'[t] = "access"
  BY <1>t, <1>h, <1>1, <1>2 DEF Rotated, Step, TypeOK
<1>4. Stored' = Stored /\ SessionIsRegistered'
  BY <1>3 DEF Stored, IInv, SessionIsRegistered
<1>5. Aside({t})
  BY <1>t, <1>1 DEF Aside, Rotated, Step, TypeOK
<1>6. FileMoves({t}) /\ OpenaiMoves({t}) /\ HandsMove({t})
  BY <1>1, <1>2, <1>3, <1>4 DEF FileMoves, OpenaiMoves, HandsMove
<1>7. Accounted({t})
  BY <1>h, <1>1, <1>2, <1>3, <1>4 DEF Accounted, Replacing
<1>8. copy'[t] = [file EXCEPT !.session.token = n] /\ Held(t)' = n
  <2>1. copy'[t] = [copy[t] EXCEPT !.session.token = n]
    BY <1>t, <1>1 DEF TypeOK
  <2>2. file.session \in Session
    BY <1>t DEF TypeOK, File
  <2>3. [file EXCEPT !.session.token = n].session.token = n
    BY <1>t, <2>2 DEF TypeOK, File, Session, NoSession
  <2>. QED
    BY <1>h, <2>1, <2>3 DEF Held
<1>9. Replaces(t)'
  BY <1>3, <1>4, <1>8 DEF Replaces, Granted
<1>10. Row(t)'
  BY <1>h, <1>2, <1>3, <1>4, <1>9 DEF Row, HasLock, ReadsFile, HandAsSaid,
     WritesAsSaid, OwnHand, Holds, Readers, Storing, Waits, Tokens
<1>. QED
  BY <1>4, <1>5, <1>6, <1>7, <1>10, OneKeeps DEF Moves

\* What a revocation does to the tokens it is about, and to no other.
LEMMA RevokedIs ==
  ASSUME TypeOK, NEW S, Revoked(S)
  PROVE  \A n \in Tokens : /\ n \in S => openai'[n] # "live"
                           /\ n \notin S \/ openai[n] # "live" => openai'[n] = openai[n]
                           /\ openai[n] # "unissued" => openai'[n] # "unissued"
                           /\ openai'[n] # "dead" => openai'[n] = openai[n]
  BY DEF Revoked, TypeOK

\* The stored token is revoked, or ended, and the session is about to go.
LEMMA EndsKeeps ==
  ASSUME IInv, TypeOK', NEW t \in Threads, Unusable(t) \/ RevokeConfirmed(t) \/ RevokeGivesUp(t)
  PROVE  IInv'
<1>t. TypeOK /\ Row(t)
  BY DEF IInv
<1>h. /\ pc[t] \in {"refreshing", "revoking"}
      /\ Unusable(t) => pc[t] = "refreshing"
      /\ ~Unusable(t) => pc[t] = "revoking"
  BY DEF Unusable, RevokeConfirmed, RevokeGivesUp, Step
<1>i. /\ Held(t) = Stored /\ Stored \in Tokens /\ hand[t] = {} /\ flock = t /\ copy[t] = file
      /\ Unusable(t) => section[t] = "access"
      /\ ~Unusable(t) => section[t] \in SignOutSections
  BY <1>t, <1>h, Inside DEF Held, Stored, Row, HandAsSaid
<1>1. /\ UNCHANGED <<file, flock, section, client, excused>> /\ pc'[t] = "writing"
      /\ Aside({t})
  BY <1>t DEF Unusable, RevokeConfirmed, RevokeGivesUp, Step, TypeOK, outside, Aside
<1>2. copy'[t].session = NoSession
  <2>1. copy[t] \in File
    BY <1>t DEF TypeOK
  <2>2. Cleared(copy[t]).session = NoSession /\ Forgotten(Cleared(copy[t])).session = NoSession
    BY <2>1 DEF Cleared, Forgotten, File
  <2>. QED
    BY <1>t, <2>2 DEF Unusable, RevokeConfirmed, RevokeGivesUp, SignedOut, TypeOK
<1>3. \/ hand'[t] = {} /\ Revoked({Stored})
      \/ hand'[t] = {Stored} /\ openai' = openai /\ section[t] \in SignOutSections
  BY <1>t, <1>i DEF Unusable, RevokeConfirmed, RevokeGivesUp, TypeOK, outside
<1>4. Stored' = Stored /\ SessionIsRegistered'
  BY <1>1 DEF Stored, IInv, SessionIsRegistered
<1>5. FileMoves({t}) /\ HandsMove({t})
  BY <1>1, <1>3, <1>4, <1>i DEF FileMoves, HandsMove
<1>6. OpenaiMoves({t})
  BY <1>t, <1>3, RevokedIs DEF OpenaiMoves
<1>7. Accounted({t})
  BY <1>t, <1>h, <1>i, <1>1, <1>3, <1>4, RevokedIs DEF Accounted, Replacing
<1>8. Ends(t)'
  BY <1>t, <1>i, <1>1, <1>2, <1>3, <1>4, RevokedIs DEF Ends
<1>9. OwnHand(t)'
  BY <1>t, <1>i, <1>1, <1>3, <1>4 DEF OwnHand, IInv, StoredIsIssued, Tokens
<1>10. Row(t)'
  BY <1>i, <1>h, <1>1, <1>4, <1>8, <1>9 DEF Row, HasLock, ReadsFile, HandAsSaid, WritesAsSaid,
     Holds, Readers, Storing, Waits, Tokens
<1>. QED
  BY <1>1, <1>4, <1>5, <1>6, <1>7, <1>10, OneKeeps DEF Moves

LEMMA RevokeAgainKeeps == ASSUME IInv, TypeOK', NEW t \in Threads, RevokeAgain(t) PROVE IInv'
<1>t. TypeOK /\ Row(t)
  BY DEF IInv
<1>i. /\ Held(t) = Stored /\ Stored \in Tokens /\ hand[t] = {} /\ flock = t /\ copy[t] = file
      /\ pc[t] = "revoking"
  BY Inside DEF RevokeAgain, Held, Stored
<1>1. UNCHANGED <<file, flock, pc, section, copy, client, hand, excused>> /\ Aside({t})
  BY DEF RevokeAgain, Aside
<1>2. openai' = openai \/ Revoked({Stored})
  BY <1>t, <1>i DEF RevokeAgain, Revoked, TypeOK
<1>4. Stored' = Stored /\ SessionIsRegistered'
  BY <1>1 DEF Stored, IInv, SessionIsRegistered
<1>5. FileMoves({t}) /\ HandsMove({t})
  BY <1>1, <1>4, <1>i DEF FileMoves, HandsMove
<1>6. OpenaiMoves({t})
  BY <1>t, <1>2, RevokedIs DEF OpenaiMoves
<1>7. Accounted({t})
  BY <1>t, <1>i, <1>1, <1>2, <1>4, RevokedIs DEF Accounted, Replacing
<1>8. Row(t)'
  BY <1>t, <1>i, <1>1, <1>4 DEF Row, HasLock, ReadsFile, HandAsSaid, WritesAsSaid, OwnHand,
     Holds, Readers, Storing, Waits
<1>. QED
  BY <1>1, <1>4, <1>5, <1>6, <1>7, <1>8, OneKeeps DEF Moves

\* A sign-in's grant goes from the hand to the file, and the token that was there
\* to the hand.
LEMMA StoreKeeps == ASSUME IInv, TypeOK', NEW t \in Threads, Store(t) PROVE IInv'
<1>t. TypeOK /\ Row(t) /\ Stored \in Tokens \cup {0}
  BY RecordsTyped DEF IInv, TypeOK, Stored
<1>1. flock = t /\ copy[t] = file /\ pc[t] = "locked" /\ section[t] = "store"
  BY Inside DEF Store, In, LockedSections
<1>2. PICK n \in Tokens : hand[t] = {n} /\ openai[n] = "live"
  BY <1>t, <1>1 DEF Row, HandAsSaid, Storing, Waits, Granted
<1>3. client[t] \in Accounts
  BY <1>t, <1>1 DEF Row, HandAsSaid, Storing, Waits
<1>4. /\ file'.session = [token |-> n, account |-> client[t]]
      /\ file'.account = client[t]
  BY <1>t, <1>2, <1>3, SignedIs DEF Store
<1>5. Stored' = n /\ SessionIsRegistered'
  BY <1>4 DEF Stored, SessionIsRegistered
<1>6. n # Stored
  BY <1>t, <1>1, <1>2 DEF Row, OwnHand
<1>7. /\ hand'[t] = {Stored} \ {0} /\ pc'[t] = "revoking_old" /\ flock' = None
      /\ UNCHANGED <<openai, excused>>
  BY <1>t, <1>1 DEF Store, Step, Unlock, outside, Previous, Held, Stored, TypeOK
<1>8. Aside({t})
  BY <1>t, <1>1 DEF Aside, Store, Step, Unlock, outside, TypeOK
<1>9. FileMoves({t}) /\ OpenaiMoves({t}) /\ HandsMove({t})
  BY <1>1, <1>2, <1>5, <1>7 DEF FileMoves, OpenaiMoves, HandsMove
<1>10. Accounted({t})
  BY <1>2, <1>5, <1>7 DEF Accounted, Tokens
<1>11. OwnHand(t)'
  BY <1>5, <1>6, <1>7 DEF OwnHand, IInv, StoredIsIssued
<1>12. Row(t)'
  BY <1>7, <1>11 DEF Row, HasLock, ReadsFile, HandAsSaid, WritesAsSaid, Holds, Readers, Storing, Waits
<1>. QED
  BY <1>5, <1>8, <1>9, <1>10, <1>12, OneKeeps DEF Moves

\* The token that was there is revoked, or OpenAI would not confirm it.
LEMMA OldKeeps ==
  ASSUME IInv, TypeOK', NEW t \in Threads, OldRevoked(t) \/ OldNotRevoked(t) PROVE IInv'
<1>t. TypeOK /\ Row(t)
  BY DEF IInv
<1>1. pc[t] = "revoking_old" /\ Completed(t) /\ UNCHANGED <<file, flock>>
  BY DEF OldRevoked, OldNotRevoked
<1>2. Row(t)' /\ hand'[t] = {} /\ Aside({t}) /\ HandsMove({t})
  <2>1. CASE Over(t)
    BY <1>t, <1>1, <2>1, OverRow, OverAside DEF LetsGo
  <2>2. CASE ~Over(t)
    <3>1. pc'[t] = "noticing" /\ hand'[t] = {} /\ Aside({t})
      BY <1>t, <1>1, <2>2 DEF Completed, DoneWithCopy, TypeOK, Aside
    <3>. QED
      BY <3>1 DEF HandsMove, Row, HasLock, ReadsFile, HandAsSaid, WritesAsSaid, OwnHand, Holds,
         Readers, Storing, Waits
  <2>. QED
    BY <2>1, <2>2
<1>3. Stored' = Stored /\ SessionIsRegistered'
  BY <1>1 DEF Stored, IInv, SessionIsRegistered
<1>4. \/ Revoked(hand[t]) /\ excused' = excused
      \/ openai' = openai /\ excused' = excused \cup hand[t]
  BY DEF OldRevoked, OldNotRevoked
<1>5. Stored \notin hand[t]
  BY <1>t, <1>1 DEF Row, OwnHand
<1>6. FileMoves({t}) /\ OpenaiMoves({t})
  BY <1>t, <1>1, <1>3, <1>4, RevokedIs DEF FileMoves, OpenaiMoves
<1>r. Stored \in Tokens \cup {0}
  BY <1>t, RecordsTyped DEF TypeOK, Stored
<1>7. Accounted({t})
  <2>1. CASE Revoked(hand[t]) /\ excused' = excused
    BY <1>t, <1>r, <1>1, <1>3, <1>5, <2>1, RevokedIs DEF Accounted, Replacing
  <2>2. CASE openai' = openai /\ excused' = excused \cup hand[t]
    BY <1>1, <1>3, <2>2 DEF Accounted, Replacing
  <2>. QED
    BY <1>4, <2>1, <2>2
<1>. QED
  BY <1>2, <1>3, <1>6, <1>7, OneKeeps DEF Moves

\* The copy becomes the file.
LEMMA WriteKeeps == ASSUME IInv, TypeOK', NEW t \in Threads, Write(t) PROVE IInv'
<1>t. TypeOK /\ Row(t) /\ file \in File /\ file.session \in Session
  BY DEF IInv, TypeOK, File
<1>1. /\ flock = t /\ Stored \in Tokens /\ pc[t] = "writing" /\ Over(t) /\ flock' = None
      /\ file' = copy[t] /\ openai' = openai /\ excused' = excused \cup (hand[t] \ {Held(t)})
  BY Inside DEF Write, Unlock
<1>2. Aside({t}) /\ HandsMove({t}) /\ Row(t)' /\ hand'[t] = {}
  BY <1>t, <1>1, OverRow, OverAside DEF LetsGo
<1>3. Stored' = Held(t) /\ OpenaiMoves({t})
  BY <1>1 DEF Stored, Held, OpenaiMoves
<1>4. CASE Replaces(t)
  <2>1. PICK n \in Tokens : hand[t] = {n} /\ openai[n] = "live" /\ Held(t) = n
    BY <1>4 DEF Replaces, Granted
  <2>2. file'.session = [file.session EXCEPT !.token = n] /\ file'.account = file.account
    BY <1>1, <1>4, <1>t, <2>1 DEF Replaces, File
  <2>3. file.session # NoSession
    BY <1>1 DEF Stored, NoSession, Tokens
  <2>4. SessionIsRegistered'
    BY <1>t, <2>2, <2>3 DEF IInv, SessionIsRegistered, Session
  <2>5. FileMoves({t}) /\ Accounted({t})
    BY <1>1, <1>3, <1>4, <2>1 DEF FileMoves, Accounted, Replaces
  <2>. QED
    BY <1>2, <1>3, <2>4, <2>5, OneKeeps DEF Moves
<1>5. CASE Rewrites(t)
  <2>1. file' = file /\ hand[t] = {} /\ Stored' = Stored /\ SessionIsRegistered'
    BY <1>1, <1>5 DEF Rewrites, Stored, IInv, SessionIsRegistered
  <2>2. Moves({t})
    BY <1>1, <1>2, <2>1, QuietMoves DEF Replacing
  <2>. QED
    BY <1>2, <2>1, <2>2, OneKeeps
<1>6. CASE Ends(t)
  <2>1. Stored' = 0 /\ file'.session = NoSession
    BY <1>1, <1>6 DEF Ends, Stored, NoSession
  <2>2. SessionIsRegistered'
    BY <2>1 DEF SessionIsRegistered
  <2>3. FileMoves({t}) /\ Accounted({t})
    BY <1>1, <1>3, <1>6, <2>1 DEF FileMoves, Accounted, Ends
  <2>. QED
    BY <1>2, <1>3, <2>2, <2>3, OneKeeps DEF Moves
<1>. QED
  BY <1>t, <1>1, <1>4, <1>5, <1>6 DEF Row, WritesAsSaid

\* What the hands of the dead held is lost, and so is the stored token when it was
\* spent for a replacement not written.
LEMMA LostIs ==
  ASSUME NEW S \in SUBSET Threads
  PROVE  /\ \A t \in S : \A n \in hand[t] : n = Stored \/ n \in Lost(S)
         /\ (\E t \in S : Replacing(t)) => Stored \in Lost(S)
  BY DEF Lost, Stored

\* A write that fails leaves the file as it was.
LEMMA WriteFailsKeeps == ASSUME IInv, TypeOK', NEW t \in Threads, WriteFails(t) PROVE IInv'
<1>t. TypeOK
  BY DEF IInv
<1>1. pc[t] \in {"locked", "writing"}
  BY DEF WriteFails, AboutToWrite, In
<1>2. flock = t
  BY <1>1 DEF IInv, Row, HasLock, Holds, Readers
<1>3. /\ Over(t) /\ flock' = None /\ UNCHANGED <<file, openai>>
      /\ excused' = excused \cup Lost({t})
  BY DEF WriteFails, Unlock
<1>4. Aside({t}) /\ HandsMove({t}) /\ Row(t)' /\ hand'[t] = {}
  BY <1>t, <1>2, <1>3, OverRow, OverAside DEF LetsGo
<1>5. Stored' = Stored /\ SessionIsRegistered'
  BY <1>3 DEF Stored, IInv, SessionIsRegistered
<1>6. FileMoves({t}) /\ OpenaiMoves({t})
  BY <1>3, <1>5 DEF FileMoves, OpenaiMoves
<1>7. Accounted({t})
  BY <1>3, <1>5, LostIs DEF Accounted
<1>. QED
  BY <1>4, <1>5, <1>6, <1>7, OneKeeps DEF Moves

\* A process that dies leaves the other processes as they are.
LEMMA CrashKeeps == ASSUME IInv, TypeOK', NEW p \in Processes, Crash(p) PROVE IInv'
<1>t. TypeOK /\ Of(p) \in SUBSET Threads
  BY DEF IInv, Of
<1>1. /\ UNCHANGED <<file, openai>> /\ excused' = excused \cup Lost(Of(p))
      /\ flock' = flock \/ flock \in Of(p)
      /\ \A t \in Of(p) : hand'[t] = {} /\ pc'[t] = "idle"
  BY <1>t DEF Crash
<1>2. Aside(Of(p))
  BY <1>t, <1>1 DEF Crash, Aside, TypeOK
<1>3. Stored' = Stored /\ SessionIsRegistered'
  BY <1>1 DEF Stored, IInv, SessionIsRegistered
<1>4. FileMoves(Of(p)) /\ OpenaiMoves(Of(p)) /\ HandsMove(Of(p))
  BY <1>1, <1>3 DEF FileMoves, OpenaiMoves, HandsMove
<1>5. Accounted(Of(p))
  BY <1>t, <1>1, <1>3, LostIs DEF Accounted
<1>6. \A t \in Of(p) : Row(t)'
  BY <1>1 DEF Row, HasLock, ReadsFile, HandAsSaid, WritesAsSaid, OwnHand, Holds, Readers,
     Storing, Waits
<1>7. Moves(Of(p))
  BY <1>2, <1>4, <1>5 DEF Moves
<1>8. \A t \in Threads \ Of(p) : Row(t)'
  BY <1>t, <1>7, OthersKeep
<1>9. NoTwoHands' /\ StoredIsIssued' /\ SpentIsReplaced' /\ LiveIsHeld'
  BY <1>t, <1>7, OthersKeep
<1>. QED
  BY <1>3, <1>6, <1>8, <1>9 DEF IInv

-----------------------------------------------------------------------------
(* The invariant, and what follows from it.                                *)

LEMMA InvInit == Init => IInv
<1>. SUFFICES ASSUME Init PROVE IInv
  OBVIOUS
<1>1. TypeOK
  BY RecordsTyped DEF Init, TypeOK, PCs, Attempts
<1>2. Stored = 0 /\ file.session = NoSession /\ \A n \in Tokens : openai[n] = "unissued"
  BY DEF Init, Stored, Blank, NoSession
<1>3. ASSUME NEW t \in Threads PROVE Row(t) /\ hand[t] = {}
  BY DEF Init, Row, HasLock, ReadsFile, HandAsSaid, WritesAsSaid, OwnHand, Holds, Readers,
     Storing, Waits
<1>4. NoTwoHands /\ StoredIsIssued /\ SpentIsReplaced /\ LiveIsHeld /\ SessionIsRegistered
  BY <1>2, <1>3 DEF NoTwoHands, StoredIsIssued, SpentIsReplaced, LiveIsHeld, SessionIsRegistered
<1>. QED
  BY <1>1, <1>3, <1>4 DEF IInv

LEMMA InvStep == ASSUME IInv, [Next]_vars PROVE IInv'
<1>0. TypeOK'
  BY TypeStep
<1>1. CASE UNCHANGED vars
  <2>1. UNCHANGED <<file, flock, pc, section, copy, client, hand, openai, excused>>
    BY <1>1 DEF vars, threadVars
  <2>2. \A t \in Threads : Row(t)'
    BY <2>1 DEF IInv, Row, HasLock, ReadsFile, HandAsSaid, WritesAsSaid, OwnHand, Holds, Storing,
       Granted, Replaces, Rewrites, Ends, Stored, Held
  <2>3. NoTwoHands' /\ StoredIsIssued' /\ SpentIsReplaced' /\ LiveIsHeld' /\ SessionIsRegistered'
    BY <2>1 DEF IInv, NoTwoHands, StoredIsIssued, SpentIsReplaced, LiveIsHeld,
       SessionIsRegistered, Stored, Replacing
  <2>. QED
    BY <1>0, <2>2, <2>3 DEF IInv
<1>2. ASSUME NEW t \in Threads, NEW s \in {"start", "access"} \cup SignOutSections, Call(t, s)
      PROVE  IInv'
  BY <1>0, <1>2, GoesOnQuietly
<1>3. ASSUME NEW t \in Threads, Locking(t) PROVE IInv'
  BY <1>0, <1>3, GoesOnQuietly, EndsQuietly DEF Locking
<1>4. ASSUME NEW t \in Threads, Sections(t) PROVE IInv'
  BY <1>0, <1>4, GoesOnQuietly, EndsQuietly, EndsWriting, StartKeeps, StoreKeeps, WriteKeeps,
     WriteFailsKeeps DEF Sections
<1>5. ASSUME NEW t \in Threads, Answers(t) PROVE IInv'
  BY <1>0, <1>5, GoesOnQuietly, EndsQuietly, ExchangedKeeps, WastedKeeps, OldKeeps, RotatedKeeps,
     EndsKeeps, RefreshLostKeeps, RevokeAgainKeeps DEF Answers
<1>6. ASSUME NEW t \in Threads, BrowserEnds(t) \/ BrowserAnswers(t) \/ Acknowledge(t) PROVE IInv'
  BY <1>0, <1>6, GoesOnQuietly, EndsQuietly
<1>7. ASSUME NEW p \in Processes, Crash(p) PROVE IInv'
  BY <1>0, <1>7, CrashKeeps
<1>. QED
  BY <1>1, <1>2, <1>3, <1>4, <1>5, <1>6, <1>7 DEF Next, CallStep, AllOver

LEMMA InvAlways == Spec => []IInv
<1>1. IInv /\ [Next]_vars => IInv'
  BY InvStep
<1>. QED
  BY <1>1, InvInit, PTL DEF Spec

\* Type correctness, for any threads, processes, accounts and bounds.
THEOREM CredentialIsTyped == Spec => []TypeOK
<1>1. IInv => TypeOK
  BY DEF IInv
<1>. QED
  BY <1>1, InvAlways, PTL

\* However threads and processes contend, die, and lose answers, a refresh never
\* posts a token an earlier refresh spent, unless its replacement was lost.
THEOREM NothingIsSpentTwice == Spec => []SpentOnce
<1>1. ASSUME IInv PROVE SpentOnce
  <2>. SUFFICES ASSUME NEW t \in Threads, pc[t] = "refreshing", openai[Held(t)] = "spent"
                PROVE  Held(t) \in excused
    BY DEF SpentOnce
  <2>1. flock = t /\ Held(t) = Stored /\ Stored \in Tokens
    BY <1>1, Inside DEF Held, Stored
  <2>2. \A u \in Threads : ~Replacing(u)
    BY <1>1, <2>1, Inside DEF Replacing
  <2>. QED
    BY <1>1, <2>1, <2>2 DEF IInv, SpentIsReplaced, Tokens
<1>. QED
  BY <1>1, InvAlways, PTL

\* A token that works at OpenAI can always be revoked from here, with the client it
\* was issued to, unless it was lost in one of the ways that are counted.
THEOREM NothingIsLeftAlive == Spec => []TokensAreKept
<1>1. IInv => TokensAreKept
  BY DEF IInv, TokensAreKept
<1>. QED
  BY <1>1, InvAlways, PTL

\* The file changes in five ways, of which two put a token there.
LEMMA FileChanges ==
  ASSUME [Next]_vars, file' # file
  PROVE  \E t \in Threads : \/ Store(t) \/ Write(t) \/ StartSection(t)
                            \/ NoticeSection(t) \/ NothingToRevoke(t)
<1>1. ASSUME NEW t \in Threads, Locking(t) \/ Answers(t) PROVE file' = file
  BY <1>1 DEF Locking, Answers, outside, EnterProcess, TryLock, LockTimesOut, Exchanged,
     ExchangeWasted, ExchangeRefused, OldRevoked, OldNotRevoked, Rotated, NotRotated, Unusable,
     NotRefreshed, RefreshLost, RevokeAgain, RevokeConfirmed, RevokeGivesUp
<1>2. ASSUME NEW t \in Threads, \/ CheckRefuses(t) \/ CheckPasses(t) \/ AccessReturns(t)
                                \/ AccessDue(t) \/ Revoking(t) \/ WriteFails(t)
      PROVE  file' = file
  BY <1>2 DEF outside, CheckRefuses, CheckPasses, AccessReturns, AccessDue, Revoking, WriteFails
<1>3. ASSUME NEW t \in Threads,
             \/ \E s \in {"start", "access"} \cup SignOutSections : Call(t, s)
             \/ BrowserEnds(t) \/ BrowserAnswers(t) \/ Acknowledge(t)
      PROVE  file' = file
  BY <1>3 DEF outside, Call, BrowserEnds, BrowserAnswers, Acknowledge
<1>4. ASSUME NEW p \in Processes, Crash(p) PROVE file' = file
  BY <1>4 DEF Crash
<1>. QED
  BY <1>1, <1>2, <1>3, <1>4 DEF Next, CallStep, Sections, AllOver, vars

\* A token reaches the file from the sign-in that was granted it, or as the
\* replacement of the spent one the file holds: no slow refresh brings back a
\* session that was signed out, or one that a newer sign-in replaced.
THEOREM TokensAreEarned == Spec => NewTokenIsEarned
<1>1. ASSUME IInv, [Next]_vars, Stored' \notin {0, Stored}
      PROVE  \/ \E t \in Threads : In(t, "store") /\ Stored' \in hand[t]
             \/ Stored # 0 /\ openai[Stored] = "spent"
  <2>1. PICK t \in Threads : \/ Store(t) \/ Write(t) \/ StartSection(t)
                             \/ NoticeSection(t) \/ NothingToRevoke(t)
    BY <1>1, FileChanges DEF Stored
  <2>t. TypeOK /\ Row(t) /\ copy[t] \in File
    BY <1>1 DEF IInv, TypeOK
  <2>2. CASE Store(t)
    <3>1. In(t, "store")
      BY <2>2 DEF Store
    <3>2. PICK n \in Tokens : hand[t] = {n} /\ client[t] \in Accounts
      BY <2>t, <3>1 DEF In, Row, HandAsSaid, Storing, Waits, Granted
    <3>3. Stored' = n
      <4>1. file'.session = [token |-> n, account |-> client[t]]
        BY <2>t, <2>2, <3>2, SignedIs DEF Store
      <4>. QED
        BY <4>1 DEF Stored
    <3>. QED
      BY <3>1, <3>2, <3>3
  <2>3. CASE Write(t)
    <3>1. pc[t] = "writing" /\ Stored' = Held(t)
      BY <2>3 DEF Write, Stored, Held
    <3>2. ~Rewrites(t) /\ ~Ends(t)
      BY <1>1, <3>1 DEF Rewrites, Ends, Held, Stored, NoSession
    <3>. QED
      BY <2>t, <3>1, <3>2 DEF Row, WritesAsSaid, Replaces
  <2>4. CASE StartSection(t) \/ NoticeSection(t) \/ NothingToRevoke(t)
    <3>1. copy[t] = file
      BY <1>1, <2>4, Inside DEF StartSection, NoticeSection, NothingToRevoke, In, LockedSections,
         SignOutSections
    <3>2. file'.session = file.session
      <4>1. CASE StartSection(t)
        BY <2>t, <3>1, <4>1 DEF StartSection, File
      <4>2. CASE NoticeSection(t)
        BY <2>t, <3>1, <4>2 DEF NoticeSection, File
      <4>3. CASE NothingToRevoke(t)
        BY <2>t, <3>1, <4>3 DEF NothingToRevoke, Forgotten, File
      <4>. QED
        BY <2>4, <4>1, <4>2, <4>3
    <3>. QED
      BY <1>1, <3>2 DEF Stored
  <2>. QED
    BY <2>1, <2>2, <2>3, <2>4
<1>2. IInv /\ [Next]_vars =>
        [file'.session.token \notin {0, file.session.token} =>
           \/ \E t \in Threads : In(t, "store") /\ file'.session.token \in hand[t]
           \/ /\ file.session.token # 0
              /\ openai[file.session.token] = "spent"]_vars
  BY <1>1 DEF Stored
<1>. QED
  BY <1>2, InvAlways, PTL DEF Spec, NewTokenIsEarned
=============================================================================
