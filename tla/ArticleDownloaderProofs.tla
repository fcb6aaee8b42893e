----------------------- MODULE ArticleDownloaderProofs -----------------------
(***************************************************************************)
(* Proofs about ArticleDownloader, for any number of downloads, levels,     *)
(* connections and retries, and all values of the options: what a thread   *)
(* keeps in its locals agrees with where it is in Run, Download and         *)
(* PrepareFile, the output file is created once, and a download keeps the   *)
(* contract that the queue relies on.                                       *)
(***************************************************************************)
EXTENDS ArticleDownloader, Integers, TLAPS

-----------------------------------------------------------------------------
(* The remainder of a division, counted up by one.                          *)

\* Quotient and remainder of a natural number are unique.
LEMMA DivisionIsUnique ==
    ASSUME NEW n \in Nat \ {0}, NEW q \in Int, NEW p \in Int,
           NEW r \in 0..(n - 1), NEW s \in 0..(n - 1), n * q + r = n * p + s
    PROVE  r = s
<1>1. \A k \in Int : k >= 1 => n * k >= n
  BY SMTT(20)
<1>2. n * (q - p) = s - r /\ n * (p - q) = r - s
  BY SMTT(20)
<1>3. ~(q - p >= 1) /\ ~(p - q >= 1)
  BY <1>1, <1>2
<1>4. q = p
  BY <1>3
<1> QED BY <1>4, <1>2

\* The remainder of the next number is the next remainder, or 0 after the last one.
LEMMA RemainderOfNext ==
    ASSUME NEW a \in Nat, NEW n \in Nat \ {0}
    PROVE  /\ a % n \in 0..(n - 1)
           /\ (a + 1) % n = IF a % n = n - 1 THEN 0 ELSE (a % n) + 1
<1>1. a = n * (a \div n) + (a % n) /\ a % n \in 0..(n - 1) /\ a \div n \in Int
  BY SMT
<1>2. /\ a + 1 = n * ((a + 1) \div n) + ((a + 1) % n)
      /\ (a + 1) % n \in 0..(n - 1) /\ (a + 1) \div n \in Int
  BY SMT
<1>3. CASE a % n = n - 1
  <2>1. a + 1 = n * ((a \div n) + 1) + 0 /\ 0 \in 0..(n - 1) /\ (a \div n) + 1 \in Int
    BY <1>1, <1>3, SMT
  <2>2. (a + 1) % n = 0
    BY <1>2, <2>1, DivisionIsUnique
  <2> QED BY <1>1, <1>3, <2>2
<1>4. CASE a % n # n - 1
  <2>1. a + 1 = n * (a \div n) + ((a % n) + 1) /\ (a % n) + 1 \in 0..(n - 1)
    BY <1>1, <1>4, SMT
  <2>2. (a + 1) % n = (a % n) + 1
    BY <1>1, <1>2, <2>1, DivisionIsUnique
  <2> QED BY <1>1, <1>4, <2>2
<1> QED BY <1>1, <1>3, <1>4

-----------------------------------------------------------------------------
(* What the variables of a download say together.                           *)

Attempting == {"connect", "fetch", "body", "lockdupe", "dupe", "lockcreate", "create", "open",
               "write", "decode", "attempted", "wait", "judge"}
OnNetwork == {"connect", "fetch", "body", "lockdupe", "dupe", "lockcreate", "create", "open",
              "write"}

\* The status says where the thread is, as far as others can see.
StatusOfPlace(d) ==
    /\ at[d] = "none" <=> status[d] = "none"
    /\ at[d] = "start" <=> status[d] = "created"
    /\ at[d] = "report" <=> status[d] \in {"finished", "failed", "retry"}
    /\ at[d] = "leaving" <=> status[d] = "leaving"

\* A connection is there while the network is used; when an attempt is over it is either
\* gone or was lost, and then the level stays.
ConnectionOfPlace(d) ==
    /\ at[d] \in OnNetwork => conn[d] # NoLevel
    /\ at[d] \in {"wait", "judge"} /\ connected[d] => conn[d] = NoLevel
    /\ at[d] \in {"none", "start"} => level[d] = 0
    /\ at[d] \in Places \ {"leaving", "report"} /\ conn[d] # NoLevel => conn[d] = level[d]

\* An attempt is made only while there are retries, fails unless the contrary is known,
\* and succeeds only after decoding.
ResultOfPlace(d) ==
    /\ at[d] \in Attempting => remained[d] > 0
    /\ at[d] \in OnNetwork \union {"decode"} => result[d] = "failed"
    /\ at[d] = "decode" => status[d] = "decoding"
    /\ at[d] \in {"attempted", "wait", "judge"} /\ result[d] = "finished" => status[d] = "decoding"

\* Parts of PrepareFile are reached only with the options they are for.
OptionsOfPlace(d) ==
    /\ at[d] \in {"lockdupe", "dupe"} => DupeCheck
    /\ d \in duplicate => DupeCheck
    /\ at[d] \in {"lockcreate", "create"} => DirectWrite

PlaceInv(d) ==
    StatusOfPlace(d) /\ ConnectionOfPlace(d) /\ ResultOfPlace(d) /\ OptionsOfPlace(d)

\* The inductive invariant: none of its parts is inductive without the types, and the
\* type of remained depends on where the thread is.
IInv == TypeOK /\ \A d \in Downloaders : PlaceInv(d)

-----------------------------------------------------------------------------
(* The steps.                                                               *)

\* A step that concerns one download.
StepOf(d) == Create(d) \/ Step(d) \/ Terminate(d)

-----------------------------------------------------------------------------
(* The type invariant.                                                     *)

\* What the assumption on the constants says of levels and options.
LEMMA LevelsAndOptions ==
    /\ 0 \in Levels /\ MaxLevel \in Nat /\ Retries \in Nat
    /\ \A l \in Levels : (IF l = MaxLevel THEN 0 ELSE l + 1) \in Levels
    /\ NoLevel \notin Levels
    /\ OnDisk \in BOOLEAN /\ DiskFails \in BOOLEAN /\ DirectWrite \in BOOLEAN
    /\ DupeCheck \in BOOLEAN /\ ContinuePartial \in BOOLEAN /\ Watchdog \in BOOLEAN
BY DownloaderAssumption DEF Levels

\* The program starts with values of the right types.
LEMMA InitTypeOK == Init => TypeOK
<1> SUFFICES ASSUME Init PROVE TypeOK
  OBVIOUS
<1> USE DEF Init
<1>1. status \in [Downloaders -> {"none", "created", "running", "decoding", "finished",
                                   "failed", "retry", "leaving"}]
  OBVIOUS
<1>2. at \in [Downloaders -> Places]
  BY DEF Places
<1>3. result \in [Downloaders -> {"failed", "finished", "notfound", "connect", "crc", "fatal"}]
  OBVIOUS
<1>4. missing \in [Downloaders -> SUBSET Levels]
  OBVIOUS
<1>5.    conn \in [Downloaders -> Levels \union {NoLevel}]
  OBVIOUS
<1>6. duplicate \subseteq Downloaders /\ halted \subseteq Downloaders
  OBVIOUS
<1>7. level \in [Downloaders -> Levels]
  BY LevelsAndOptions
<1>8. connected \in [Downloaders -> BOOLEAN]
  OBVIOUS
<1>9. remained \in [Downloaders -> Nat] /\ created \in Nat
  OBVIOUS
<1>10. locked \in BOOLEAN /\ outputInit \in BOOLEAN /\ closed \in BOOLEAN /\ pause \in BOOLEAN
  OBVIOUS
<1> QED BY <1>1, <1>2, <1>3, <1>4, <1>5, <1>6, <1>7, <1>8, <1>9, <1>10 DEF TypeOK

\* Every variable keeps its type.
LEMMA NextTypeOK ==
    ASSUME TypeOK, NEW d \in Downloaders, PlaceInv(d), StepOf(d)
    PROVE  TypeOK'
<1> USE LevelsAndOptions DEF TypeOK, Places, Goto, SetStatus, SetResult, FreeConnection,
        locals, file, inputs
<1>1. CASE Begin(d)
  BY <1>1 DEF Begin
<1>2. CASE Acquire(d)
  BY <1>2 DEF Acquire
<1>3. CASE LoopTop(d)
  BY <1>3 DEF LoopTop, Finish
<1>4. CASE Connect(d)
  BY <1>4 DEF Connect
<1>5. CASE Fetch(d)
  BY <1>5 DEF Fetch, Attempted, Advance
<1>6. CASE ReadHeader(d)
  BY <1>6 DEF ReadHeader, Attempted, Advance
<1>7. CASE LockOutputFile(d)
  BY <1>7 DEF LockOutputFile, Advance
<1>8. CASE CheckDupe(d)
  BY <1>8 DEF CheckDupe, Advance
<1>9. CASE CreateOutput(d)
  <2>1. outputInit' \in {outputInit, TRUE} /\ locked' \in {locked, FALSE}
    BY <1>9 DEF CreateOutput, Attempted, Advance
  <2>3. created' \in {created, created + 1}
    BY <1>9 DEF CreateOutput, Attempted, Advance
  <2>2. /\ at' \in [Downloaders -> Places] /\ UNCHANGED status
        /\ result' \in [Downloaders -> {"failed", "finished", "notfound", "connect", "crc",
                                        "fatal"}]
        /\ UNCHANGED <<connected, level, remained, missing, duplicate, conn, inputs>>
    BY <1>9 DEF CreateOutput, Attempted, Advance
  <2>4. outputInit' \in BOOLEAN /\ locked' \in BOOLEAN
    BY <2>1, Zenon
  <2>5. created' \in Nat
    BY <2>3
  <2> QED BY <2>2, <2>4, <2>5
<1>10. CASE OpenFile(d)
  BY <1>10 DEF OpenFile, Attempted, Advance
<1>11. CASE ReadArticle(d)
  BY <1>11 DEF ReadArticle, Attempted
<1>12. CASE DecodeCheck(d)
  BY <1>12 DEF DecodeCheck, Attempted
<1>13. CASE AfterAttempt(d)
  BY <1>13 DEF AfterAttempt
<1>14. CASE AfterWait(d)
  BY <1>14 DEF AfterWait, Finish
<1>15. CASE Judge(d)
  BY <1>15 DEF Judge, Finish, PlaceInv, ResultOfPlace, Attempting
<1>16. CASE Report(d)
  BY <1>16 DEF Report
<1>17. CASE ReleaseSkipped(d)
  BY <1>17 DEF ReleaseSkipped
<1>18. CASE Exit(d)
  BY <1>18 DEF Exit, Reset
<1>19. CASE Terminate(d)
  BY <1>19 DEF Terminate, Reset
<1>20. CASE Create(d)
  BY <1>20 DEF Create
<1> QED BY <1>1, <1>2, <1>3, <1>4, <1>5, <1>6, <1>7, <1>8, <1>9, <1>10, <1>11, <1>12, <1>13, <1>14, <1>15, <1>16, <1>17, <1>18, <1>19, <1>20 DEF StepOf, Step

\* A step of one download does not touch the variables of another one, except that it may
\* stop it.
LEMMA OthersUnchanged ==
    ASSUME TypeOK, NEW d \in Downloaders, StepOf(d), NEW e \in Downloaders \ {d}
    PROVE  /\ status'[e] = status[e] /\ at'[e] = at[e] /\ result'[e] = result[e]
           /\ connected'[e] = connected[e] /\ level'[e] = level[e]
           /\ remained'[e] = remained[e] /\ missing'[e] = missing[e] /\ conn'[e] = conn[e]
           /\ e \in duplicate' <=> e \in duplicate
<1> USE DEF TypeOK, Goto, SetStatus, SetResult, FreeConnection, locals, file, inputs
<1>1. CASE Begin(d)
  BY <1>1 DEF Begin
<1>2. CASE Acquire(d)
  BY <1>2 DEF Acquire
<1>3. CASE LoopTop(d)
  BY <1>3 DEF LoopTop, Finish
<1>4. CASE Connect(d)
  BY <1>4 DEF Connect
<1>5. CASE Fetch(d)
  BY <1>5 DEF Fetch, Attempted, Advance
<1>6. CASE ReadHeader(d)
  BY <1>6 DEF ReadHeader, Attempted, Advance
<1>7. CASE LockOutputFile(d)
  BY <1>7 DEF LockOutputFile, Advance
<1>8. CASE CheckDupe(d)
  BY <1>8 DEF CheckDupe, Advance
<1>9. CASE CreateOutput(d)
  BY <1>9 DEF CreateOutput, Attempted, Advance
<1>10. CASE OpenFile(d)
  BY <1>10 DEF OpenFile, Attempted, Advance
<1>11. CASE ReadArticle(d)
  BY <1>11 DEF ReadArticle, Attempted
<1>12. CASE DecodeCheck(d)
  BY <1>12 DEF DecodeCheck, Attempted
<1>13. CASE AfterAttempt(d)
  BY <1>13 DEF AfterAttempt
<1>14. CASE AfterWait(d)
  BY <1>14 DEF AfterWait, Finish
<1>15. CASE Judge(d)
  BY <1>15 DEF Judge, Finish
<1>16. CASE Report(d)
  BY <1>16 DEF Report
<1>17. CASE ReleaseSkipped(d)
  BY <1>17 DEF ReleaseSkipped
<1>18. CASE Exit(d)
  BY <1>18 DEF Exit, Reset
<1>19. CASE Terminate(d)
  BY <1>19 DEF Terminate, Reset
<1>20. CASE Create(d)
  BY <1>20 DEF Create
<1> QED BY <1>1, <1>2, <1>3, <1>4, <1>5, <1>6, <1>7, <1>8, <1>9, <1>10, <1>11, <1>12, <1>13, <1>14, <1>15, <1>16, <1>17, <1>18, <1>19, <1>20 DEF StepOf, Step

\* A step of a download preserves what is said of it.
LEMMA StepKeepsPlaceInv ==
    ASSUME TypeOK, NEW d \in Downloaders, PlaceInv(d), StepOf(d)
    PROVE  PlaceInv(d)'
<1> USE LevelsAndOptions DEF TypeOK, PlaceInv, StatusOfPlace, ConnectionOfPlace, ResultOfPlace,
        OptionsOfPlace, Attempting, OnNetwork, Places, Goto, SetStatus, SetResult,
        FreeConnection, locals, file, inputs
<1>1. CASE Begin(d)
  BY <1>1 DEF Begin
<1>2. CASE Acquire(d)
  BY <1>2 DEF Acquire
<1>3. CASE LoopTop(d)
  BY <1>3 DEF LoopTop, Finish, WantsMore
<1>4. CASE Connect(d)
  BY <1>4 DEF Connect
<1>5. CASE Fetch(d)
  BY <1>5 DEF Fetch, Attempted, Advance
<1>6. CASE ReadHeader(d)
  BY <1>6 DEF ReadHeader, Attempted, Advance
<1>7. CASE LockOutputFile(d)
  BY <1>7 DEF LockOutputFile, Advance
<1>8. CASE CheckDupe(d)
  BY <1>8 DEF CheckDupe, Advance
<1>9. CASE CreateOutput(d)
  BY <1>9 DEF CreateOutput, Attempted, Advance
<1>10. CASE OpenFile(d)
  BY <1>10 DEF OpenFile, Attempted, Advance
<1>11. CASE ReadArticle(d)
  BY <1>11 DEF ReadArticle, Attempted
<1>12. CASE DecodeCheck(d)
  BY <1>12 DEF DecodeCheck, Attempted
<1>13. CASE AfterAttempt(d)
  BY <1>13 DEF AfterAttempt
<1>14. CASE AfterWait(d)
  BY <1>14 DEF AfterWait, Finish
<1>15. CASE Judge(d)
  BY <1>15 DEF Judge, Finish
<1>16. CASE Report(d)
  BY <1>16 DEF Report
<1>17. CASE ReleaseSkipped(d)
  BY <1>17 DEF ReleaseSkipped
<1>18. CASE Exit(d)
  BY <1>18 DEF Exit, Reset
<1>19. CASE Terminate(d)
  BY <1>19 DEF Terminate, Reset
<1>20. CASE Create(d)
  BY <1>20 DEF Create, Exists
<1> QED BY <1>1, <1>2, <1>3, <1>4, <1>5, <1>6, <1>7, <1>8, <1>9, <1>10, <1>11, <1>12, <1>13, <1>14, <1>15, <1>16, <1>17, <1>18, <1>19, <1>20 DEF StepOf, Step


\* Before a download is created there is nothing to say of it.
LEMMA InitIInv == Init => IInv
<1> SUFFICES ASSUME Init, NEW d \in Downloaders PROVE PlaceInv(d)
  BY InitTypeOK DEF IInv
<1> QED BY DEF Init, PlaceInv, StatusOfPlace, ConnectionOfPlace, ResultOfPlace, OptionsOfPlace,
               Attempting, OnNetwork, Places

\* Every step preserves the invariant: the step of a download what is said of that
\* download, and those of others as they do not touch it.
LEMMA NextIInv == IInv /\ [Next]_vars => IInv'
<1> SUFFICES ASSUME IInv, [Next]_vars PROVE IInv'
  OBVIOUS
<1>1. ASSUME NEW d \in Downloaders, StepOf(d) PROVE IInv'
  <2>1. TypeOK'
    BY <1>1, NextTypeOK DEF IInv
  <2>2. PlaceInv(d)'
    BY <1>1, StepKeepsPlaceInv DEF IInv
  <2>3. ASSUME NEW e \in Downloaders \ {d} PROVE PlaceInv(e)'
    BY <1>1, <2>3, OthersUnchanged
    DEF IInv, PlaceInv, StatusOfPlace, ConnectionOfPlace, ResultOfPlace, OptionsOfPlace
  <2> QED BY <2>1, <2>2, <2>3 DEF IInv
<1>2. CASE Cancel \/ SetPauseDownload \/ UNCHANGED vars
  <2>1. TypeOK'
    BY <1>2 DEF IInv, TypeOK, Cancel, SetPauseDownload, vars, locals, file, inputs
  <2>2. UNCHANGED <<status, at, locals, conn>>
    BY <1>2 DEF Cancel, SetPauseDownload, vars
  <2>3. ASSUME NEW d \in Downloaders PROVE PlaceInv(d)'
    BY <2>2, <2>3
    DEF IInv, PlaceInv, StatusOfPlace, ConnectionOfPlace, ResultOfPlace, OptionsOfPlace, locals
  <2> QED BY <2>1, <2>3 DEF IInv
<1> QED BY <1>1, <1>2 DEF Next, StepOf

\* What the theorems below rest on holds in every state.
THEOREM InvariantHolds == Spec => []IInv
BY InitIInv, NextIInv, PTL DEF Spec

\* Every variable keeps its type.
THEOREM TypeCorrect == Spec => []TypeOK
<1>1. IInv => TypeOK
  BY DEF IInv
<1> QED BY <1>1, InvariantHolds, PTL

\* The connection that a download holds on to for another attempt is one of the level that
\* this attempt is counted for, whatever happened in the attempts before.
THEOREM ConnectionsFit == Spec => []ConnectionOfLevel
<1>1. IInv => ConnectionOfLevel
  BY DEF IInv, PlaceInv, ConnectionOfPlace, ConnectionOfLevel
<1> QED BY <1>1, InvariantHolds, PTL

-----------------------------------------------------------------------------
(* Levels and retries.                                                      *)

\* The number of attempts that are counted, and how many of them were made.
Allowed == IF Retries > 0 THEN Retries ELSE 1
Made(d) == Allowed - remained[d]
Looping == Places \ {"none", "start", "report", "leaving"}
RetriesInv(d) ==
    at[d] \in Looping => remained[d] <= Allowed /\ level[d] = Made(d) % (MaxLevel + 1)

\* Judge counts an attempt and goes to the next level, or does neither.
LEMMA JudgeKeepsRetriesInv ==
    ASSUME IInv, NEW d \in Downloaders, RetriesInv(d), Judge(d)
    PROVE  RetriesInv(d)'
<1>0. /\ TypeOK /\ PlaceInv(d) /\ MaxLevel \in Nat /\ Allowed \in Nat
      /\ at[d] = "judge" /\ remained[d] > 0 /\ remained[d] \in Nat /\ level[d] \in Levels
  BY LevelsAndOptions DEF IInv, PlaceInv, ResultOfPlace, Attempting, Judge, Allowed, TypeOK
<1>1. remained[d] <= Allowed /\ level[d] = Made(d) % (MaxLevel + 1) /\ Made(d) \in Nat
  BY <1>0 DEF RetriesInv, Looping, Places, Made
<1>2. CASE at'[d] = "report"
  BY <1>2 DEF RetriesInv, Looping
<1>3. CASE /\ remained'[d] = remained[d] - 1
           /\ level'[d] = IF level[d] = MaxLevel THEN 0 ELSE level[d] + 1
  <2>1. (Made(d) + 1) % (MaxLevel + 1)
          = IF Made(d) % (MaxLevel + 1) = MaxLevel THEN 0 ELSE (Made(d) % (MaxLevel + 1)) + 1
    <3>1. MaxLevel + 1 \in Nat \ {0} /\ (MaxLevel + 1) - 1 = MaxLevel
      BY <1>0
    <3> QED BY <1>1, <3>1, RemainderOfNext
  <2>2. Made(d)' = Made(d) + 1 /\ remained'[d] <= Allowed
    BY <1>0, <1>1, <1>3 DEF Made, Allowed
  <2> QED BY <1>1, <1>3, <2>1, <2>2 DEF RetriesInv, Allowed
<1>4. CASE remained'[d] = remained[d] /\ level'[d] = level[d]
  BY <1>1, <1>4 DEF RetriesInv, Made, Allowed
<1>5. \/ at'[d] = "report"
      \/ /\ remained'[d] = remained[d] - 1
         /\ level'[d] = IF level[d] = MaxLevel THEN 0 ELSE level[d] + 1
      \/ remained'[d] = remained[d] /\ level'[d] = level[d]
  BY <1>0 DEF Judge, Finish, Goto, TypeOK, locals
<1> QED BY <1>2, <1>3, <1>4, <1>5

\* The other steps start with all retries and level 0, or leave both alone.
LEMMA StepKeepsRetriesInv ==
    ASSUME IInv, NEW d \in Downloaders, RetriesInv(d), StepOf(d), ~Judge(d)
    PROVE  RetriesInv(d)'
<1>1. TypeOK /\ PlaceInv(d)
  BY DEF IInv
<1>2. CASE Begin(d)
  <2>1. remained'[d] = Allowed /\ level'[d] = 0 /\ Allowed \in Nat /\ MaxLevel \in Nat
    BY <1>1, <1>2, LevelsAndOptions DEF Begin, PlaceInv, ConnectionOfPlace, Allowed, TypeOK
  <2>2. Made(d)' = 0 /\ 0 % (MaxLevel + 1) = 0
    BY <2>1 DEF Made, Allowed
  <2> QED BY <2>1, <2>2 DEF RetriesInv, Allowed
<1>3. CASE at'[d] \notin Looping
  BY <1>3 DEF RetriesInv, Looping
<1>4. CASE at[d] \in Looping /\ remained'[d] = remained[d] /\ level'[d] = level[d]
  BY <1>4 DEF RetriesInv, Made, Allowed, Looping, Places
<1>5. ASSUME ~Begin(d)
      PROVE  \/ at'[d] \notin Looping
             \/ at[d] \in Looping /\ remained'[d] = remained[d] /\ level'[d] = level[d]
  <2> USE <1>1 DEF TypeOK, Looping, Places, Goto, locals
  <2>1. CASE Acquire(d) \/ Connect(d) \/ Fetch(d) \/ ReadHeader(d)
    BY <2>1 DEF Acquire, Connect, Fetch, ReadHeader, Attempted, Advance
  <2>2. CASE LoopTop(d)
    BY <2>2 DEF LoopTop, Finish
  <2>3. CASE LockOutputFile(d) \/ CheckDupe(d) \/ CreateOutput(d) \/ OpenFile(d)
    BY <2>3 DEF LockOutputFile, CheckDupe, CreateOutput, OpenFile, Attempted, Advance
  <2>4. CASE ReadArticle(d) \/ DecodeCheck(d) \/ AfterAttempt(d)
    BY <2>4 DEF ReadArticle, DecodeCheck, AfterAttempt, Attempted
  <2>5. CASE AfterWait(d)
    BY <2>5 DEF AfterWait, Finish
  <2>6. CASE Report(d) \/ ReleaseSkipped(d)
    BY <2>6 DEF Report, ReleaseSkipped
  <2>7. CASE Create(d) \/ Exit(d) \/ Terminate(d)
    BY <2>7 DEF Create, Exit, Terminate, Reset
  <2> QED BY <1>5, <2>1, <2>2, <2>3, <2>4, <2>5, <2>6, <2>7 DEF StepOf, Step
<1> QED BY <1>2, <1>3, <1>4, <1>5

\* Level and retries never come apart: every counted attempt moves on to the next level,
\* from the last one to the first, and no other attempt does, for any number of both.
THEOREM LevelsFollowRetries == Spec => []LevelFollowsRetries
<1> DEFINE Inv == \A d \in Downloaders : RetriesInv(d)
<1>1. Init => Inv
  BY DEF Init, RetriesInv, Looping
<1>2. IInv /\ Inv /\ [Next]_vars => Inv'
  <2> SUFFICES ASSUME IInv, Inv, [Next]_vars, NEW e \in Downloaders PROVE RetriesInv(e)'
    OBVIOUS
  <2>1. ASSUME NEW d \in Downloaders, StepOf(d) PROVE RetriesInv(e)'
    <3>1. CASE e = d
      BY <2>1, <3>1, JudgeKeepsRetriesInv, StepKeepsRetriesInv
    <3>2. CASE e # d
      BY <2>1, <3>2, OthersUnchanged DEF IInv, RetriesInv, Made, Allowed, Looping
    <3> QED BY <3>1, <3>2
  <2>2. CASE Cancel \/ SetPauseDownload \/ UNCHANGED vars
    BY <2>2 DEF Cancel, SetPauseDownload, vars, locals, RetriesInv, Made, Allowed, Looping
  <2> QED BY <2>1, <2>2 DEF Next, StepOf
<1>3. Inv => LevelFollowsRetries
  BY DEF LevelFollowsRetries, RetriesInv, Made, Allowed, Looping
<1> QED BY <1>1, <1>2, <1>3, InvariantHolds, PTL DEF Spec

\* A download that was not stopped gives up only because the article is unusable, the
\* retries are used up, or all levels have said that they do not have it.
THEOREM GivesUpRightly == Spec => GivesUpForAReason
<1> DEFINE Reason(d) == \/ d \in halted \/ remained[d] = 0 \/ IsFinal(result[d])
                        \/ result[d] = "notfound" /\ Levels \ {level[d]} \subseteq missing[d]
           A == \A d \in Downloaders : status'[d] = "failed" /\ status[d] # "failed" => Reason(d)
<1>1. IInv /\ [Next]_vars => A
  <2> SUFFICES ASSUME IInv, [Next]_vars, NEW e \in Downloaders,
                      status'[e] = "failed", status[e] # "failed"
               PROVE  Reason(e)
    OBVIOUS
  <2> USE DEF TypeOK, SetStatus, Goto, locals, file, inputs
  <2>1. PICK d \in Downloaders : StepOf(d)
    BY DEF Next, StepOf, vars, Cancel, SetPauseDownload
  <2>2. e = d /\ TypeOK
    BY <2>1, OthersUnchanged DEF IInv
  <2>3. LoopTop(d) \/ AfterWait(d) \/ Judge(d)
    <3>1. CASE Create(d) \/ Begin(d) \/ Acquire(d) \/ Connect(d) \/ Fetch(d) \/ ReadHeader(d)
      BY <2>2, <3>1 DEF Create, Begin, Acquire, Connect, Fetch, ReadHeader, Attempted, Advance
    <3>2. CASE LockOutputFile(d) \/ CheckDupe(d) \/ CreateOutput(d) \/ OpenFile(d)
      BY <2>2, <3>2 DEF LockOutputFile, CheckDupe, CreateOutput, OpenFile, Attempted, Advance
    <3>3. CASE ReadArticle(d) \/ DecodeCheck(d) \/ AfterAttempt(d)
      BY <2>2, <3>3 DEF ReadArticle, DecodeCheck, AfterAttempt, Attempted
    <3>4. CASE Report(d) \/ ReleaseSkipped(d) \/ Exit(d) \/ Terminate(d)
      BY <2>2, <3>4 DEF Report, ReleaseSkipped, Exit, Terminate, Reset
    <3> QED BY <2>1, <3>1, <3>2, <3>3, <3>4 DEF StepOf, Step
  <2>4. CASE LoopTop(d)
    BY <2>2, <2>4 DEF LoopTop, WantsMore, Finish
  <2>5. CASE AfterWait(d)
    BY <2>2, <2>5 DEF AfterWait, Finish
  <2>6. CASE Judge(d)
    BY <2>2, <2>6 DEF Judge, Finish, IsFinal
  <2> QED BY <2>2, <2>3, <2>4, <2>5, <2>6
<1>2. A => \A d \in Downloaders : status'[d] = "failed" /\ status[d] # "failed" =>
              \/ d \in halted
              \/ remained[d] = 0
              \/ IsFinal(result[d])
              \/ /\ result[d] = "notfound"
                 /\ Levels \ {level[d]} \subseteq missing[d]
  OBVIOUS
<1> QED BY <1>1, <1>2, InvariantHolds, PTL DEF Spec, GivesUpForAReason

-----------------------------------------------------------------------------
(* The output file.                                                         *)

\* The flag of the file says whether it was created, and a download that is about to write
\* has seen the flag.
OutputInv ==
    /\ created = IF DirectWrite /\ outputInit THEN 1 ELSE 0
    /\ DirectWrite => \A d \in Downloaders : at[d] \in {"open", "write"} => outputInit

\* What a step of a download does to the output file: it is created if the flag is not
\* set, the flag is never taken back, and with direct writing the way to "open" and
\* "write" leads through "create".
LEMMA StepOnOutput ==
    ASSUME IInv, NEW d \in Downloaders, StepOf(d)
    PROVE  /\ \/ UNCHANGED <<created, outputInit>>
              \/ DirectWrite /\ outputInit' = TRUE
                 /\ created' = IF outputInit THEN created ELSE created + 1
              \/ ~DirectWrite /\ UNCHANGED created
           /\ outputInit => outputInit'
           /\ DirectWrite /\ at'[d] \in {"open", "write"} =>
                  outputInit' \/ at[d] \in {"open", "write"}
<1>1. TypeOK /\ PlaceInv(d)
  BY DEF IInv
<1> USE <1>1, LevelsAndOptions DEF TypeOK, Goto, locals, file, inputs
<1>2. CASE Create(d) \/ Begin(d) \/ Acquire(d) \/ Connect(d)
  BY <1>2 DEF Create, Begin, Acquire, Connect
<1>3. CASE LoopTop(d) \/ AfterWait(d)
  BY <1>3 DEF LoopTop, AfterWait, Finish
<1>4. CASE Judge(d)
  BY <1>4 DEF Judge, Finish
<1>5. CASE Fetch(d) \/ ReadHeader(d) \/ OpenFile(d) \/ LockOutputFile(d)
  BY <1>5 DEF Fetch, ReadHeader, OpenFile, LockOutputFile, Attempted, Advance
<1>6. CASE CheckDupe(d)
  BY <1>6 DEF CheckDupe, Advance
<1>7. CASE CreateOutput(d)
  BY <1>7 DEF CreateOutput, Attempted, Advance, PlaceInv, OptionsOfPlace
<1>8. CASE ReadArticle(d) \/ DecodeCheck(d) \/ AfterAttempt(d)
  BY <1>8 DEF ReadArticle, DecodeCheck, AfterAttempt, Attempted
<1>9. CASE Report(d) \/ ReleaseSkipped(d) \/ Exit(d) \/ Terminate(d)
  BY <1>9 DEF Report, ReleaseSkipped, Exit, Terminate, Reset
<1> QED BY <1>2, <1>3, <1>4, <1>5, <1>6, <1>7, <1>8, <1>9 DEF StepOf, Step

\* However many downloads reach their first line at the same time, one of them creates the
\* output file, and none writes before that.
THEOREM OutputIsCreatedOnce == Spec => []OutputCreatedOnce
<1>1. Init => OutputInv
  BY DEF Init, OutputInv
<1>2. IInv /\ OutputInv /\ [Next]_vars => OutputInv'
  <2> SUFFICES ASSUME IInv, OutputInv, [Next]_vars PROVE OutputInv'
    OBVIOUS
  <2>1. ASSUME NEW d \in Downloaders, StepOf(d) PROVE OutputInv'
    <3>1. created' = IF DirectWrite /\ outputInit' THEN 1 ELSE 0
      <4>1. CASE UNCHANGED <<created, outputInit>>
        BY <4>1 DEF OutputInv
      <4>2. CASE DirectWrite /\ outputInit' = TRUE
                 /\ created' = IF outputInit THEN created ELSE created + 1
        BY <4>2 DEF OutputInv
      <4>3. CASE ~DirectWrite /\ UNCHANGED created
        BY <4>3 DEF OutputInv
      <4> QED BY <2>1, <4>1, <4>2, <4>3, StepOnOutput
    <3>2. ASSUME DirectWrite, NEW e \in Downloaders, at'[e] \in {"open", "write"}
          PROVE  outputInit'
      BY <2>1, <3>2, StepOnOutput, OthersUnchanged DEF OutputInv, IInv
    <3> QED BY <3>1, <3>2 DEF OutputInv
  <2>2. CASE Cancel \/ SetPauseDownload \/ UNCHANGED vars
    BY <2>2 DEF Cancel, SetPauseDownload, vars, file, OutputInv
  <2> QED BY <2>1, <2>2 DEF Next, StepOf
<1>3. OutputInv => OutputCreatedOnce
  BY DEF OutputInv, OutputCreatedOnce
<1> QED BY <1>1, <1>2, <1>3, InvariantHolds, PTL DEF Spec

\* The mutex of the output file.
Inside(d) == at[d] \in {"dupe", "create"}
MutexInv ==
    /\ locked => \E d \in Downloaders : Inside(d)
    /\ \A d \in Downloaders : Inside(d) =>
           locked /\ \A e \in Downloaders \ {d} : ~Inside(e)

\* A step locks the mutex when its download goes inside, and unlocks it when it comes out.
LEMMA StepOnMutex ==
    ASSUME IInv, NEW d \in Downloaders, StepOf(d), ~Watchdog, ~OnDisk, ~DiskFails
    PROVE  \/ locked' = locked /\ ~Inside(d) /\ ~Inside(d)'
           \/ ~locked /\ locked' /\ ~Inside(d) /\ Inside(d)'
           \/ ~locked' /\ Inside(d) /\ ~Inside(d)'
<1>1. TypeOK /\ PlaceInv(d)
  BY DEF IInv
<1> USE <1>1 DEF TypeOK, Goto, locals, file, inputs, Inside
<1>2. CASE Create(d) \/ Begin(d) \/ Acquire(d) \/ Connect(d)
  BY <1>2 DEF Create, Begin, Acquire, Connect, PlaceInv, StatusOfPlace, Exists
<1>3. CASE LoopTop(d) \/ AfterWait(d)
  BY <1>3 DEF LoopTop, AfterWait, Finish
<1>4. CASE Judge(d)
  BY <1>4 DEF Judge, Finish
<1>5. CASE Fetch(d) \/ ReadHeader(d) \/ OpenFile(d) \/ LockOutputFile(d)
  BY <1>5 DEF Fetch, ReadHeader, OpenFile, LockOutputFile, Attempted, Advance
<1>6. CASE CheckDupe(d)
  BY <1>6 DEF CheckDupe, Advance
<1>7. CASE CreateOutput(d)
  BY <1>7 DEF CreateOutput, Attempted, Advance
<1>8. CASE ReadArticle(d) \/ DecodeCheck(d) \/ AfterAttempt(d)
  BY <1>8 DEF ReadArticle, DecodeCheck, AfterAttempt, Attempted
<1>9. CASE Report(d) \/ ReleaseSkipped(d) \/ Exit(d) \/ Terminate(d)
  BY <1>9 DEF Report, ReleaseSkipped, Exit, Terminate, Reset
<1> QED BY <1>2, <1>3, <1>4, <1>5, <1>6, <1>7, <1>8, <1>9 DEF StepOf, Step

\* If no download is terminated, no file of the name exists and the disk does not fail, the
\* mutex of the output file is locked exactly while a download is inside, and one at most
\* is.  (In the other cases it may stay locked, as a run shows.)
THEOREM OutputMutexHolds ==
    ASSUME ~Watchdog, ~OnDisk, ~DiskFails
    PROVE  Spec => [](OutputMutexIsOwned /\ MutexInv)
<1>1. Init => MutexInv
  BY DEF Init, MutexInv, Inside
<1>2. IInv /\ MutexInv /\ [Next]_vars => MutexInv'
  <2> SUFFICES ASSUME IInv, MutexInv, [Next]_vars PROVE MutexInv'
    OBVIOUS
  <2>1. ASSUME NEW d \in Downloaders, StepOf(d) PROVE MutexInv'
    <3>1. \A e \in Downloaders \ {d} : Inside(e)' <=> Inside(e)
      BY <2>1, OthersUnchanged DEF IInv, Inside
    <3> QED BY <2>1, <3>1, StepOnMutex DEF MutexInv
  <2>2. CASE Cancel \/ SetPauseDownload \/ UNCHANGED vars
    BY <2>2 DEF Cancel, SetPauseDownload, vars, file, MutexInv, Inside
  <2> QED BY <2>1, <2>2 DEF Next, StepOf
<1>3. MutexInv => OutputMutexIsOwned
  BY DEF MutexInv, OutputMutexIsOwned, Inside
<1> QED BY <1>1, <1>2, <1>3, InvariantHolds, PTL DEF Spec

-----------------------------------------------------------------------------
(* The contract with the queue.                                             *)

\* What the contract sees of a step: the status, and whether there is a connection.
LEMMA ContractView ==
    ASSUME IInv, NEW d \in Downloaders
    PROVE  /\ conn' = [conn EXCEPT ![d] = NoLevel] => Holding' = Holding \ {d}
           /\ \A l \in Levels : conn' = [conn EXCEPT ![d] = l] => Holding' = Holding \union {d}
           /\ conn' = conn => Holding' = Holding
           /\ d \in Holding <=> conn[d] # NoLevel
<1>1. conn \in [Downloaders -> Levels \union {NoLevel}] /\ NoLevel \notin Levels
  BY LevelsAndOptions DEF IInv, TypeOK
<1>2. conn' = [conn EXCEPT ![d] = NoLevel] => Holding' = Holding \ {d}
  BY <1>1 DEF Holding
<1>3. \A l \in Levels : conn' = [conn EXCEPT ![d] = l] => Holding' = Holding \union {d}
  BY <1>1 DEF Holding
<1> QED BY <1>2, <1>3 DEF Holding

\* Every step of a download is one that the contract allows, or one that it does not see.
LEMMA StepKeepsContract ==
    ASSUME IInv, NEW d \in Downloaders, StepOf(d)
    PROVE  Contract!Next \/ UNCHANGED <<status, Holding>>
<1>1. /\ TypeOK /\ PlaceInv(d)
      /\ conn' = [conn EXCEPT ![d] = NoLevel] => Holding' = Holding \ {d}
      /\ \A l \in Levels : conn' = [conn EXCEPT ![d] = l] => Holding' = Holding \union {d}
      /\ conn' = conn => Holding' = Holding
      /\ d \in Holding <=> conn[d] # NoLevel
  BY ContractView DEF IInv
<1> USE <1>1 DEF Contract!Becomes, Contract!AtWork, SetStatus, FreeConnection, Goto
<1>2. at[d] \in Places \ {"none", "start", "report", "leaving"} =>
          status[d] \in {"running", "decoding"}
  BY DEF PlaceInv, StatusOfPlace, TypeOK
<1>3. CASE Create(d)
  <2>1. Contract!Create(d)
    BY <1>3, LevelsAndOptions DEF Create, Exists, Contract!Create
  <2> QED BY <2>1 DEF Contract!Next
<1>4. CASE Begin(d)
  <2>1. Contract!Begin(d)
    BY <1>4 DEF Begin, Contract!Begin, PlaceInv, StatusOfPlace
  <2> QED BY <2>1 DEF Contract!Next
<1>5. CASE Acquire(d)
  <2>1. Contract!Acquire(d)
    BY <1>2, <1>5 DEF Acquire, WantsMore, Contract!Acquire, TypeOK, Places
  <2> QED BY <2>1 DEF Contract!Next
<1>6. ASSUME NEW outcome \in {"finished", "failed", "retry"},
             at[d] \in Places \ {"none", "start", "report", "leaving"},
             outcome = "retry" => pause,
             outcome = "finished" => status[d] = "decoding" \/ DupeCheck,
             SetStatus(d, outcome), FreeConnection(d)
      PROVE  Contract!Next
  <2>1. Contract!Finish(d, outcome)
    BY <1>2, <1>6 DEF Contract!Finish
  <2> QED BY <2>1 DEF Contract!Next
<1>7. ASSUME NEW r, Finish(d, r),
             at[d] \in Places \ {"none", "start", "report", "leaving"},
             r = "retry" => pause,
             r = "finished" => status[d] = "decoding"
      PROVE  Contract!Next
  <2>1. d \in duplicate => DupeCheck
    BY DEF PlaceInv, OptionsOfPlace
  <2>2. PICK outcome \in {"finished", "failed", "retry"} :
            /\ outcome = "retry" => pause
            /\ outcome = "finished" => status[d] = "decoding" \/ DupeCheck
            /\ SetStatus(d, outcome)
    BY <1>7, <2>1 DEF Finish
  <2> QED BY <1>6, <1>7, <2>2 DEF Finish
<1>8. CASE LoopTop(d)
  <2>1. CASE Finish(d, "failed")
    BY <1>7, <1>8, <2>1 DEF LoopTop, Places
  <2>2. CASE pause /\ Finish(d, "retry")
    BY <1>7, <1>8, <2>2 DEF LoopTop, Places
  <2>3. CASE UNCHANGED <<status, conn>>
    BY <2>3
  <2> QED BY <1>8, <2>1, <2>2, <2>3 DEF LoopTop
<1>9. CASE Connect(d) \/ Fetch(d) \/ LockOutputFile(d) \/ CheckDupe(d) \/ CreateOutput(d)
           \/ OpenFile(d) \/ DecodeCheck(d)
  <2>1. UNCHANGED <<status, conn>>
    BY <1>9
    DEF Connect, Fetch, LockOutputFile, CheckDupe, CreateOutput, OpenFile, DecodeCheck,
        Attempted, Advance
  <2> QED BY <2>1
<1>10. CASE ReadHeader(d) \/ ReadArticle(d)
  <2>1. CASE UNCHANGED <<status, conn>>
    BY <2>1
  <2>2. CASE d \notin halted /\ FreeConnection(d) /\ SetStatus(d, "decoding")
    <3>1. Contract!Fetch(d)
      BY <1>2, <1>10, <2>2
      DEF ReadHeader, ReadArticle, Contract!Fetch, PlaceInv, ConnectionOfPlace, OnNetwork,
          Places, Attempted, Advance
    <3> QED BY <3>1 DEF Contract!Next
  <2> QED BY <1>10, <2>1, <2>2 DEF ReadHeader, ReadArticle, Attempted, Advance
<1>11. CASE AfterAttempt(d)
  <2>1. CASE UNCHANGED <<status, conn>>
    BY <2>1
  <2>2. CASE UNCHANGED status /\ FreeConnection(d) /\ conn[d] # NoLevel
    <3>1. Contract!Release(d)
      BY <1>2, <1>11, <2>2 DEF AfterAttempt, Contract!Release, Places
    <3> QED BY <3>1 DEF Contract!Next
  <2> QED BY <1>11, <2>1, <2>2 DEF AfterAttempt, TypeOK
<1>12. CASE AfterWait(d)
  <2>1. CASE pause /\ Finish(d, "retry")
    BY <1>7, <1>12, <2>1 DEF AfterWait, Places
  <2>2. CASE UNCHANGED <<status, conn>>
    BY <2>2
  <2> QED BY <1>12, <2>1, <2>2 DEF AfterWait
<1>13. CASE Judge(d)
  <2>1. at[d] = "judge" /\ (result[d] = "finished" => status[d] = "decoding")
        /\ result[d] # "retry"
    BY <1>13 DEF Judge, PlaceInv, ResultOfPlace, TypeOK
  <2>2. CASE \E r \in {"failed", "notfound", result[d]} : Finish(d, r)
    BY <1>7, <2>1, <2>2 DEF Places
  <2>3. CASE UNCHANGED <<status, conn>>
    BY <2>3
  <2> QED BY <1>13, <2>2, <2>3 DEF Judge
<1>14. CASE Report(d)
  <2>1. Contract!Report(d)
    BY <1>14 DEF Report, Contract!Report, PlaceInv, StatusOfPlace
  <2> QED BY <2>1 DEF Contract!Next
<1>15. CASE ReleaseSkipped(d)
  <2>1. Contract!Release(d)
    BY <1>15 DEF ReleaseSkipped, Contract!Release, PlaceInv, StatusOfPlace
  <2> QED BY <2>1 DEF Contract!Next
<1>16. CASE Exit(d)
  <2>1. Contract!Exit(d)
    BY <1>16 DEF Exit, Reset, Contract!Exit, PlaceInv, StatusOfPlace
  <2> QED BY <2>1 DEF Contract!Next
<1>17. CASE Terminate(d)
  <2>1. Contract!Terminate(d)
    BY <1>17 DEF Terminate, Reset, Contract!Terminate
  <2> QED BY <2>1 DEF Contract!Next
<1> QED BY <1>3, <1>4, <1>5, <1>8, <1>9, <1>10, <1>11, <1>12, <1>13, <1>14, <1>15, <1>16, <1>17
        DEF StepOf, Step

\* The downloads do what the queue expects of them: they hold connections only while they
\* are at work, end with an outcome that fits, and leave nothing behind, for any number of
\* levels, retries and downloads.
THEOREM DownloaderKeepsContract == Spec => ImplementsDownloads
<1>1. Init => Contract!Init
  BY LevelsAndOptions DEF Init, Contract!Init, Holding
<1>2. IInv /\ [Next]_vars => [Contract!Next]_<<status, Holding>>
  <2> SUFFICES ASSUME IInv, [Next]_vars PROVE Contract!Next \/ UNCHANGED <<status, Holding>>
    OBVIOUS
  <2>1. CASE Cancel \/ SetPauseDownload \/ UNCHANGED vars
    BY <2>1 DEF Cancel, SetPauseDownload, vars, Holding
  <2> QED BY <2>1, StepKeepsContract DEF Next, StepOf
<1> QED BY <1>1, <1>2, InvariantHolds, PTL DEF Spec, ImplementsDownloads, Contract!Spec
=============================================================================
