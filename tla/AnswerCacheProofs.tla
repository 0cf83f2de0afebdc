-------------------------- MODULE AnswerCacheProofs --------------------------
(***************************************************************************)
(* Theorems about AnswerCache, for any set of turns and questions, any     *)
(* counts and any number of ingestion commits.                             *)
(*                                                                         *)
(* IInv is the inductive invariant behind all of them.  Its parts: a turn  *)
(* inside get() or put() is the one that holds the event loop; what is in  *)
(* query_log is what the turns' outcomes say, and a turn that goes on after*)
(* a hit is one whose replay failed; a turn with something to store has    *)
(* read its rows; and a report found out of date once is marked for as     *)
(* long as it is stored.                                                   *)
(***************************************************************************)
EXTENDS AnswerCache, TLAPS

LoopInv ==
    \A t \in Turns : stage[t] \in {"select", "upsert"} <=> loop = t

LogInv ==
    /\ \A t \in Turns :
          /\ storeLog[t] \in {0, 1}
          /\ hitLog[t] = IF reply[t] = NoEntry THEN 0 ELSE 1
          /\ stage[t] # "done" => storeLog[t] = 0
          /\ stage[t] \in {"new", "select"} => reply[t] = NoEntry
          /\ stage[t] = "replay" => reply[t] # NoEntry /\ t \notin undelivered
          /\ stage[t] \in {"query", "store", "upsert"} /\ reply[t] # NoEntry
             => t \in undelivered
          /\ reply[t] # NoEntry /\ storeLog[t] # 0 => t \in undelivered
          /\ t \in undelivered => reply[t] # NoEntry
    /\ \A q \in Questions :
          cache[q] # NoEntry => storeLog[cache[q].by] = 1 /\ asked[cache[q].by] = q

RowsInv == \A t \in Turns : stage[t] \in {"store", "upsert"} => rows[t] # 0

CondemnedInv ==
    /\ \A t \in condemned : storeLog[t] = 1
    /\ \A q \in Questions :
          cache[q] # NoEntry /\ cache[q].by \in condemned => cache[q].invalidated

IInv == TypeOK /\ LoopInv /\ LogInv /\ RowsInv /\ CondemnedInv
------------------------------------------------------------------------------
\* What an ingestion commit does to the history of the counts.
LEMMA AppendStep ==
    ASSUME TypeOK, Ingest
    PROVE  /\ commits' \in Seq(FactCounts)
           /\ Len(commits') = Len(commits) + 1
           /\ \A i \in 1..Len(commits) : commits'[i] = commits[i]
<1>1. PICK n \in FactCounts : commits' = Append(commits, n)
  BY DEF Ingest
<1>2. commits \in Seq(FactCounts)
  BY DEF TypeOK
<1>. QED
  BY <1>1, <1>2

\* Types; Put needs RowsInv: only a turn that ran its SQL gets there.
LEMMA TypeStep ==
    ASSUME TypeOK, RowsInv, [Next]_vars
    PROVE  TypeOK'
<1> USE DEF TypeOK, RowsInv, Stages, Readings, Entries, Revision, Fingerprint
<1>1. CASE Ingest
  <2>1. commits' \in Seq(FactCounts) /\ Len(commits') = Len(commits) + 1
    BY <1>1, AppendStep
  <2>2. Len(commits') \in 1..MaxCommits
    BY <1>1, <2>1, BoundAssumption DEF Ingest
  <2>. QED
    BY <1>1, <2>1, <2>2 DEF Ingest
<1>2. CASE Restart
  BY <1>2 DEF Restart, InFlight
<1>3. ASSUME NEW t \in Turns, BeginGet(t) PROVE TypeOK'
  BY <1>3 DEF BeginGet, Moves, VersionNow
<1>4. ASSUME NEW t \in Turns, GetMiss(t) PROVE TypeOK'
  BY <1>4 DEF GetMiss, Moves
<1>5. ASSUME NEW t \in Turns, GetStale(t) PROVE TypeOK'
  BY <1>5 DEF GetStale, Moves, Stale
<1>6. ASSUME NEW t \in Turns, GetHit(t) PROVE TypeOK'
  BY <1>6 DEF GetHit, Moves, Stale
<1>7. ASSUME NEW t \in Turns, RunSql(t) PROVE TypeOK'
  BY <1>7, BoundAssumption DEF RunSql
<1>8. ASSUME NEW t \in Turns, EndUnfiled(t) PROVE TypeOK'
  BY <1>8 DEF EndUnfiled
<1>9. ASSUME NEW t \in Turns, BeginPut(t) PROVE TypeOK'
  BY <1>9 DEF BeginPut, Moves, VersionNow
<1>10. ASSUME NEW t \in Turns, Put(t) PROVE TypeOK'
  BY <1>10 DEF Put, Moves
<1>11. ASSUME NEW t \in Turns, PutFails(t) PROVE TypeOK'
  BY <1>11 DEF PutFails, Moves
<1>13. ASSUME NEW t \in Turns, ReplayEnds(t) PROVE TypeOK'
  BY <1>13 DEF ReplayEnds, Moves
<1>14. ASSUME NEW t \in Turns, ReplayFails(t) PROVE TypeOK'
  BY <1>14 DEF ReplayFails, Moves
<1>12. CASE UNCHANGED vars
  BY <1>12 DEF vars, Revision
<1>. QED
  BY <1>1, <1>2, <1>3, <1>4, <1>5, <1>6, <1>7, <1>8, <1>9, <1>10, <1>11, <1>12, <1>13,
     <1>14 DEF Next, Get, Replay, EndPut

\* Only the turn that holds the loop is inside get() or put().
LEMMA LoopStep ==
    ASSUME TypeOK, LoopInv, [Next]_vars
    PROVE  LoopInv'
<1> USE DEF TypeOK, LoopInv, Stages
<1>1. CASE Ingest
  BY <1>1, NoTurnAssumption DEF Ingest, Revision, Fingerprint
<1>2. CASE Restart
  BY <1>2, NoTurnAssumption DEF Restart, InFlight
<1>3. ASSUME NEW t \in Turns, BeginGet(t) PROVE LoopInv'
  BY <1>3, NoTurnAssumption DEF BeginGet, Moves, VersionNow
<1>4. ASSUME NEW t \in Turns, GetMiss(t) PROVE LoopInv'
  BY <1>4, NoTurnAssumption DEF GetMiss, Moves
<1>5. ASSUME NEW t \in Turns, GetStale(t) PROVE LoopInv'
  BY <1>5, NoTurnAssumption DEF GetStale, Moves, Stale
<1>6. ASSUME NEW t \in Turns, GetHit(t) PROVE LoopInv'
  BY <1>6, NoTurnAssumption DEF GetHit, Moves, Stale
<1>7. ASSUME NEW t \in Turns, RunSql(t) PROVE LoopInv'
  BY <1>7, NoTurnAssumption DEF RunSql
<1>8. ASSUME NEW t \in Turns, EndUnfiled(t) PROVE LoopInv'
  BY <1>8, NoTurnAssumption DEF EndUnfiled
<1>9. ASSUME NEW t \in Turns, BeginPut(t) PROVE LoopInv'
  BY <1>9, NoTurnAssumption DEF BeginPut, Moves, VersionNow
<1>10. ASSUME NEW t \in Turns, Put(t) PROVE LoopInv'
  BY <1>10, NoTurnAssumption DEF Put, Moves
<1>11. ASSUME NEW t \in Turns, PutFails(t) PROVE LoopInv'
  BY <1>11, NoTurnAssumption DEF PutFails, Moves
<1>13. ASSUME NEW t \in Turns, ReplayEnds(t) PROVE LoopInv'
  BY <1>13, NoTurnAssumption DEF ReplayEnds, Moves
<1>14. ASSUME NEW t \in Turns, ReplayFails(t) PROVE LoopInv'
  BY <1>14, NoTurnAssumption DEF ReplayFails, Moves
<1>12. CASE UNCHANGED vars
  BY <1>12 DEF vars, Revision
<1>. QED
  BY <1>1, <1>2, <1>3, <1>4, <1>5, <1>6, <1>7, <1>8, <1>9, <1>10, <1>11, <1>12, <1>13,
     <1>14 DEF Next, Get, Replay, EndPut

\* query_log against the turns' outcomes.
LEMMA LogStep ==
    ASSUME TypeOK, LogInv, [Next]_vars
    PROVE  LogInv'
<1> USE DEF TypeOK, LogInv, Stages, Entries
<1>1. CASE Ingest
  BY <1>1, NoEntryAssumption DEF Ingest, Revision, Fingerprint
<1>2. CASE Restart
  BY <1>2, NoEntryAssumption DEF Restart, InFlight
<1>3. ASSUME NEW t \in Turns, BeginGet(t) PROVE LogInv'
  BY <1>3, NoEntryAssumption DEF BeginGet, Moves, VersionNow
<1>4. ASSUME NEW t \in Turns, GetMiss(t) PROVE LogInv'
  BY <1>4, NoEntryAssumption DEF GetMiss, Moves
<1>5. ASSUME NEW t \in Turns, GetStale(t) PROVE LogInv'
  BY <1>5, NoEntryAssumption DEF GetStale, Moves, Stale
<1>6. ASSUME NEW t \in Turns, GetHit(t) PROVE LogInv'
  BY <1>6, NoEntryAssumption DEF GetHit, Moves, Stale
<1>7. ASSUME NEW t \in Turns, RunSql(t) PROVE LogInv'
  BY <1>7, NoEntryAssumption DEF RunSql
<1>8. ASSUME NEW t \in Turns, EndUnfiled(t) PROVE LogInv'
  BY <1>8, NoEntryAssumption DEF EndUnfiled
<1>9. ASSUME NEW t \in Turns, BeginPut(t) PROVE LogInv'
  BY <1>9, NoEntryAssumption DEF BeginPut, Moves, VersionNow
<1>10. ASSUME NEW t \in Turns, Put(t) PROVE LogInv'
  BY <1>10, NoEntryAssumption DEF Put, Moves
<1>11. ASSUME NEW t \in Turns, PutFails(t) PROVE LogInv'
  BY <1>11, NoEntryAssumption DEF PutFails, Moves
<1>13. ASSUME NEW t \in Turns, ReplayEnds(t) PROVE LogInv'
  BY <1>13, NoEntryAssumption DEF ReplayEnds, Moves
<1>14. ASSUME NEW t \in Turns, ReplayFails(t) PROVE LogInv'
  BY <1>14, NoEntryAssumption DEF ReplayFails, Moves
<1>12. CASE UNCHANGED vars
  BY <1>12 DEF vars, Revision
<1>. QED
  BY <1>1, <1>2, <1>3, <1>4, <1>5, <1>6, <1>7, <1>8, <1>9, <1>10, <1>11, <1>12, <1>13,
     <1>14 DEF Next, Get, Replay, EndPut

\* Rows are read before the version they will be stamped with.
LEMMA RowsStep ==
    ASSUME TypeOK, RowsInv, [Next]_vars
    PROVE  RowsInv'
<1> USE DEF TypeOK, RowsInv, Stages, Readings, Entries, Revision
<1>1. CASE Ingest
  <2>1. Len(commits) \in Nat /\ Len(commits') = Len(commits) + 1
    BY <1>1, AppendStep
  <2>. QED
    BY <1>1, <2>1 DEF Ingest
<1>2. CASE Restart
  BY <1>2 DEF Restart, InFlight
<1>3. ASSUME NEW t \in Turns, BeginGet(t) PROVE RowsInv'
  BY <1>3 DEF BeginGet, Moves, VersionNow
<1>4. ASSUME NEW t \in Turns, GetMiss(t) PROVE RowsInv'
  BY <1>4 DEF GetMiss, Moves
<1>5. ASSUME NEW t \in Turns, GetStale(t) PROVE RowsInv'
  BY <1>5, NoEntryAssumption DEF GetStale, Moves, Stale
<1>6. ASSUME NEW t \in Turns, GetHit(t) PROVE RowsInv'
  BY <1>6 DEF GetHit, Moves, Stale
<1>7. ASSUME NEW t \in Turns, RunSql(t) PROVE RowsInv'
  BY <1>7 DEF RunSql
<1>8. ASSUME NEW t \in Turns, EndUnfiled(t) PROVE RowsInv'
  BY <1>8 DEF EndUnfiled
<1>9. ASSUME NEW t \in Turns, BeginPut(t) PROVE RowsInv'
  BY <1>9 DEF BeginPut, Moves, VersionNow
<1>10. ASSUME NEW t \in Turns, Put(t) PROVE RowsInv'
  BY <1>10, NoEntryAssumption DEF Put, Moves
<1>11. ASSUME NEW t \in Turns, PutFails(t) PROVE RowsInv'
  BY <1>11 DEF PutFails, Moves
<1>13. ASSUME NEW t \in Turns, ReplayEnds(t) PROVE RowsInv'
  BY <1>13 DEF ReplayEnds, Moves
<1>14. ASSUME NEW t \in Turns, ReplayFails(t) PROVE RowsInv'
  BY <1>14 DEF ReplayFails, Moves
<1>12. CASE UNCHANGED vars
  BY <1>12 DEF vars
<1>. QED
  BY <1>1, <1>2, <1>3, <1>4, <1>5, <1>6, <1>7, <1>8, <1>9, <1>10, <1>11, <1>12, <1>13,
     <1>14 DEF Next, Get, Replay, EndPut

\* A report found out of date keeps its mark until another turn's replaces it.
LEMMA CondemnedStep ==
    ASSUME TypeOK, LogInv, CondemnedInv, [Next]_vars
    PROVE  CondemnedInv'
<1> USE DEF TypeOK, LogInv, CondemnedInv, Stages, Entries
<1>1. CASE Ingest
  BY <1>1 DEF Ingest
<1>2. CASE Restart
  BY <1>2 DEF Restart, InFlight
<1>3. ASSUME NEW t \in Turns, BeginGet(t) PROVE CondemnedInv'
  BY <1>3 DEF BeginGet, Moves, VersionNow
<1>4. ASSUME NEW t \in Turns, GetMiss(t) PROVE CondemnedInv'
  BY <1>4 DEF GetMiss, Moves
<1>5. ASSUME NEW t \in Turns, GetStale(t) PROVE CondemnedInv'
  <2>1. cache[asked[t]] \in Entries /\ asked[t] \in Questions
    BY <1>5 DEF GetStale
  <2>2. \A q \in Questions :
           /\ q = asked[t] => cache'[q].invalidated
           /\ q # asked[t] => cache'[q] = cache[q]
    BY <1>5, <2>1 DEF GetStale
  <2>3. cache[asked[t]].by \in Turns /\ cache'[asked[t]].by = cache[asked[t]].by
    BY <1>5, <2>1 DEF GetStale
  <2>4. storeLog[cache[asked[t]].by] = 1 /\ asked[cache[asked[t]].by] = asked[t]
    BY <1>5, <2>1 DEF GetStale
  <2>5. \A q \in Questions :
           cache'[q] # NoEntry /\ cache'[q].by \in condemned' => cache'[q].invalidated
    <3> SUFFICES ASSUME NEW q \in Questions, cache'[q] # NoEntry,
                        cache'[q].by \in condemned'
                 PROVE  cache'[q].invalidated
      OBVIOUS
    <3>1. CASE q = asked[t]
      BY <2>2, <3>1
    <3>2. CASE q # asked[t] /\ cache[q].by # cache[asked[t]].by
      BY <1>5, <2>2, <3>2 DEF GetStale
    <3>3. CASE q # asked[t] /\ cache[q].by = cache[asked[t]].by
      BY <1>5, <2>2, <2>4, <3>3 DEF GetStale
    <3>. QED
      BY <3>1, <3>2, <3>3
  <2>6. \A u \in condemned' : storeLog'[u] = 1
    BY <1>5, <2>4 DEF GetStale
  <2>. QED
    BY <2>5, <2>6
<1>6. ASSUME NEW t \in Turns, GetHit(t) PROVE CondemnedInv'
  BY <1>6 DEF GetHit, Moves, Stale
<1>7. ASSUME NEW t \in Turns, RunSql(t) PROVE CondemnedInv'
  BY <1>7 DEF RunSql
<1>8. ASSUME NEW t \in Turns, EndUnfiled(t) PROVE CondemnedInv'
  BY <1>8 DEF EndUnfiled
<1>9. ASSUME NEW t \in Turns, BeginPut(t) PROVE CondemnedInv'
  BY <1>9 DEF BeginPut, Moves, VersionNow
<1>10. ASSUME NEW t \in Turns, Put(t) PROVE CondemnedInv'
  <2>0. stage[t] = "upsert"
    BY <1>10 DEF Put, Moves
  <2>1. t \notin condemned
    <3>1. storeLog[t] = 0
      BY <2>0
    <3>. QED
      BY <3>1
  <2>2. cache'[asked[t]].by = t /\ asked[t] \in Questions
    BY <1>10 DEF Put
  <2>3. \A q \in Questions : q # asked[t] => cache'[q] = cache[q]
    BY <1>10 DEF Put
  <2>4. condemned' = condemned
    BY <1>10 DEF Put
  <2>5. \A u \in condemned : storeLog'[u] = 1
    <3> SUFFICES ASSUME NEW u \in condemned PROVE storeLog'[u] = 1
      OBVIOUS
    <3>1. u # t /\ u \in Turns /\ storeLog[u] = 1
      BY <2>1
    <3>. QED
      BY <1>10, <3>1 DEF Put
  <2>6. ASSUME NEW q \in Questions, cache'[q] # NoEntry, cache'[q].by \in condemned
        PROVE  cache'[q].invalidated
    <3>1. q # asked[t]
      BY <2>1, <2>2, <2>6
    <3>. QED
      BY <2>3, <2>6, <3>1
  <2>. QED
    BY <2>4, <2>5, <2>6
<1>11. ASSUME NEW t \in Turns, PutFails(t) PROVE CondemnedInv'
  BY <1>11 DEF PutFails, Moves
<1>13. ASSUME NEW t \in Turns, ReplayEnds(t) PROVE CondemnedInv'
  BY <1>13 DEF ReplayEnds, Moves
<1>14. ASSUME NEW t \in Turns, ReplayFails(t) PROVE CondemnedInv'
  BY <1>14 DEF ReplayFails, Moves
<1>12. CASE UNCHANGED vars
  BY <1>12 DEF vars
<1>. QED
  BY <1>1, <1>2, <1>3, <1>4, <1>5, <1>6, <1>7, <1>8, <1>9, <1>10, <1>11, <1>12, <1>13,
     <1>14 DEF Next, Get, Replay, EndPut
------------------------------------------------------------------------------
LEMMA InitIInv == Init => IInv
<1> SUFFICES ASSUME Init PROVE IInv
  OBVIOUS
<1>0. commits \in Seq(FactCounts) /\ Len(commits) = 1 /\ 1 \in 1..MaxCommits
  <2>1. PICK n \in FactCounts : commits = <<n>>
    BY DEF Init
  <2>. QED
    BY <2>1, BoundAssumption
<1>1. TypeOK
  <2>1. Revision \in 1..MaxCommits
    BY <1>0 DEF Revision
  <2>2. seen \in [Turns -> Readings]
    BY <1>0 DEF Init, Readings
  <2>3. rows \in [Turns -> 0..MaxCommits]
    BY BoundAssumption DEF Init
  <2>. QED
    BY <1>0, <2>1, <2>2, <2>3 DEF Init, TypeOK, Stages
<1>2. LoopInv /\ LogInv
  BY <1>1, NoTurnAssumption DEF Init, LoopInv, LogInv
<1>3. RowsInv /\ CondemnedInv
  BY <1>0 DEF Init, RowsInv, CondemnedInv, Revision
<1>. QED
  BY <1>1, <1>2, <1>3 DEF IInv

LEMMA StepIInv == IInv /\ [Next]_vars => IInv'
  BY TypeStep, LoopStep, LogStep, RowsStep, CondemnedStep DEF IInv

THEOREM Invariance == Spec => []IInv
  BY InitIInv, StepIInv, PTL DEF Spec

\* The state of app/db_cache.py's callers and tables keeps its types.
THEOREM TypeCorrect == Spec => []TypeOK
  BY Invariance, PTL DEF IInv

\* get() and put() are single transactions over both tables: whichever step
\* fails, report_cache and query_log agree, and only a turn whose replay could
\* not be saved is in the log for a hit and for a report of its own.
THEOREM AuditAgrees == Spec => []AuditMatchesCache
<1>1. IInv => AuditMatchesCache
  <2> SUFFICES ASSUME LogInv PROVE AuditMatchesCache
    BY DEF IInv
  <2>1. ASSUME NEW t \in Turns
        PROVE  /\ hitLog[t] = (IF reply[t] = NoEntry THEN 0 ELSE 1)
               /\ storeLog[t] <= 1
               /\ hitLog[t] + storeLog[t] > 1 => t \in undelivered
    BY DEF LogInv
  <2>. QED
    BY <2>1 DEF LogInv, AuditMatchesCache
<1>. QED
  BY <1>1, Invariance, PTL

\* While fingerprints can be read, what get() invalidated stays out.
THEOREM CondemnedNeverReplayed == Spec => CondemnedStaysOut
<1>1. ASSUME IInv, [Next]_vars, NEW t \in Turns, reply'[t] # reply[t],
             seen[t].version # NoVersion
      PROVE  reply'[t].by \notin condemned
  <2>1. GetHit(t)
    <3> USE DEF IInv, TypeOK
    <3>1. ASSUME NEW u \in Turns, GetHit(u) PROVE u = t
      BY <1>1, <3>1 DEF GetHit
    <3>2. reply' # reply
      BY <1>1
    <3>. QED
      BY <1>1, <3>1, <3>2 DEF Next, Get, EndPut, vars, Ingest, Restart, BeginGet,
         GetMiss, GetStale, Replay, ReplayEnds, ReplayFails, RunSql, EndUnfiled,
         BeginPut, Put, PutFails
  <2>2. reply'[t] = cache[asked[t]] /\ asked[t] \in Questions
    BY <1>1, <2>1 DEF GetHit, IInv, TypeOK
  <2>3. cache[asked[t]] # NoEntry /\ ~cache[asked[t]].invalidated
    BY <1>1, <2>1 DEF GetHit, Stale
  <2>. QED
    BY <1>1, <2>2, <2>3 DEF IInv, CondemnedInv
<1>2. IInv /\ [Next]_vars
      => [\A t \in Turns : /\ reply'[t] # reply[t]
                           /\ seen[t].version # NoVersion
                           => reply'[t].by \notin condemned]_vars
  BY <1>1
<1>. QED
  BY <1>2, Invariance, PTL DEF Spec, CondemnedStaysOut
------------------------------------------------------------------------------
(***************************************************************************)
(* Where every load raises the counts, equal versions are equal commits,   *)
(* so a report stamped at the commit its rows were read at is replayed     *)
(* only while that commit is current.                                      *)
(***************************************************************************)
Honest(reading) ==
    /\ reading.at \in 1..Revision
    /\ reading.version # NoVersion => reading.version = commits[reading.at]

GrowInv ==
    /\ \A t \in Turns : Honest(seen[t])
    /\ \A q \in Questions : cache[q] # NoEntry => Honest(cache[q].stamp)
    /\ \A t \in Turns, q \in Questions :
          stage[t] = "select" /\ cache[q] # NoEntry => cache[q].stamp.at <= seen[t].at
    /\ SettledReportsAreCurrent

LEMMA GrowInit == Init => GrowInv
<1> SUFFICES ASSUME Init PROVE GrowInv
  OBVIOUS
<1>1. Len(commits) = 1
  BY DEF Init
<1>. QED
  BY <1>1, NoEntryAssumption
  DEF Init, GrowInv, Honest, Revision, SettledReportsAreCurrent

\* A reading is as true after an ingestion commit as before it.
LEMMA IngestKeepsReadings ==
    ASSUME TypeOK, Ingest, NEW r, Honest(r)
    PROVE  Honest(r)'
<1>1. /\ Len(commits) \in Nat /\ Len(commits') = Len(commits) + 1
      /\ \A i \in 1..Len(commits) : commits'[i] = commits[i]
  BY AppendStep DEF TypeOK
<1>. QED
  BY <1>1 DEF Honest, Revision

LEMMA GrowIngest == ASSUME TypeOK, GrowInv, Ingest PROVE GrowInv'
<1>1. UNCHANGED <<seen, cache, reply, stage>>
  BY DEF Ingest
<1>2. \A t \in Turns : Honest(seen[t])' /\ (OnlyGrewTo(seen[t].at)' => OnlyGrewTo(seen[t].at))
  <2> SUFFICES ASSUME NEW t \in Turns
               PROVE  Honest(seen[t])' /\ (OnlyGrewTo(seen[t].at)' => OnlyGrewTo(seen[t].at))
    OBVIOUS
  <2> DEFINE r == seen[t]
  <2>1. Honest(r) /\ r' = r
    BY <1>1 DEF GrowInv
  <2>2. Len(commits') = Len(commits) + 1 /\ Len(commits) \in Nat
        /\ \A i \in 1..Len(commits) : commits'[i] = commits[i]
    BY AppendStep DEF TypeOK
  <2>3. r.at \in 1..Len(commits)
    BY <2>1 DEF Honest, Revision
  <2>4. Honest(seen[t])'
    BY <2>1, <2>2, <2>3 DEF Honest, Revision
  <2>5. OnlyGrewTo(seen[t].at)' => OnlyGrewTo(seen[t].at)
    BY <2>1, <2>2, <2>3 DEF OnlyGrewTo
  <2>. QED
    BY <2>4, <2>5
<1>3. \A q \in Questions : cache'[q] # NoEntry => Honest(cache[q].stamp)'
  BY <1>1, IngestKeepsReadings DEF GrowInv
<1>4. SettledReportsAreCurrent'
  BY <1>1, <1>2 DEF GrowInv, SettledReportsAreCurrent
<1>. QED
  BY <1>1, <1>2, <1>3, <1>4 DEF GrowInv

\* Steps inside the web process, which leave the filings alone.
LEMMA GrowStep == ASSUME IInv, GrowInv, [Next]_vars PROVE GrowInv'
<1> USE DEF IInv, TypeOK
<1>0. /\ Revision \in 1..Revision
      /\ \A i \in 1..Revision : commits[i] \in Nat
  <2>1. \A i \in 1..Revision : commits[i] \in FactCounts
    BY DEF Revision
  <2>2. Revision \in Nat /\ Revision >= 1
    BY BoundAssumption
  <2>3. \A i \in 1..Revision : commits[i] \in Nat
    BY <2>1, CountsAssumption
  <2>4. Revision \in 1..Revision
    BY <2>2
  <2>. QED
    BY <2>3, <2>4
<1>1. CASE Ingest
  BY <1>1, GrowIngest
<1>2. CASE UNCHANGED commits
  <2>1. \A r : Honest(r) => Honest(r)'
    BY <1>2 DEF Honest, Revision
  <2>2. \A n : OnlyGrewTo(n)' <=> OnlyGrewTo(n)
    BY <1>2 DEF OnlyGrewTo
  \* get() or put() reads the version.
  <2>3. ASSUME NEW t \in Turns, BeginGet(t) \/ BeginPut(t) PROVE GrowInv'
    <3>1. PICK v \in VersionNow : seen' = [seen EXCEPT ![t] = v]
      BY <2>3 DEF BeginGet, BeginPut
    <3>2. v.at = Revision /\ v.version \in {Fingerprint, NoVersion}
      BY <3>1 DEF VersionNow
    <3>3. Honest(v)
      BY <1>0, <3>2 DEF Honest, Fingerprint
    <3>4. /\ UNCHANGED <<cache, reply>>
          /\ \A u \in Turns : u # t => seen'[u] = seen[u] /\ stage'[u] = stage[u]
          /\ seen'[t] = v /\ stage'[t] # "replay"
      BY <2>3, <3>1 DEF BeginGet, BeginPut, Moves
    <3>5. \A u \in Turns : Honest(seen[u])'
      BY <1>2, <3>3, <3>4 DEF GrowInv, Honest, Revision
    <3>6. \A q \in Questions : cache[q] # NoEntry => cache[q].stamp.at <= Revision
      BY <1>0 DEF GrowInv, Honest
    <3>7. \A u \in Turns, q \in Questions :
             stage'[u] = "select" /\ cache'[q] # NoEntry
             => cache'[q].stamp.at <= seen'[u].at
      BY <3>2, <3>4, <3>6 DEF GrowInv
    <3>8. SettledReportsAreCurrent'
      BY <2>2, <3>4 DEF GrowInv, SettledReportsAreCurrent
    <3>. QED
      BY <2>1, <3>4, <3>5, <3>7, <3>8 DEF GrowInv
  <2>4. ASSUME NEW t \in Turns, GetStale(t) PROVE GrowInv'
    <3>1. asked[t] \in Questions /\ cache[asked[t]] \in Entries
      BY <2>4 DEF GetStale
    <3>2. \A q \in Questions : cache'[q] # NoEntry =>
             cache[q] # NoEntry /\ cache'[q].stamp = cache[q].stamp
      BY <2>4, <3>1 DEF GetStale, Entries
    <3>3. /\ UNCHANGED <<seen, reply>>
          /\ \A u \in Turns : stage'[u] \in {"select", "replay"} => stage'[u] = stage[u]
      BY <2>4 DEF GetStale, Moves
    <3>. QED
      BY <2>1, <2>2, <3>2, <3>3 DEF GrowInv, SettledReportsAreCurrent
  \* A hit: equal versions are equal commits, as the stamp is no newer.
  <2>5. ASSUME NEW t \in Turns, GetHit(t) PROVE GrowInv'
    <3> DEFINE e == cache[asked[t]]
    <3>1. /\ e # NoEntry /\ asked[t] \in Questions /\ stage[t] = "select"
          /\ Honest(e.stamp) /\ Honest(seen[t]) /\ e.stamp.at <= seen[t].at
      BY <2>5 DEF GetHit, Moves, GrowInv
    <3>2. ASSUME OnlyGrewTo(seen[t].at), seen[t].version # NoVersion
          PROVE  e.stamp.at = seen[t].at
      <4>1. e.stamp.version = seen[t].version
        BY <2>5, <3>2 DEF GetHit, Stale
      <4>2. commits[e.stamp.at] = commits[seen[t].at]
        BY <3>1, <3>2, <4>1 DEF Honest
      <4>3. e.stamp.at \in 1..Revision /\ seen[t].at \in 1..Revision /\ Revision \in Nat
        BY <3>1 DEF Honest
      <4>4. ~(e.stamp.at < seen[t].at)
        <5> SUFFICES ASSUME e.stamp.at < seen[t].at PROVE FALSE
          OBVIOUS
        <5> DEFINE i == e.stamp.at
                   j == seen[t].at
        <5>0. i \in 1..j /\ j \in 1..j /\ i < j
          BY <4>3
        <5>1. commits[i] < commits[j]
          <6>1. \A a, b \in 1..j : a < b => commits[a] < commits[b]
            BY <3>2 DEF OnlyGrewTo
          <6> HIDE DEF i, j
          <6>. QED
            BY <5>0, <6>1
        <5>2. commits[e.stamp.at] \in Nat
          BY <1>0, <4>3
        <5>. QED
          BY <4>2, <5>1, <5>2
      <4>. QED
        BY <3>1, <4>3, <4>4
    <3>3. /\ reply' = [reply EXCEPT ![t] = e] /\ UNCHANGED <<seen, cache>>
          /\ stage' = [stage EXCEPT ![t] = "replay"]
      BY <2>5 DEF GetHit, Moves
    <3> HIDE DEF e
    <3>4. SettledReportsAreCurrent'
      <4> SUFFICES ASSUME NEW u \in Turns, stage'[u] = "replay",
                          OnlyGrewTo(seen[u].at)', seen'[u].version # NoVersion,
                          reply'[u].rows = reply'[u].stamp.at
                   PROVE  reply'[u].rows = seen'[u].at
        BY DEF SettledReportsAreCurrent
      <4>1. OnlyGrewTo(seen[u].at)
        BY <1>2, <3>3 DEF OnlyGrewTo
      <4>2. CASE u = t
        BY <3>2, <3>3, <4>1, <4>2
      <4>3. CASE u # t
        BY <3>3, <4>1, <4>3 DEF GrowInv, SettledReportsAreCurrent
      <4>. QED
        BY <4>2, <4>3
    <3>. QED
      BY <2>1, <3>3, <3>4 DEF GrowInv
  \* A put: no lookup is under way, put() holds the event loop.
  <2>6. ASSUME NEW t \in Turns, Put(t) PROVE GrowInv'
    <3>1. asked[t] \in Questions /\ stage[t] = "upsert" /\ loop = t
      BY <2>6 DEF Put, Moves, LoopInv
    <3>2. cache'[asked[t]].stamp = seen[t]
      BY <2>6, <3>1 DEF Put
    <3>3. \A q \in Questions : q # asked[t] => cache'[q] = cache[q]
      BY <2>6 DEF Put
    <3>4. \A q \in Questions : cache'[q] # NoEntry => Honest(cache'[q].stamp)
      BY <3>2, <3>3 DEF GrowInv
    <3>5. \A q \in Questions : cache'[q] # NoEntry => Honest(cache[q].stamp)'
      BY <1>2, <3>4 DEF Honest, Revision
    <3>6. \A u \in Turns : stage'[u] # "select"
      BY <2>6, <3>1 DEF Put, Moves, LoopInv
    <3>7. /\ UNCHANGED <<seen, reply>>
          /\ \A u \in Turns : stage'[u] = "replay" => stage[u] = "replay"
      BY <2>6 DEF Put, Moves
    <3>8. SettledReportsAreCurrent'
      BY <2>2, <3>7 DEF GrowInv, SettledReportsAreCurrent
    <3>. QED
      BY <2>1, <3>5, <3>6, <3>7, <3>8 DEF GrowInv
  <2>7. ASSUME UNCHANGED <<seen, cache, reply>>,
               \A u \in Turns : stage'[u] \in {"select", "replay"} => stage'[u] = stage[u]
        PROVE  GrowInv'
    BY <2>1, <2>2, <2>7 DEF GrowInv, SettledReportsAreCurrent
  <2>8. CASE Restart \/ UNCHANGED vars
    BY <2>7, <2>8 DEF Restart, InFlight, vars
  <2>9. ASSUME NEW t \in Turns,
               \/ GetMiss(t) \/ ReplayEnds(t) \/ ReplayFails(t) \/ RunSql(t)
               \/ EndUnfiled(t) \/ PutFails(t)
        PROVE  GrowInv'
    <3>1. /\ UNCHANGED <<seen, cache, reply>>
          /\ \A u \in Turns : stage'[u] \in {"select", "replay"} => stage'[u] = stage[u]
      BY <2>9 DEF GetMiss, ReplayEnds, ReplayFails, RunSql, EndUnfiled, PutFails, Moves
    <3>. QED
      BY <2>7, <3>1
  <2>10. CASE Ingest
    BY <2>10, GrowIngest
  <2>. QED
    BY <2>3, <2>4, <2>5, <2>6, <2>8, <2>9, <2>10 DEF Next, Get, Replay, EndPut
<1>. QED
  BY <1>1, <1>2
  DEF Next, Get, Replay, EndPut, vars, Restart, BeginGet, GetMiss, GetStale, GetHit,
      ReplayEnds, ReplayFails, RunSql, EndUnfiled, BeginPut, Put, PutFails

\* Where loads only added, the version stamp is enough for every report whose
\* rows and stamp were read at one commit: it is replayed only while current.
THEOREM SettledReplaysAreCurrent == Spec => []SettledReportsAreCurrent
<1>1. IInv /\ GrowInv /\ [Next]_vars => GrowInv'
  BY GrowStep
<1>2. GrowInv => SettledReportsAreCurrent
  BY DEF GrowInv
<1>. QED
  BY <1>1, <1>2, GrowInit, Invariance, PTL DEF Spec
------------------------------------------------------------------------------
(***************************************************************************)
(* Refinement.                                                             *)
(***************************************************************************)
LEMMA LedgerInit == Init => Ledger!Init
  BY DEF Init, Ledger!Init, LedgerNow, OutcomeNow, SourceNow

LEMMA LedgerReplay ==
    ASSUME IInv, NEW t \in Turns, GetHit(t)
    PROVE  Ledger!Replay(t)
<1> DEFINE e == cache[asked[t]]
<1>1. /\ asked[t] \in Questions /\ stage[t] = "select" /\ e # NoEntry
      /\ reply' = [reply EXCEPT ![t] = e]
      /\ stage' = [stage EXCEPT ![t] = "replay"]
      /\ UNCHANGED <<cache, storeLog, asked, undelivered>>
  BY DEF GetHit, Moves, IInv, TypeOK
<1>2. e \in Entries /\ e.by \in Turns /\ e.by # NoTurn
  BY <1>1, NoTurnAssumption DEF IInv, TypeOK, Entries
<1>3. reply[t] = NoEntry /\ storeLog[t] = 0 /\ t \notin undelivered
  BY <1>1 DEF IInv, LogInv
<1>4. OutcomeNow[t] = "open" /\ SourceNow[t] = NoTurn
  BY <1>1, <1>3 DEF OutcomeNow, SourceNow
<1>5. LedgerNow[asked[t]] # NoTurn /\ LedgerNow[asked[t]] = e.by
  BY <1>1, <1>2 DEF LedgerNow
<1>6. OutcomeNow' = [OutcomeNow EXCEPT ![t] = "replayed"]
  BY <1>1, <1>3 DEF OutcomeNow, IInv, TypeOK
<1>7. SourceNow' = [SourceNow EXCEPT ![t] = e.by]
  BY <1>1 DEF SourceNow, IInv, TypeOK
<1>8. UNCHANGED <<asked, LedgerNow>>
  BY <1>1 DEF LedgerNow
<1>. QED
  BY <1>4, <1>5, <1>6, <1>7, <1>8 DEF Ledger!Replay

LEMMA LedgerWithdraw ==
    ASSUME IInv, NEW t \in Turns, ReplayFails(t)
    PROVE  Ledger!Withdraw(t)
<1>1. /\ stage[t] = "replay" /\ stage' = [stage EXCEPT ![t] = "query"]
      /\ undelivered' = undelivered \cup {t}
      /\ UNCHANGED <<cache, storeLog, asked, reply>>
  BY DEF ReplayFails, Moves
<1>2. reply[t] # NoEntry /\ storeLog[t] = 0 /\ t \notin undelivered
  BY <1>1 DEF IInv, LogInv
<1>3. OutcomeNow[t] = "replayed"
  BY <1>2 DEF OutcomeNow
<1>4. OutcomeNow' = [OutcomeNow EXCEPT ![t] = "open"]
  <2>1. \A u \in Turns : u # t => /\ stage'[u] = stage[u]
                                 /\ u \in undelivered' <=> u \in undelivered
    BY <1>1 DEF IInv, TypeOK
  <2>2. stage'[t] = "query" /\ t \in undelivered'
    BY <1>1 DEF IInv, TypeOK
  <2>3. OutcomeNow'[t] = "open"
    BY <1>1, <1>2, <2>2 DEF OutcomeNow
  <2>4. \A u \in Turns : u # t => OutcomeNow'[u] = OutcomeNow[u]
    BY <1>1, <2>1 DEF OutcomeNow
  <2>. QED
    BY <2>3, <2>4 DEF OutcomeNow
<1>5. UNCHANGED <<asked, LedgerNow, SourceNow>>
  BY <1>1 DEF LedgerNow, SourceNow
<1>. QED
  BY <1>3, <1>4, <1>5 DEF Ledger!Withdraw

LEMMA LedgerFile ==
    ASSUME IInv, NEW t \in Turns, Put(t)
    PROVE  Ledger!File(t)
<1>1. /\ asked[t] \in Questions /\ stage[t] = "upsert"
      /\ stage' = [stage EXCEPT ![t] = "done"]
      /\ storeLog' = [storeLog EXCEPT ![t] = @ + 1]
      /\ UNCHANGED <<reply, asked, undelivered>>
  BY DEF Put, Moves, IInv, TypeOK
<1>2. storeLog[t] = 0 /\ (reply[t] # NoEntry => t \in undelivered)
  BY <1>1 DEF IInv, LogInv
<1>3. OutcomeNow[t] = "open"
  BY <1>1, <1>2 DEF OutcomeNow
<1>4. OutcomeNow' = [OutcomeNow EXCEPT ![t] = "filed"]
  <2>1. storeLog'[t] = 1
    BY <1>1, <1>2 DEF IInv, TypeOK
  <2>2. \A u \in Turns : u # t => stage'[u] = stage[u] /\ storeLog'[u] = storeLog[u]
    BY <1>1 DEF IInv, TypeOK
  <2>3. OutcomeNow'[t] = "filed"
    BY <1>1, <1>2, <2>1 DEF OutcomeNow
  <2>4. \A u \in Turns : u # t => OutcomeNow'[u] = OutcomeNow[u]
    BY <1>1, <2>2 DEF OutcomeNow
  <2>. QED
    BY <2>3, <2>4 DEF OutcomeNow
<1>5. LedgerNow' = [LedgerNow EXCEPT ![asked[t]] = t]
  <2> DEFINE e == [rows |-> rows[t], stamp |-> seen[t], invalidated |-> FALSE,
                   by |-> t]
  <2>1. e \in Entries
    <3>1. rows[t] # 0 /\ rows[t] \in 0..MaxCommits
      BY <1>1 DEF IInv, RowsInv, TypeOK
    <3>2. rows[t] \in 1..MaxCommits /\ seen[t] \in Readings
      BY <3>1, BoundAssumption DEF IInv, TypeOK
    <3>. QED
      BY <3>2 DEF Entries
  <2>2. e # NoEntry /\ e.by = t
    BY <2>1, NoEntryAssumption DEF Entries, Readings
  <2>3. cache' = [cache EXCEPT ![asked[t]] = e] /\ cache \in [Questions -> Entries \cup {NoEntry}]
    BY DEF Put, IInv, TypeOK
  <2> HIDE DEF e
  <2>. QED
    BY <1>1, <2>2, <2>3 DEF LedgerNow
<1>6. UNCHANGED <<asked, SourceNow>>
  BY <1>1 DEF SourceNow
<1>. QED
  BY <1>3, <1>4, <1>5, <1>6 DEF Ledger!File

\* Turns end: those in the middle of a replay were answered, the others were not.
LEMMA LedgerDrop ==
    ASSUME IInv, NEW S \in SUBSET Turns, \A t \in S : InFlight(t),
           stage' = [t \in Turns |-> IF t \in S THEN "done" ELSE stage[t]],
           UNCHANGED <<cache, reply, storeLog, asked, undelivered>>
    PROVE  Ledger!Drop({t \in S : stage[t] # "replay"})
<1> DEFINE D == {t \in S : stage[t] # "replay"}
<1>1. ASSUME NEW t \in D
      PROVE  /\ t \in Turns /\ storeLog[t] = 0 /\ stage[t] # "done"
             /\ reply[t] # NoEntry => t \in undelivered
  BY DEF InFlight, IInv, LogInv, TypeOK, Stages
<1>2. \A t \in D : OutcomeNow[t] = "open"
  BY <1>1 DEF OutcomeNow
<1>3. ASSUME NEW t \in Turns
      PROVE  OutcomeNow'[t] = IF t \in D THEN "unfiled" ELSE OutcomeNow[t]
  <2>1. CASE t \in D
    BY <1>1, <2>1 DEF OutcomeNow
  <2>2. CASE t \in S /\ stage[t] = "replay"
    <3>1. storeLog[t] = 0 /\ reply[t] # NoEntry /\ t \notin undelivered
      BY <2>2 DEF IInv, LogInv
    <3>. QED
      BY <2>2, <3>1 DEF OutcomeNow
  <2>3. CASE t \notin S
    BY <2>3 DEF OutcomeNow
  <2>. QED
    BY <2>1, <2>2, <2>3
<1>4. OutcomeNow' = [t \in Turns |-> IF t \in D THEN "unfiled" ELSE OutcomeNow[t]]
  BY <1>3 DEF OutcomeNow
<1>5. UNCHANGED <<asked, LedgerNow, SourceNow>>
  BY DEF LedgerNow, SourceNow
<1>. QED
  BY <1>2, <1>4, <1>5 DEF Ledger!Drop

\* Every other step moves nothing the ledger shows.
LEMMA LedgerStutter ==
    ASSUME IInv, UNCHANGED <<reply, storeLog, asked, undelivered>>,
           LedgerNow' = LedgerNow,
           \A t \in Turns : stage'[t] = "done" <=> stage[t] = "done"
    PROVE  UNCHANGED <<asked, LedgerNow, OutcomeNow, SourceNow>>
  BY DEF OutcomeNow, SourceNow

LEMMA LedgerStep ==
    IInv /\ [Next]_vars => [Ledger!Next]_<<asked, LedgerNow, OutcomeNow, SourceNow>>
<1> SUFFICES ASSUME IInv, [Next]_vars
             PROVE  Ledger!Next \/ UNCHANGED <<asked, LedgerNow, OutcomeNow, SourceNow>>
  OBVIOUS
<1>0. stage \in [Turns -> Stages] /\ asked \in [Turns -> Questions]
  BY DEF IInv, TypeOK
<1>1. ASSUME NEW t \in Turns, GetHit(t) PROVE Ledger!Next
  BY <1>0, <1>1, LedgerReplay DEF Ledger!Next
<1>2. ASSUME NEW t \in Turns, Put(t) PROVE Ledger!Next
  BY <1>0, <1>2, LedgerFile DEF Ledger!Next
<1>8. ASSUME NEW t \in Turns, ReplayFails(t) PROVE Ledger!Next
  BY <1>0, <1>8, LedgerWithdraw DEF Ledger!Next
<1>3. ASSUME NEW t \in Turns, EndUnfiled(t) \/ PutFails(t) \/ ReplayEnds(t)
      PROVE  Ledger!Next
  <2>1. /\ {t} \in SUBSET Turns /\ \A u \in {t} : InFlight(u)
        /\ stage' = [u \in Turns |-> IF u \in {t} THEN "done" ELSE stage[u]]
        /\ UNCHANGED <<cache, reply, storeLog, asked, undelivered>>
    BY <1>0, <1>3 DEF EndUnfiled, PutFails, ReplayEnds, Moves, InFlight
  <2>2. Ledger!Drop({u \in {t} : stage[u] # "replay"})
    BY <2>1, LedgerDrop
  <2>. QED
    BY <2>1, <2>2 DEF Ledger!Next
<1>4. CASE Restart
  <2> DEFINE S == {t \in Turns : InFlight(t)}
  <2>1. /\ S \in SUBSET Turns /\ \A t \in S : InFlight(t)
        /\ stage' = [t \in Turns |-> IF t \in S THEN "done" ELSE stage[t]]
        /\ UNCHANGED <<cache, reply, storeLog, asked, undelivered>>
    BY <1>4 DEF Restart
  <2> HIDE DEF S
  <2>2. Ledger!Drop({t \in S : stage[t] # "replay"})
    BY <2>1, LedgerDrop
  <2>. QED
    BY <2>1, <2>2 DEF Ledger!Next
<1>5. ASSUME NEW t \in Turns, GetStale(t) PROVE UNCHANGED <<asked, LedgerNow, OutcomeNow, SourceNow>>
  <2>1. asked[t] \in Questions /\ cache[asked[t]] \in Entries
    BY <1>5 DEF GetStale, IInv, TypeOK
  <2> DEFINE e == [cache[asked[t]] EXCEPT !.invalidated = TRUE]
  <2>2. e \in Entries /\ e.by = cache[asked[t]].by
    BY <2>1 DEF Entries
  <2>3. e # NoEntry /\ cache[asked[t]] # NoEntry
    BY <2>1, <2>2, NoEntryAssumption DEF Entries, Readings
  <2>4. cache' = [cache EXCEPT ![asked[t]] = e]
    BY <1>5 DEF GetStale
  <2> HIDE DEF e
  <2>5. LedgerNow' = LedgerNow
    BY <2>2, <2>3, <2>4 DEF LedgerNow, IInv, TypeOK
  <2>6. \A u \in Turns : stage'[u] = "done" <=> stage[u] = "done"
    BY <1>0, <1>5 DEF GetStale, Moves
  <2>. QED
    BY <1>5, <2>5, <2>6, LedgerStutter DEF GetStale
<1>6. ASSUME NEW t \in Turns, BeginGet(t) \/ GetMiss(t) \/ RunSql(t) \/ BeginPut(t)
      PROVE  UNCHANGED <<asked, LedgerNow, OutcomeNow, SourceNow>>
  <2>1. UNCHANGED <<cache, reply, storeLog, asked, undelivered>>
    BY <1>6 DEF BeginGet, GetMiss, RunSql, BeginPut
  <2>2. \A u \in Turns : stage'[u] = "done" <=> stage[u] = "done"
    BY <1>0, <1>6 DEF BeginGet, GetMiss, RunSql, BeginPut, Moves
  <2>3. LedgerNow' = LedgerNow
    BY <2>1 DEF LedgerNow
  <2>. QED
    BY <2>1, <2>2, <2>3, LedgerStutter
<1>7. CASE Ingest \/ UNCHANGED vars
  BY <1>7 DEF Ingest, vars, LedgerNow, OutcomeNow, SourceNow
<1>. QED
  BY <1>1, <1>2, <1>3, <1>4, <1>5, <1>6, <1>7, <1>8 DEF Next, Get, Replay, EndPut

\* app/db_cache.py keeps the ledger's promise for any turns and questions.
THEOREM Refinement == Spec => ImplementsLedger
<1>1. [Ledger!Next]_<<asked, LedgerNow, OutcomeNow, SourceNow>>
      => [Ledger!Next]_Ledger!ledgerVars
  BY DEF Ledger!ledgerVars
<1>. QED
  BY <1>1, LedgerInit, LedgerStep, Invariance, PTL
  DEF Spec, ImplementsLedger, Ledger!Spec
==============================================================================
