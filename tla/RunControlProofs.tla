---------------------------- MODULE RunControlProofs ----------------------------
(***************************************************************************)
(* Proofs about RunControl for every workflow, number of attempts and use  *)
(* of the retry button.                                                    *)
(*                                                                         *)
(* The tables are sequences, and a step writes one entry of each or adds   *)
(* one at its end: the lemmas on sequences say so in terms of entries, and *)
(* the proofs about the run never look at a sequence again.                *)
(* What an admin may undo with the retry button is proved until its first  *)
(* use: the run is in one of four phases, and one thing moves it on.       *)
(***************************************************************************)
EXTENDS RunControl, FiniteSetTheorems, SequenceTheorems, TLAPS

-----------------------------------------------------------------------------
(* Tables. *)

\* t is s with entry i replaced by e, or with e added.
Written(s, t, i, e) ==
    /\ DOMAIN t = DOMAIN s
    /\ t[i] = e
    /\ \A k \in DOMAIN s : k # i => t[k] = s[k]

Added(s, t, e) ==
    /\ Len(s) + 1 \notin DOMAIN s
    /\ DOMAIN t = DOMAIN s \cup {Len(s) + 1}
    /\ t[Len(s) + 1] = e
    /\ \A k \in DOMAIN s : t[k] = s[k]
    /\ \A k \in DOMAIN s : k < Len(s) + 1

\* An entry is replaced.
LEMMA Writing ==
    ASSUME NEW S, NEW s \in Seq(S), NEW i \in DOMAIN s, NEW e \in S
    PROVE  LET t == [s EXCEPT ![i] = e] IN t \in Seq(S) /\ Written(s, t, i, e)
<1>1. DOMAIN s = 1..Len(s)
  BY LenProperties
<1>2. [s EXCEPT ![i] = e] \in Seq(S)
  BY <1>1, ExceptSeq
<1> QED
  BY <1>2 DEF Written

\* An entry is added.
LEMMA Adding ==
    ASSUME NEW S, NEW s \in Seq(S), NEW e \in S
    PROVE  LET t == Append(s, e) IN t \in Seq(S) /\ Added(s, t, e)
<1> DEFINE t == Append(s, e)
<1>1. DOMAIN s = 1..Len(s) /\ Len(s) \in Nat
  BY LenProperties
<1>2. t \in Seq(S) /\ Len(t) = Len(s) + 1
  BY AppendProperties
<1>3. DOMAIN t = 1..(Len(s) + 1)
  BY <1>2, LenProperties
<1>4. t[Len(s) + 1] = e /\ \A k \in DOMAIN s : t[k] = s[k]
  BY <1>1, AppendProperties
<1>5. DOMAIN t = DOMAIN s \cup {Len(s) + 1} /\ Len(s) + 1 \notin DOMAIN s
  BY <1>1, <1>3
<1>6. \A k \in DOMAIN s : k < Len(s) + 1
  BY <1>1
<1> QED
  BY <1>2, <1>4, <1>5, <1>6 DEF Added

\* All entries are rewritten.
LEMMA Mapping ==
    ASSUME NEW S, NEW s \in Seq(S), NEW t, NEW T,
           t = [k \in DOMAIN s |-> t[k]],
           \A k \in DOMAIN s : t[k] \in T
    PROVE  t \in Seq(T) /\ DOMAIN t = DOMAIN s
<1>1. DOMAIN s = 1..Len(s) /\ Len(s) \in Nat
  BY LenProperties
<1>2. t \in [1..Len(s) -> T] /\ DOMAIN t = DOMAIN s
  BY <1>1
<1> QED
  BY <1>1, <1>2, SeqDef

\* A finite set can be listed.
LEMMA Listing ==
    ASSUME NEW S, IsFiniteSet(S)
    PROVE  SetToSeq(S) \in Seq(S)
<1>1. PICK n \in Nat : ExistsBijection(1..n, S)
  BY FS_NatBijection
<1>2. Cardinality(S) = n
  BY <1>1, FS_CountingElements
<1>3. PICK f \in Bijection(1..n, S) : TRUE
  BY <1>1 DEF ExistsBijection
<1>4. f \in [1..n -> S] /\ IsInjective(f)
  BY <1>3 DEF Bijection, Injection
<1>5. SetToSeq(S) \in [1..n -> S]
  BY <1>2, <1>4 DEF SetToSeq
<1> QED
  BY <1>5, SeqDef

-----------------------------------------------------------------------------
(* Types. *)

\* A letter about an assignment names one.
LettersNameRows ==
    \A k \in DOMAIN letters : letters[k].about = "row" => letters[k].row \in DOMAIN rows

Types == TypeOK /\ LettersNameRows

LEMMA StageFacts ==
    /\ Final \in Nat /\ Stage \subseteq Nat /\ Work \subseteq Stage /\ Gates \subseteq Stage
    /\ 1 \in Work /\ Final \in Stage /\ Final \notin Work /\ Final \notin Gates /\ NoGate \notin Stage
    /\ Stage = Work \cup Gates \cup {Final}
    /\ Work \cap Gates = {}
    /\ \A s \in Stage : s # Final => s + 1 \in Stage
    /\ \A s \in Work : s \in Stage /\ s + 1 \in Stage
    /\ \A s \in Gates : s + 1 \in Work \cup {Final}
    /\ MaxAttempts \in Nat \ {0} /\ MaxDispatch \in Nat /\ MaxClicks \in Nat
<1>1. Final \in Nat /\ Final > 1
  BY RunAssumption
<1>2. \A g \in Gates : g \in Nat /\ g > 1 /\ g < Final /\ g + 1 \notin Gates
  BY <1>1, RunAssumption
<1>3. \A s : s \in Stage <=> s \in Nat /\ 1 <= s /\ s <= Final
  BY <1>1 DEF Stage
<1>4. Gates \subseteq Stage /\ Final \notin Gates /\ 1 \notin Gates
  BY <1>1, <1>2, <1>3
<1>5. \A s \in Gates : s + 1 \in Work \cup {Final}
  BY <1>1, <1>2, <1>3 DEF Work
<1>6. \A s \in Stage : s # Final => s + 1 \in Stage
  BY <1>1, <1>3
<1>7. MaxAttempts \in Nat \ {0} /\ MaxDispatch \in Nat /\ MaxClicks \in Nat
  BY RunAssumption
<1>8. Stage \subseteq Nat /\ 1 \in Stage /\ Final \in Stage /\ NoGate \notin Stage
  BY <1>1, <1>3 DEF NoGate
<1>9. /\ Work \subseteq Stage /\ 1 \in Work /\ Final \notin Work
      /\ Stage = Work \cup Gates \cup {Final} /\ Work \cap Gates = {}
  <2>1. 1 # Final
    BY <1>1
  <2> QED
    BY <2>1, <1>4, <1>8 DEF Work
<1>10. \A s \in Work : s \in Stage /\ s + 1 \in Stage
  <2>1. \A s \in Work : s \in Stage /\ s # Final
    BY <1>9
  <2> QED
    BY <1>6, <2>1, Zenon
<1> QED
  BY <1>1, <1>4, <1>5, <1>6, <1>7, <1>8, <1>9, <1>10

LEMMA TableDomains ==
    ASSUME TypeOK
    PROVE  /\ \A j \in DOMAIN jobs : jobs[j] \in Job
           /\ \A i \in DOMAIN rows : rows[i] \in Row
           /\ \A k \in DOMAIN letters : letters[k] \in Letter
           /\ Len(jobs) \in Nat /\ DOMAIN jobs = 1..Len(jobs)
           /\ Len(rows) \in Nat /\ DOMAIN rows = 1..Len(rows)
           /\ Len(letters) \in Nat /\ DOMAIN letters = 1..Len(letters)
<1>1. jobs \in Seq(Job) /\ rows \in Seq(Row) /\ letters \in Seq(Letter)
  BY DEF TypeOK
<1>2. jobs \in [1..Len(jobs) -> Job] /\ Len(jobs) \in Nat
  BY <1>1, LenProperties
<1>3. rows \in [1..Len(rows) -> Row] /\ Len(rows) \in Nat
  BY <1>1, LenProperties
<1>4. letters \in [1..Len(letters) -> Letter] /\ Len(letters) \in Nat
  BY <1>1, LenProperties
<1> QED
  BY <1>2, <1>3, <1>4

\* A letter is written that names an assignment there is, or none.
LEMMA LetterAdded ==
    ASSUME Types, DOMAIN rows \subseteq DOMAIN rows',
           NEW about \in {"run", "row", "job"}, NEW i \in Nat, NEW n \in Nat,
           about = "row" => i \in DOMAIN rows,
           letters' = Append(letters, LetterOf(about, i, n))
    PROVE  letters' \in Seq(Letter) /\ LettersNameRows'
<1>1. LetterOf(about, i, n) \in Letter
  BY DEF LetterOf, Letter
<1>2. letters' \in Seq(Letter) /\ Added(letters, letters', LetterOf(about, i, n))
  BY <1>1, Adding DEF Types, TypeOK
<1>3. LettersNameRows'
  BY <1>2 DEF Types, LettersNameRows, Added, LetterOf
<1> QED
  BY <1>2, <1>3

\* The controller enqueues a stage.
LEMMA JobAdded ==
    ASSUME TypeOK, NEW s \in Work, NEW n \in Nat, jobs' = Append(jobs, StageJob(s, n))
    PROVE  jobs' \in Seq(Job) /\ Added(jobs, jobs', StageJob(s, n))
<1>1. StageJob(s, n) \in Job
  BY DEF StageJob, Job
<1> QED
  BY <1>1, Adding DEF TypeOK

\* The status of an assignment or a job is written.
LEMMA StatusWritten ==
    ASSUME TypeOK, NEW i \in DOMAIN rows,
           NEW st \in {"pending", "in_flight", "completed", "failed", "cancelled"},
           rows' = [rows EXCEPT ![i].status = st]
    PROVE  rows' \in Seq(Row) /\ Written(rows, rows', i, [rows[i] EXCEPT !.status = st])
<1> DEFINE r == [rows[i] EXCEPT !.status = st]
<1>1. r \in Row
  BY TableDomains DEF Row
<1>2. rows' = [rows EXCEPT ![i] = r]
  OBVIOUS
<1>3. rows \in Seq(Row)
  BY DEF TypeOK
<1> HIDE DEF r
<1> DEFINE t == [rows EXCEPT ![i] = r]
<1>5. t \in Seq(Row) /\ Written(rows, t, i, r)
  BY <1>1, <1>3, Writing
<1> HIDE DEF t
<1>6. rows' = t
  BY <1>2 DEF t
<1>4. rows' \in Seq(Row) /\ Written(rows, rows', i, r)
  BY <1>5, <1>6
<1> QED
  BY <1>4 DEF r

LEMMA JobWritten ==
    ASSUME TypeOK, NEW j \in DOMAIN jobs, NEW how \in {"done", "cancelled"}, Retire(j, how)
    PROVE  jobs' \in Seq(Job) /\ Written(jobs, jobs', j, [jobs[j] EXCEPT !.status = how])
<1>1. jobs[j] \in Job /\ [jobs[j] EXCEPT !.status = how] \in Job
  BY TableDomains DEF Job
<1>2. jobs' = [jobs EXCEPT ![j] = [jobs[j] EXCEPT !.status = how]]
  BY DEF Retire
<1> QED
  BY <1>1, <1>2, Writing DEF TypeOK

RunType == [status : {"running", "paused"} \cup Terminal, stage : Stage,
            hold : {"none", "spend", "review"}]

\* A run that leaves a stage before the last is at one afterwards.
LEMMA AdvanceTypes ==
    ASSUME TypeOK, NEW r \in RunType, NEW s \in Stage, s # Final, Advance(r, s)
    PROVE  /\ run' \in RunType /\ jobs' \in Seq(Job)
           /\ run'.stage = s + 1
           /\ \/ s + 1 = Final /\ run'.status = "succeeded" /\ jobs' = jobs
              \/ /\ s + 1 \in Gates /\ run'.status = "paused" /\ run'.hold = "review"
                 /\ jobs' = jobs
              \/ /\ s + 1 \in Work /\ run'.status = r.status /\ run'.hold = r.hold
                 /\ Added(jobs, jobs', StageJob(s + 1, 0))
<1> DEFINE n == s + 1
<1>0. n \in Stage
  BY StageFacts
<1>1. CASE n = Final /\ run' = [[r EXCEPT !.stage = n] EXCEPT !.status = "succeeded"]
           /\ UNCHANGED jobs
  BY <1>0, <1>1 DEF RunType, TypeOK, Terminal
<1>2. CASE n \in Gates /\ run' = [[r EXCEPT !.stage = n] EXCEPT !.status = "paused", !.hold = "review"]
           /\ UNCHANGED jobs
  BY <1>0, <1>2 DEF RunType, TypeOK
<1>3. CASE n \in Work /\ run' = [r EXCEPT !.stage = n] /\ jobs' = Append(jobs, StageJob(n, 0))
  BY <1>0, <1>3, JobAdded DEF RunType
<1> QED
  BY <1>1, <1>2, <1>3 DEF Advance

\* Every job an admin's click enqueues is for the stage of a row, or for none.
LEMMA RetryTypes ==
    ASSUME Types
    PROVE  /\ Retries \in Seq(Job)
           /\ \A n \in DOMAIN Retries :
                 Retries[n].stage = NotAStage \/ \E i \in DOMAIN rows : Retries[n].stage = rows[i].stage
<1> DEFINE ks == SetToSeq(Revivable)
           is == SetToSeq(Repeatable)
           Good(q) == q.stage = NotAStage \/ \E i \in DOMAIN rows : q.stage = rows[i].stage
           Jobs == {q \in Job : Good(q)}
           a == [n \in DOMAIN ks |-> FromLetter(ks[n])]
           b == [n \in DOMAIN is |-> FromRow(is[n])]
<1>0. TypeOK /\ LettersNameRows
  BY DEF Types
<1>1. IsFiniteSet(DOMAIN letters) /\ IsFiniteSet(DOMAIN rows)
  BY <1>0, TableDomains, FS_Interval
<1>2. ks \in Seq(Revivable) /\ is \in Seq(Repeatable)
  <2>1. IsFiniteSet(Revivable) /\ IsFiniteSet(Repeatable)
    BY <1>1, FS_Subset DEF Revivable, Repeatable
  <2> QED
    BY <2>1, Listing
<1>3. \A k \in Revivable : FromLetter(k) \in Jobs
  <2> SUFFICES ASSUME NEW k \in Revivable PROVE FromLetter(k) \in Jobs
    OBVIOUS
  <2>1. k \in DOMAIN letters /\ letters[k] \in Letter
    BY <1>0, TableDomains DEF Revivable
  <2>2. letters[k].attempt \in Nat
    BY <2>1 DEF Letter
  <2>3. CASE letters[k].about = "row"
    <3>1. letters[k].row \in DOMAIN rows
      BY <1>0, <2>1, <2>3 DEF LettersNameRows
    <3>2. rows[letters[k].row].stage \in Work
      BY <1>0, <3>1, TableDomains DEF Row
    <3> QED
      BY <2>2, <2>3, <3>1, <3>2 DEF FromLetter, RetryJob, Job
  <2>4. CASE letters[k].about # "row"
    BY <2>2, <2>4 DEF FromLetter, RetryJob, Job
  <2> QED
    BY <2>3, <2>4
<1>4. \A i \in Repeatable : FromRow(i) \in Jobs
  <2> SUFFICES ASSUME NEW i \in Repeatable PROVE FromRow(i) \in Jobs
    OBVIOUS
  <2>1. i \in DOMAIN rows /\ rows[i] \in Row
    BY <1>0, TableDomains DEF Repeatable
  <2> QED
    BY <2>1 DEF FromRow, RetryJob, Job, Row
<1>5. a \in Seq(Jobs) /\ b \in Seq(Jobs)
  <2>1. \A n \in DOMAIN ks : ks[n] \in Revivable
    BY <1>2, ElementOfSeq, LenProperties
  <2>2. \A n \in DOMAIN is : is[n] \in Repeatable
    BY <1>2, ElementOfSeq, LenProperties
  <2>3. a \in Seq(Jobs)
    BY <1>2, <1>3, <2>1, Mapping
  <2>4. b \in Seq(Jobs)
    BY <1>2, <1>4, <2>2, Mapping
  <2> QED
    BY <2>3, <2>4
<1>6. Retries \in Seq(Jobs)
  <2>1. a \o b \in Seq(Jobs)
    BY <1>5, ConcatProperties
  <2>2. <<>> \in Seq(Jobs)
    BY EmptySeq
  <2> QED
    BY <2>1, <2>2 DEF Retries
<1>7. \A n \in DOMAIN Retries : Retries[n] \in Jobs
  BY <1>6, ElementOfSeq, LenProperties
<1>8. Retries \in Seq(Job)
  BY <1>6, SeqMonotonic
<1> QED
  BY <1>7, <1>8

\* A failure, a decision or a job leaves the rest of the run's fields alone.
LEMMA RunTypes ==
    ASSUME TypeOK
    PROVE  /\ run \in RunType /\ Failed(run) \in RunType /\ Held(run) \in RunType
           /\ [Failed(run) EXCEPT !.hold = "none"] \in RunType
           /\ [run EXCEPT !.status = "running", !.hold = "none"] \in RunType
           /\ [run EXCEPT !.status = "running"] \in RunType
           /\ \A s \in Stage : [run EXCEPT !.stage = s] \in RunType
  BY DEF TypeOK, RunType, Terminal, Failed, Held

\* The steps, in terms of entries.
LEMMA SucceedShape ==
    ASSUME Types, NEW i \in DOMAIN rows, Succeed(i)
    PROVE  /\ Types'
           /\ Written(rows, rows', i, [rows[i] EXCEPT !.status = "completed"])
           /\ rows[i].status = "in_flight"
           /\ \/ run.status \in Terminal /\ UNCHANGED <<run, gate, jobs>>
              \/ /\ run.status \notin Terminal
                 /\ gate # NoGate /\ rows[i].stage + 1 \in Gates
                 /\ run' = [run EXCEPT !.stage = rows[i].stage + 1]
                 /\ UNCHANGED <<gate, jobs>>
              \/ /\ run.status \notin Terminal
                 /\ Advance(run, rows[i].stage)
                 /\ gate' = IF rows[i].stage + 1 \in Gates THEN rows[i].stage + 1 ELSE gate
<1>1. rows' \in Seq(Row) /\ Written(rows, rows', i, [rows[i] EXCEPT !.status = "completed"])
  BY StatusWritten DEF Types, Succeed
<1>2. rows[i].stage \in Work /\ rows[i].stage + 1 \in Stage
  <2>1. rows[i] \in Row
    BY TableDomains DEF Types
  <2>2. rows[i].stage \in Work
    BY <2>1 DEF Row
  <2>3. \A s \in Work : s \in Stage /\ s + 1 \in Stage
    BY StageFacts
  <2>4. QED
    BY <2>2, <2>3, Zenon
<1>3. LettersNameRows'
  BY <1>1 DEF Types, LettersNameRows, Succeed, Written
<1>4. run' \in RunType /\ gate' \in Gates \cup {NoGate} /\ jobs' \in Seq(Job)
  <2>1. CASE run.status \in Terminal
    BY <2>1 DEF Succeed, Types, TypeOK, RunType
  <2>2. CASE run.status \notin Terminal /\ gate # NoGate /\ rows[i].stage + 1 \in Gates
    BY <1>2, <2>2, RunTypes DEF Succeed, Proceed, Types, TypeOK
  <2>3. CASE run.status \notin Terminal /\ ~ (gate # NoGate /\ rows[i].stage + 1 \in Gates)
    <3>1. Advance(run, rows[i].stage)
          /\ gate' = IF rows[i].stage + 1 \in Gates THEN rows[i].stage + 1 ELSE gate
      BY <2>3 DEF Succeed, Proceed
    <3> QED
      BY <1>2, <3>1, AdvanceTypes, RunTypes, StageFacts DEF Types, TypeOK
  <2> QED
    BY <2>1, <2>2, <2>3
<1>5. Types'
  BY <1>1, <1>3, <1>4 DEF Types, TypeOK, Succeed, RunType
<1> QED
  BY <1>1, <1>5 DEF Succeed, Proceed, InFlight

LEMMA FailShape ==
    ASSUME Types, NEW i \in DOMAIN rows, NEW transient \in BOOLEAN, Fail(i, transient)
    PROVE  /\ Types'
           /\ Written(rows, rows', i, [rows[i] EXCEPT !.status = "failed"])
           /\ rows[i].status = "in_flight"
           /\ \/ /\ rows[i].attempt < MaxAttempts
                 /\ Added(jobs, jobs', StageJob(rows[i].stage, rows[i].attempt))
                 /\ UNCHANGED <<run, letters>>
              \/ /\ Added(letters, letters', LetterOf("run", 0, rows[i].attempt))
                 /\ run' = Failed(run)
                 /\ UNCHANGED jobs
<1>1. rows' \in Seq(Row) /\ Written(rows, rows', i, [rows[i] EXCEPT !.status = "failed"])
  BY StatusWritten DEF Types, Fail
<1>2. rows[i].stage \in Work /\ rows[i].attempt \in Nat
  BY TableDomains DEF Types, Row
<1>3. DOMAIN rows' = DOMAIN rows
  BY <1>1 DEF Written
<1>4. CASE Retryable(i, transient)
  <2>1. jobs' \in Seq(Job) /\ Added(jobs, jobs', StageJob(rows[i].stage, rows[i].attempt))
    BY <1>2, <1>4, JobAdded DEF Types, Fail
  <2>2. LettersNameRows'
    BY <1>3, <1>4 DEF Types, LettersNameRows, Fail
  <2> QED
    BY <1>1, <1>4, <2>1, <2>2 DEF Types, TypeOK, Fail, InFlight, Retryable
<1>5. CASE ~ Retryable(i, transient)
  <2>1. LetterOf("run", 0, rows[i].attempt) \in Letter
    BY <1>2 DEF LetterOf, Letter
  <2>2. letters' \in Seq(Letter) /\ LettersNameRows'
    BY <1>2, <1>3, <1>5, LetterAdded DEF Fail
  <2>3. Added(letters, letters', LetterOf("run", 0, rows[i].attempt))
    BY <1>5, <2>1, Adding DEF Fail, Types, TypeOK
  <2>4. run' \in RunType
    BY <1>5, RunTypes DEF Fail, Types
  <2> QED
    BY <1>1, <1>5, <2>2, <2>3, <2>4 DEF Types, TypeOK, Fail, InFlight, RunType
<1> QED
  BY <1>4, <1>5

LEMMA DecideShape ==
    ASSUME Types, NEW approved \in BOOLEAN, Decide(approved)
    PROVE  /\ Types'
           /\ gate \in Gates /\ gate' = NoGate
           /\ UNCHANGED <<rows, letters, clicks>>
           /\ \/ Advance([run EXCEPT !.status = "running", !.hold = "none"], gate)
              \/ run' = [Failed(run) EXCEPT !.hold = "none"] /\ UNCHANGED jobs
<1>1. gate \in Gates /\ gate' = NoGate /\ UNCHANGED <<rows, letters, clicks>>
  BY DEF Decide, Types, TypeOK
<1>2. gate \in Stage /\ gate # Final
  BY <1>1, StageFacts
<1>3. run' \in RunType /\ jobs' \in Seq(Job)
  <2>1. CASE approved
    BY <1>2, <2>1, RunTypes, AdvanceTypes DEF Decide, Types
  <2>2. CASE ~ approved
    BY <2>2, RunTypes DEF Decide, Types, TypeOK
  <2> QED
    BY <2>1, <2>2
<1>4. Types'
  BY <1>1, <1>3 DEF Types, TypeOK, RunType, LettersNameRows
<1> QED
  BY <1>1, <1>4 DEF Decide

LEMMA BackpressureShape ==
    ASSUME Types, NEW j \in DOMAIN jobs, Backpressure(j)
    PROVE  /\ Types'
           /\ jobs[j].status = "pending"
           /\ UNCHANGED <<run, gate, clicks>>
           /\ \/ /\ Written(jobs, jobs', j, [jobs[j] EXCEPT !.attempt = @ + 1])
                 /\ UNCHANGED <<rows, letters>>
              \/ /\ Written(jobs, jobs', j, [jobs[j] EXCEPT !.attempt = @ + 1, !.status = "cancelled"])
                 /\ rows' = [i \in DOMAIN rows |->
                               IF Open(i) /\ rows[i].stage = jobs[j].stage
                               THEN [rows[i] EXCEPT !.status = "cancelled"] ELSE rows[i]]
                 /\ Added(letters, letters', LetterOf("job", 0, jobs[j].attempt + 1))
<1> DEFINE n == jobs[j].attempt + 1
           more == [jobs[j] EXCEPT !.attempt = n]
           last == [jobs[j] EXCEPT !.attempt = n, !.status = "cancelled"]
<1>0. jobs[j] \in Job
  BY TableDomains DEF Types
<1>1. n \in Nat /\ more \in Job /\ last \in Job
  <2>1. n \in Nat
    BY <1>0 DEF Job
  <2> HIDE DEF n
  <2> QED
    BY <1>0, <2>1 DEF Job
<1>2. jobs \in Seq(Job)
  BY DEF Types, TypeOK
<1>3. CASE n < MaxDispatch
  <2>1. jobs' = [jobs EXCEPT ![j].attempt = n] /\ UNCHANGED <<rows, letters, run, gate, clicks>>
    BY <1>1, <1>3, RunAssumption DEF Backpressure
  <2>2. jobs' = [jobs EXCEPT ![j] = more]
    BY <2>1
  <2> HIDE DEF more
  <2>3. jobs' \in Seq(Job) /\ Written(jobs, jobs', j, more)
    BY <1>1, <1>2, <2>2, Writing
  <2> QED
    BY <2>1, <2>3 DEF Types, TypeOK, LettersNameRows, Backpressure, Due, more
<1>4. CASE ~ (n < MaxDispatch)
  <2>1. /\ jobs' = [jobs EXCEPT ![j].attempt = n, ![j].status = "cancelled"]
        /\ rows' = [i \in DOMAIN rows |->
                      IF Open(i) /\ rows[i].stage = jobs[j].stage
                      THEN [rows[i] EXCEPT !.status = "cancelled"] ELSE rows[i]]
        /\ letters' = Append(letters, LetterOf("job", 0, n))
        /\ UNCHANGED <<run, gate, clicks>>
    BY <1>1, <1>4, RunAssumption DEF Backpressure
  <2>2. jobs' = [jobs EXCEPT ![j] = last]
    BY <2>1
  <2>3. jobs' \in Seq(Job) /\ Written(jobs, jobs', j, last)
    <3> HIDE DEF last
    <3> QED
      BY <1>1, <1>2, <2>2, Writing
  <2>4. rows' \in Seq(Row) /\ DOMAIN rows' = DOMAIN rows
    <3>1. \A i \in DOMAIN rows : rows[i] \in Row /\ rows'[i] \in Row
      BY <2>1, TableDomains DEF Types, Row
    <3>2. rows' = [i \in DOMAIN rows |-> rows'[i]]
      BY <2>1
    <3>3. rows \in Seq(Row)
      BY DEF Types, TypeOK
    <3> QED
      BY <3>1, <3>2, <3>3, Mapping
  <2>5. letters' \in Seq(Letter) /\ LettersNameRows'
    BY <1>1, <2>1, <2>4, LetterAdded
  <2>6. Added(letters, letters', LetterOf("job", 0, n))
    <3>1. LetterOf("job", 0, n) \in Letter
      BY <1>1 DEF LetterOf, Letter
    <3> QED
      BY <2>1, <3>1, Adding DEF Types, TypeOK
  <2>7. Types'
    BY <2>1, <2>3, <2>4, <2>5 DEF Types, TypeOK
  <2> QED
    BY <2>1, <2>3, <2>6, <2>7 DEF Backpressure, Due
<1> QED
  BY <1>3, <1>4

LEMMA RetireShape ==
    ASSUME Types, NEW j \in DOMAIN jobs, Skip(j) \/ AlreadyDispatched(j)
    PROVE  /\ Types'
           /\ UNCHANGED <<run, gate, rows, letters, clicks>>
           /\ \E how \in {"done", "cancelled"} : Written(jobs, jobs', j, [jobs[j] EXCEPT !.status = how])
<1>1. PICK how \in {"done", "cancelled"} : Retire(j, how)
  BY DEF Skip, AlreadyDispatched
<1>2. jobs' \in Seq(Job) /\ Written(jobs, jobs', j, [jobs[j] EXCEPT !.status = how])
  BY <1>1, JobWritten DEF Types
<1>3. UNCHANGED <<run, gate, rows, letters, clicks>>
  BY DEF Skip, AlreadyDispatched
<1> QED
  BY <1>2, <1>3 DEF Types, TypeOK, LettersNameRows

NewRow(j, st) == [stage |-> jobs[j].stage, attempt |-> jobs[j].attempt + 1, status |-> st]

LEMMA AssignShape ==
    ASSUME Types, NEW j \in DOMAIN jobs, NEW st \in {"pending", "in_flight"}, Assign(j, st)
    PROVE  /\ Types'
           /\ jobs[j].status = "pending"
           /\ jobs[j].stage \in Work
           /\ UNCHANGED <<run, gate, letters, clicks>>
           /\ Added(rows, rows', NewRow(j, st))
           /\ Written(jobs, jobs', j, [jobs[j] EXCEPT !.status = "done"])
<1>1. jobs[j] \in Job /\ jobs[j].stage \in Work
  BY TableDomains DEF Types, Job, Assign
<1>2. NewRow(j, st) \in Row
  BY <1>1 DEF NewRow, Job, Row
<1>3. rows' = Append(rows, NewRow(j, st))
  BY DEF Assign, NewRow
<1>4. rows' \in Seq(Row) /\ Added(rows, rows', NewRow(j, st))
  BY <1>2, <1>3, Adding DEF Types, TypeOK
<1>5. jobs' \in Seq(Job) /\ Written(jobs, jobs', j, [jobs[j] EXCEPT !.status = "done"])
  BY JobWritten DEF Assign, Types
<1>6. LettersNameRows'
  BY <1>4 DEF Assign, Types, LettersNameRows, Added
<1> QED
  BY <1>1, <1>4, <1>5, <1>6 DEF Types, TypeOK, Assign, Dispatchable, Due

LEMMA HoldShape ==
    ASSUME Types, (\E j \in DOMAIN jobs : HoldJob(j)) \/ (\E i \in DOMAIN rows : HoldClaim(i))
    PROVE  /\ Types'
           /\ run' = Held(run)
           /\ UNCHANGED <<gate, jobs, rows, letters, clicks>>
<1>1. run' = Held(run) /\ UNCHANGED <<gate, jobs, rows, letters, clicks>>
  BY DEF HoldJob, HoldClaim
<1> QED
  BY <1>1, RunTypes DEF Types, TypeOK, RunType, LettersNameRows

LEMMA ClaimShape ==
    ASSUME Types, NEW i \in DOMAIN rows, Claim(i)
    PROVE  /\ Types'
           /\ rows[i].status = "pending"
           /\ UNCHANGED <<run, gate, jobs, letters, clicks>>
           /\ Written(rows, rows', i, [rows[i] EXCEPT !.status = "in_flight"])
<1>1. rows' \in Seq(Row) /\ Written(rows, rows', i, [rows[i] EXCEPT !.status = "in_flight"])
  BY StatusWritten DEF Types, Claim
<1>2. UNCHANGED <<run, gate, jobs, letters, clicks>>
  BY DEF Claim
<1>3. LettersNameRows'
  BY <1>1, <1>2 DEF Types, LettersNameRows, Written
<1> QED
  BY <1>1, <1>2, <1>3 DEF Types, TypeOK, Claim, Waiting

LEMMA RecoverShape ==
    ASSUME Types, NEW i \in DOMAIN rows, Recover(i)
    PROVE  /\ Types'
           /\ rows[i].status = "in_flight"
           /\ UNCHANGED <<gate, jobs, clicks>>
           /\ \/ /\ rows[i].attempt < MaxAttempts
                 /\ Written(rows, rows', i, [rows[i] EXCEPT !.status = "pending", !.attempt = @ + 1])
                 /\ UNCHANGED <<run, letters>>
              \/ /\ Written(rows, rows', i, [rows[i] EXCEPT !.status = "failed"])
                 /\ Added(letters, letters', LetterOf("row", i, rows[i].attempt))
                 /\ run' = IF run.status \in Terminal THEN run ELSE Failed(run)
<1> DEFINE n == rows[i].attempt + 1
           next == [rows[i] EXCEPT !.status = "pending", !.attempt = n]
<1>0. rows[i] \in Row
  BY TableDomains DEF Types
<1>1. n - 1 = rows[i].attempt /\ next \in Row /\ rows[i].attempt \in Nat
  <2>1. n \in Nat \ {0} /\ n - 1 = rows[i].attempt /\ rows[i].attempt \in Nat
    BY <1>0 DEF Row
  <2> HIDE DEF n
  <2> QED
    BY <1>0, <2>1 DEF Row
<1>2. rows \in Seq(Row) /\ i \in Nat
  BY TableDomains DEF Types, TypeOK
<1>3. rows[i].status = "in_flight" /\ UNCHANGED <<gate, jobs, clicks>>
  BY DEF Recover, InFlight
<1>4. CASE n > MaxAttempts
  <2>1. /\ rows' = [rows EXCEPT ![i].status = "failed"]
        /\ letters' = Append(letters, LetterOf("row", i, n - 1))
        /\ run' = IF run.status \in Terminal THEN run ELSE Failed(run)
    BY <1>4 DEF Recover
  <2>2. rows' \in Seq(Row) /\ Written(rows, rows', i, [rows[i] EXCEPT !.status = "failed"])
    BY <2>1, StatusWritten DEF Types
  <2>3. LetterOf("row", i, rows[i].attempt) \in Letter
    BY <1>1, <1>2 DEF LetterOf, Letter
  <2>4. letters' = Append(letters, LetterOf("row", i, rows[i].attempt))
    BY <1>1, <2>1
  <2>5. Added(letters, letters', LetterOf("row", i, rows[i].attempt))
    BY <2>3, <2>4, Adding DEF Types, TypeOK
  <2>6. letters' \in Seq(Letter) /\ LettersNameRows'
    <3>1. DOMAIN rows \subseteq DOMAIN rows'
      BY <2>2 DEF Written
    <3> QED
      BY <1>1, <1>2, <2>4, <3>1, LetterAdded
  <2>7. run' \in RunType
    BY <2>1, RunTypes DEF Types
  <2>8. Types'
    BY <1>3, <2>2, <2>6, <2>7 DEF Types, TypeOK, RunType
  <2> QED
    BY <1>3, <2>1, <2>2, <2>5, <2>8
<1>5. CASE ~ (n > MaxAttempts)
  <2>1. rows' = [rows EXCEPT ![i].status = "pending", ![i].attempt = n] /\ UNCHANGED <<run, letters>>
    BY <1>5 DEF Recover
  <2>2. rows' = [rows EXCEPT ![i] = next]
    BY <2>1
  <2>3. rows' \in Seq(Row) /\ Written(rows, rows', i, next)
    <3> HIDE DEF next
    <3> QED
      BY <1>1, <1>2, <2>2, Writing
  <2>4. LettersNameRows'
    BY <2>1, <2>3 DEF Types, LettersNameRows, Written
  <2>5. rows[i].attempt < MaxAttempts
    BY <1>1, <1>5, StageFacts
  <2>6. Types'
    BY <1>3, <2>1, <2>3, <2>4 DEF Types, TypeOK
  <2> QED
    BY <1>3, <2>1, <2>3, <2>5, <2>6
<1> QED
  BY <1>4, <1>5

LEMMA RetryShape ==
    ASSUME Types, RetryFailedJobs
    PROVE  /\ Types'
           /\ clicks' = clicks + 1
           /\ UNCHANGED <<gate, rows>>
           /\ run.status = "succeeded" <=> run'.status = "succeeded"
           /\ \A j \in DOMAIN jobs' :
                 \/ j \in DOMAIN jobs /\ jobs'[j] = jobs[j]
                 \/ jobs'[j].stage = NotAStage
                 \/ \E i \in DOMAIN rows : jobs'[j].stage = rows[i].stage
<1>1. /\ Retries \in Seq(Job)
      /\ \A n \in DOMAIN Retries :
            Retries[n].stage = NotAStage \/ \E i \in DOMAIN rows : Retries[n].stage = rows[i].stage
  BY RetryTypes
<1>2. jobs \in Seq(Job) /\ jobs' = jobs \o Retries
  BY DEF RetryFailedJobs, Types, TypeOK
<1>3. /\ jobs' \in Seq(Job) /\ Len(jobs') = Len(jobs) + Len(Retries)
      /\ \A k \in 1..(Len(jobs) + Len(Retries)) :
            jobs'[k] = IF k <= Len(jobs) THEN jobs[k] ELSE Retries[k - Len(jobs)]
  BY <1>1, <1>2, ConcatProperties
<1>4. /\ Len(jobs) \in Nat /\ DOMAIN jobs = 1..Len(jobs)
      /\ Len(Retries) \in Nat /\ DOMAIN Retries = 1..Len(Retries)
      /\ DOMAIN jobs' = 1..Len(jobs')
  BY <1>1, <1>2, <1>3, LenProperties
<1>5. \A j \in DOMAIN jobs' :
         \/ j \in DOMAIN jobs /\ jobs'[j] = jobs[j]
         \/ jobs'[j].stage = NotAStage
         \/ \E i \in DOMAIN rows : jobs'[j].stage = rows[i].stage
  <2> SUFFICES ASSUME NEW j \in DOMAIN jobs', j \notin DOMAIN jobs
               PROVE  \/ jobs'[j].stage = NotAStage
                      \/ \E i \in DOMAIN rows : jobs'[j].stage = rows[i].stage
    BY <1>3, <1>4
  <2>1. j - Len(jobs) \in DOMAIN Retries /\ jobs'[j] = Retries[j - Len(jobs)]
    BY <1>3, <1>4
  <2> QED
    BY <1>1, <2>1
<1>6. clicks' = clicks + 1 /\ clicks' \in 0..MaxClicks /\ UNCHANGED <<gate, rows>>
  BY StageFacts DEF RetryFailedJobs, Types, TypeOK
<1>7. letters' \in Seq(Letter) /\ LettersNameRows'
  <2>1. letters' = [k \in DOMAIN letters |->
                      [letters[k] EXCEPT !.open = letters[k].open /\ letters[k].about = "job"]]
    BY DEF RetryFailedJobs
  <2>2. \A k \in DOMAIN letters : letters[k] \in Letter /\ letters'[k] \in Letter
    BY <2>1, TableDomains, Zenon DEF Types, Letter
  <2>3. letters \in Seq(Letter) /\ letters' = [k \in DOMAIN letters |-> letters'[k]]
    BY <2>1 DEF Types, TypeOK
  <2>4. letters' \in Seq(Letter) /\ DOMAIN letters' = DOMAIN letters
    BY <2>2, <2>3, Mapping
  <2>5. \A k \in DOMAIN letters :
           letters'[k].about = letters[k].about /\ letters'[k].row = letters[k].row
    BY <2>1, <2>2 DEF Letter
  <2> QED
    BY <1>6, <2>4, <2>5 DEF Types, LettersNameRows
<1>8. run' \in RunType /\ (run.status = "succeeded" <=> run'.status = "succeeded")
  <2>1. run' = run \/ (run.status = "failed" /\ run' = [run EXCEPT !.status = "running"])
    BY DEF RetryFailedJobs
  <2> QED
    BY <2>1, RunTypes DEF Types, TypeOK, RunType
<1>9. Types'
  BY <1>3, <1>6, <1>7, <1>8 DEF Types, TypeOK, RunType
<1> QED
  BY <1>5, <1>6, <1>8, <1>9

-----------------------------------------------------------------------------
(* A step, whichever it is: the types hold, and what is in a table stays there. *)

\* Nobody moves an assignment or a job to another stage, and what is completed
\* is left alone.
Kept ==
    /\ \A i \in DOMAIN rows :
          /\ i \in DOMAIN rows' /\ rows'[i].stage = rows[i].stage
          /\ rows[i].status \in {"completed", "failed", "cancelled"} => rows'[i] = rows[i]
    /\ \A j \in DOMAIN jobs : j \in DOMAIN jobs' /\ jobs'[j].stage = jobs[j].stage

LEMMA RowWrittenKept ==
    ASSUME Types, NEW i \in DOMAIN rows, rows[i].status \in {"pending", "in_flight"},
           NEW e, e.stage = rows[i].stage, Written(rows, rows', i, e)
    PROVE  \A k \in DOMAIN rows :
              /\ k \in DOMAIN rows' /\ rows'[k].stage = rows[k].stage
              /\ rows[k].status \in {"completed", "failed", "cancelled"} => rows'[k] = rows[k]
  BY DEF Written

LEMMA JobWrittenKept ==
    ASSUME Types, NEW j \in DOMAIN jobs,
           NEW e, e.stage = jobs[j].stage, Written(jobs, jobs', j, e)
    PROVE  \A k \in DOMAIN jobs : k \in DOMAIN jobs' /\ jobs'[k].stage = jobs[k].stage
  BY DEF Written

LEMMA AdvanceKept ==
    ASSUME TypeOK, NEW r \in RunType, NEW s \in Stage, s # Final, Advance(r, s)
    PROVE  \A k \in DOMAIN jobs : k \in DOMAIN jobs' /\ jobs'[k].stage = jobs[k].stage
  BY AdvanceTypes DEF Added

LEMMA StepKept ==
    ASSUME Types, Next
    PROVE  Types' /\ Kept
<1>0. \A i \in DOMAIN rows : rows[i] \in Row
  BY TableDomains DEF Types
<1>00. \A j \in DOMAIN jobs : jobs[j] \in Job
  BY TableDomains DEF Types
<1>1. ASSUME NEW j \in DOMAIN jobs, Backpressure(j)
      PROVE  Types' /\ Kept
  <2> DEFINE more == [jobs[j] EXCEPT !.attempt = @ + 1]
             last == [jobs[j] EXCEPT !.attempt = @ + 1, !.status = "cancelled"]
  <2>1. Types' /\ (Written(jobs, jobs', j, more) \/ Written(jobs, jobs', j, last))
    BY <1>1, BackpressureShape
  <2>2. more.stage = jobs[j].stage /\ last.stage = jobs[j].stage
    BY <1>00 DEF Job
  <2>3. \A k \in DOMAIN jobs : k \in DOMAIN jobs' /\ jobs'[k].stage = jobs[k].stage
    <3> HIDE DEF more, last
    <3> QED
      BY <2>1, <2>2, JobWrittenKept
  <2>4. rows' = rows \/ rows' = [i \in DOMAIN rows |->
                               IF Open(i) /\ rows[i].stage = jobs[j].stage
                               THEN [rows[i] EXCEPT !.status = "cancelled"] ELSE rows[i]]
    BY <1>1, BackpressureShape
  <2>5. \A i \in DOMAIN rows :
          /\ i \in DOMAIN rows' /\ rows'[i].stage = rows[i].stage
          /\ rows[i].status \in {"completed", "failed", "cancelled"} => rows'[i] = rows[i]
    BY <1>0, <2>4 DEF Open, Row
  <2> QED
    BY <2>1, <2>3, <2>5 DEF Kept
<1>2. ASSUME NEW j \in DOMAIN jobs, Skip(j) \/ AlreadyDispatched(j)
      PROVE  Types' /\ Kept
  <2>1. Types' /\ UNCHANGED rows
    BY <1>2, RetireShape
  <2>2. PICK how \in {"done", "cancelled"} : Written(jobs, jobs', j, [jobs[j] EXCEPT !.status = how])
    BY <1>2, RetireShape
  <2>3. [jobs[j] EXCEPT !.status = how].stage = jobs[j].stage
    BY <1>00 DEF Job
  <2> QED
    BY <2>1, <2>2, <2>3, JobWrittenKept DEF Kept
<1>3. ASSUME NEW j \in DOMAIN jobs, NEW st \in {"pending", "in_flight"}, Assign(j, st)
      PROVE  Types' /\ Kept
  <2>1. /\ Types' /\ Added(rows, rows', NewRow(j, st))
        /\ Written(jobs, jobs', j, [jobs[j] EXCEPT !.status = "done"])
    BY <1>3, AssignShape
  <2>2. [jobs[j] EXCEPT !.status = "done"].stage = jobs[j].stage
    BY <1>00 DEF Job
  <2>3. \A k \in DOMAIN jobs : k \in DOMAIN jobs' /\ jobs'[k].stage = jobs[k].stage
    BY <2>1, <2>2, JobWrittenKept
  <2> QED
    BY <2>1, <2>3 DEF Kept, Added
<1>4. ASSUME (\E j \in DOMAIN jobs : HoldJob(j)) \/ (\E i \in DOMAIN rows : HoldClaim(i))
      PROVE  Types' /\ Kept
  BY <1>4, HoldShape DEF Kept
<1>5. ASSUME NEW i \in DOMAIN rows, Claim(i)
      PROVE  Types' /\ Kept
  <2>1. /\ Types' /\ rows[i].status = "pending" /\ UNCHANGED jobs
        /\ Written(rows, rows', i, [rows[i] EXCEPT !.status = "in_flight"])
    BY <1>5, ClaimShape
  <2>2. [rows[i] EXCEPT !.status = "in_flight"].stage = rows[i].stage
    BY <1>0 DEF Row
  <2> QED
    BY <2>1, <2>2, RowWrittenKept DEF Kept
<1>6. ASSUME NEW i \in DOMAIN rows, Recover(i)
      PROVE  Types' /\ Kept
  <2> DEFINE next == [rows[i] EXCEPT !.status = "pending", !.attempt = @ + 1]
             dead == [rows[i] EXCEPT !.status = "failed"]
  <2>1. /\ Types' /\ rows[i].status = "in_flight" /\ UNCHANGED jobs
        /\ Written(rows, rows', i, next) \/ Written(rows, rows', i, dead)
    BY <1>6, RecoverShape
  <2>2. next.stage = rows[i].stage /\ dead.stage = rows[i].stage
    BY <1>0 DEF Row
  <2> HIDE DEF next, dead
  <2> QED
    BY <2>1, <2>2, RowWrittenKept DEF Kept
<1>7. ASSUME NEW i \in DOMAIN rows, Succeed(i)
      PROVE  Types' /\ Kept
  <2> DEFINE e == [rows[i] EXCEPT !.status = "completed"]
  <2>1. Types' /\ rows[i].status = "in_flight" /\ Written(rows, rows', i, e)
    BY <1>7, SucceedShape
  <2>2. e.stage = rows[i].stage /\ rows[i].stage \in Stage /\ rows[i].stage # Final
    BY <1>0, StageFacts DEF Row
  <2>3. \A k \in DOMAIN jobs : k \in DOMAIN jobs' /\ jobs'[k].stage = jobs[k].stage
    <3>1. UNCHANGED jobs \/ Advance(run, rows[i].stage)
      BY <1>7, SucceedShape
    <3> QED
      BY <2>2, <3>1, AdvanceKept, RunTypes DEF Types
  <2> HIDE DEF e
  <2> QED
    BY <2>1, <2>2, <2>3, RowWrittenKept DEF Kept
<1>8. ASSUME NEW i \in DOMAIN rows, NEW transient \in BOOLEAN, Fail(i, transient)
      PROVE  Types' /\ Kept
  <2> DEFINE e == [rows[i] EXCEPT !.status = "failed"]
  <2>1. /\ Types' /\ rows[i].status = "in_flight" /\ Written(rows, rows', i, e)
        /\ UNCHANGED jobs \/ Added(jobs, jobs', StageJob(rows[i].stage, rows[i].attempt))
    BY <1>8, FailShape
  <2>2. e.stage = rows[i].stage
    BY <1>0 DEF Row
  <2> HIDE DEF e
  <2> QED
    BY <2>1, <2>2, RowWrittenKept DEF Kept, Added
<1>9. ASSUME NEW approved \in BOOLEAN, Decide(approved)
      PROVE  Types' /\ Kept
  <2> DEFINE r == [run EXCEPT !.status = "running", !.hold = "none"]
  <2>1. Types' /\ UNCHANGED rows /\ gate \in Gates /\ (UNCHANGED jobs \/ Advance(r, gate))
    BY <1>9, DecideShape
  <2>2. gate \in Stage /\ gate # Final /\ r \in RunType
    BY <2>1, StageFacts, RunTypes DEF Types
  <2> HIDE DEF r
  <2> QED
    BY <2>1, <2>2, AdvanceKept DEF Kept, Types
<1>10. ASSUME Escalate
       PROVE  Types' /\ Kept
  BY <1>10 DEF Escalate, Types, TypeOK, LettersNameRows, Kept
<1>11. ASSUME RetryFailedJobs
       PROVE  Types' /\ Kept
  <2>1. Types' /\ UNCHANGED rows
    BY <1>11, RetryShape
  <2>2. /\ jobs \in Seq(Job) /\ Retries \in Seq(Job)
        /\ jobs' = jobs \o Retries
    BY <1>11, RetryTypes DEF RetryFailedJobs, Types, TypeOK
  <2>3. \A j \in DOMAIN jobs : j \in DOMAIN jobs' /\ jobs'[j] = jobs[j]
    BY <2>2, ConcatProperties, LenProperties
  <2> QED
    BY <2>1, <2>3 DEF Kept
<1> QED
  BY <1>1, <1>2, <1>3, <1>4, <1>5, <1>6, <1>7, <1>8, <1>9, <1>10, <1>11
     DEF Next, JobStep, RowStep, GateStep

LEMMA InitTypes == Init => Types
<1> SUFFICES ASSUME Init PROVE Types
  OBVIOUS
<1>1. StageJob(1, 0) \in Job
  BY StageFacts DEF StageJob, Job
<1>2. jobs \in Seq(Job) /\ rows \in Seq(Row) /\ letters \in Seq(Letter)
  BY <1>1 DEF Init
<1>3. run \in RunType /\ clicks \in 0..MaxClicks
  BY StageFacts DEF Init, RunType
<1> QED
  BY <1>2, <1>3 DEF Init, Types, TypeOK, RunType, LettersNameRows

LEMMA TypesHold == Spec => []Types
<1>1. Types /\ UNCHANGED vars => Types'
  BY DEF Types, TypeOK, LettersNameRows, vars
<1>2. Types /\ [Next]_vars => Types'
  BY <1>1, StepKept
<1> QED
  BY InitTypes, <1>2, PTL DEF Spec

\* The run, its gate and its tables always have their types: in particular no
\* path of the controller, the scheduler or the retry button dispatches a gate
\* or a stage the workflow does not have.
THEOREM TypeCorrect == Spec => []TypeOK
<1>1. Types => TypeOK
  BY DEF Types
<1> QED
  BY TypesHold, <1>1, PTL

-----------------------------------------------------------------------------
(* A success was worked for, whatever is retried: jobs and assignments of a *)
(* stage, and gates, exist only once the stages before it were completed,   *)
(* and that is never undone.                                                *)

Done(s) == \E i \in DOMAIN rows : rows[i].stage = s /\ rows[i].status = "completed"

Before(s) == \A t \in Work : t < s => Done(t)

JobsCarried == \A j \in DOMAIN jobs : Before(jobs[j].stage)
RowsCarried == \A i \in DOMAIN rows : Before(rows[i].stage)

Carried ==
    /\ JobsCarried /\ RowsCarried
    /\ Before(gate)
    /\ run.status = "succeeded" => Before(Final)

LEMMA DoneStays ==
    ASSUME Kept
    PROVE  \A s : (Done(s) => Done(s)') /\ (Before(s) => Before(s)')
<1>1. \A s : Done(s) => Done(s)'
  BY DEF Kept, Done
<1> QED
  BY <1>1 DEF Before

LEMMA NothingBeforeTheFirst == Before(NoGate) /\ Before(1) /\ NoGate = NotAStage
<1>1. \A t \in Work : t \in Nat /\ t >= 1
  BY StageFacts DEF Stage, Work
<1> QED
  BY <1>1 DEF Before, NoGate, NotAStage

\* A stage that is done, or is a gate, is behind the next one.
LEMMA OneFurther ==
    ASSUME NEW s \in Stage, Before(s)', s \in Work => Done(s)'
    PROVE  Before(s + 1)'
<1> SUFFICES ASSUME NEW t \in Work, t < s + 1 PROVE Done(t)'
  BY DEF Before
<1>1. t \in Nat /\ s \in Nat
  BY StageFacts
<1> QED
  BY <1>1 DEF Before

\* Tables that only grow by entries whose stage may be worked on.
LEMMA JobsCarry ==
    ASSUME Kept, JobsCarried,
           \A j \in DOMAIN jobs' : j \in DOMAIN jobs \/ \E s : s = jobs'[j].stage /\ Before(s)'
    PROVE  JobsCarried'
<1> SUFFICES ASSUME NEW j \in DOMAIN jobs' PROVE \E s : s = jobs'[j].stage /\ Before(s)'
  BY DEF JobsCarried, Before
<1>1. CASE j \in DOMAIN jobs
  <2> DEFINE s == jobs[j].stage
  <2>1. s = jobs'[j].stage /\ Before(s)
    BY <1>1 DEF Kept, JobsCarried
  <2> HIDE DEF s
  <2>2. Before(s) => \A t \in Work : t < s => Done(t)'
    BY DoneStays DEF Before
  <2> QED
    BY <2>1, <2>2 DEF Before
<1> QED
  BY <1>1

LEMMA RowsCarry ==
    ASSUME Kept, RowsCarried,
           \A i \in DOMAIN rows' : i \in DOMAIN rows \/ \E s : s = rows'[i].stage /\ Before(s)'
    PROVE  RowsCarried'
<1> SUFFICES ASSUME NEW i \in DOMAIN rows' PROVE \E s : s = rows'[i].stage /\ Before(s)'
  BY DEF RowsCarried, Before
<1>1. CASE i \in DOMAIN rows
  <2> DEFINE s == rows[i].stage
  <2>1. s = rows'[i].stage /\ Before(s)
    BY <1>1 DEF Kept, RowsCarried
  <2> HIDE DEF s
  <2>2. Before(s) => \A t \in Work : t < s => Done(t)'
    BY DoneStays DEF Before
  <2> QED
    BY <2>1, <2>2 DEF Before
<1> QED
  BY <1>1

\* The controller advances from a stage that is behind the next one.
LEMMA AdvanceCarried ==
    ASSUME Types, Kept, Carried, NEW r \in RunType, r.status # "succeeded",
           NEW s \in Stage, s # Final, Advance(r, s), Before(s + 1)'
    PROVE  JobsCarried' /\ (run'.status = "succeeded" => Before(Final)')
<1>1. /\ run'.status = "succeeded" => s + 1 = Final
      /\ UNCHANGED jobs \/ Added(jobs, jobs', StageJob(s + 1, 0))
  BY AdvanceTypes DEF Types
<1>2. \A j \in DOMAIN jobs' : j \in DOMAIN jobs \/ \E t : t = jobs'[j].stage /\ Before(t)'
  BY <1>1 DEF Added, StageJob
<1> QED
  BY <1>1, <1>2, JobsCarry DEF Carried

\* An assignment or a job that is written stays at its stage.
LEMMA NothingAdded ==
    ASSUME Types, Kept, Carried,
           DOMAIN jobs' = DOMAIN jobs, DOMAIN rows' = DOMAIN rows, UNCHANGED gate,
           run'.status = "succeeded" => run.status = "succeeded"
    PROVE  Carried'
<1>1. JobsCarried' /\ RowsCarried'
  BY JobsCarry, RowsCarry DEF Carried
<1>2. Before(gate)'
  <2> DEFINE s == gate
  <2>1. \A t \in Work : t < s => Done(t)'
    BY DoneStays DEF Carried, Before
  <2> QED
    BY <2>1 DEF Before
<1>3. run'.status = "succeeded" => Before(Final)'
  BY DoneStays DEF Carried
<1> QED
  BY <1>1, <1>2, <1>3 DEF Carried

LEMMA StepCarries ==
    ASSUME Types, Carried, Next
    PROVE  Carried'
<1>0. Types' /\ Kept
  BY StepKept
<1>1. ASSUME NEW j \in DOMAIN jobs, Backpressure(j)
      PROVE  Carried'
  <2>1. DOMAIN jobs' = DOMAIN jobs /\ DOMAIN rows' = DOMAIN rows /\ UNCHANGED <<run, gate>>
    BY <1>1, BackpressureShape DEF Written
  <2> QED
    BY <1>0, <2>1, NothingAdded
<1>2. ASSUME NEW j \in DOMAIN jobs, Skip(j) \/ AlreadyDispatched(j)
      PROVE  Carried'
  <2>1. DOMAIN jobs' = DOMAIN jobs /\ UNCHANGED <<run, gate, rows>>
    BY <1>2, RetireShape DEF Written
  <2> QED
    BY <1>0, <2>1, NothingAdded
<1>3. ASSUME NEW j \in DOMAIN jobs, NEW st \in {"pending", "in_flight"}, Assign(j, st)
      PROVE  Carried'
  <2>1. /\ Added(rows, rows', NewRow(j, st)) /\ UNCHANGED <<run, gate>>
        /\ DOMAIN jobs' = DOMAIN jobs
    BY <1>3, AssignShape DEF Written
  <2>2. PICK s : s = jobs[j].stage
    OBVIOUS
  <2>3. Before(s)'
    BY <1>0, <2>2, DoneStays DEF Carried, JobsCarried
  <2>4. \A i \in DOMAIN rows' : i \in DOMAIN rows \/ \E t : t = rows'[i].stage /\ Before(t)'
    BY <2>1, <2>2, <2>3 DEF Added, NewRow
  <2>5. RowsCarried'
    BY <1>0, <2>4, RowsCarry DEF Carried
  <2>6. JobsCarried'
    BY <1>0, <2>1, JobsCarry DEF Carried
  <2> QED
    BY <1>0, <2>1, <2>5, <2>6, DoneStays DEF Carried
<1>4. ASSUME (\E j \in DOMAIN jobs : HoldJob(j)) \/ (\E i \in DOMAIN rows : HoldClaim(i))
      PROVE  Carried'
  <2>1. run' = Held(run) /\ UNCHANGED <<gate, jobs, rows>>
    BY <1>4, HoldShape
  <2>2. run'.status = "succeeded" => run.status = "succeeded"
    BY <2>1, RunTypes DEF Held, Types, RunType
  <2> QED
    BY <1>0, <2>1, <2>2, NothingAdded
<1>5. ASSUME NEW i \in DOMAIN rows, Claim(i)
      PROVE  Carried'
  <2>1. DOMAIN rows' = DOMAIN rows /\ UNCHANGED <<run, gate, jobs>>
    BY <1>5, ClaimShape DEF Written
  <2> QED
    BY <1>0, <2>1, NothingAdded
<1>6. ASSUME NEW i \in DOMAIN rows, Recover(i)
      PROVE  Carried'
  <2>1. DOMAIN rows' = DOMAIN rows /\ UNCHANGED <<gate, jobs>>
    BY <1>6, RecoverShape DEF Written
  <2>2. run' = run \/ run' = Failed(run)
    BY <1>6, RecoverShape
  <2>3. run'.status = "succeeded" => run.status = "succeeded"
    BY <2>2, RunTypes DEF Failed, Types, RunType
  <2> QED
    BY <1>0, <2>1, <2>3, NothingAdded
<1>7. ASSUME NEW i \in DOMAIN rows, Succeed(i)
      PROVE  Carried'
  <2>1. /\ Written(rows, rows', i, [rows[i] EXCEPT !.status = "completed"])
        /\ DOMAIN rows' = DOMAIN rows
    BY <1>7, SucceedShape DEF Written
  <2>2. rows[i] \in Row
    BY TableDomains DEF Types
  <2>3. PICK s \in Work : s = rows[i].stage
    BY <2>2 DEF Row
  <2>4. s \in Stage /\ s # Final
    BY StageFacts
  <2>5. Done(s)'
    BY <2>1, <2>2, <2>3 DEF Done, Written, Row
  <2>6. Before(s)'
    BY <1>0, <2>3, DoneStays DEF Carried, RowsCarried
  <2>7. Before(s + 1)'
    BY <2>4, <2>5, <2>6, OneFurther
  <2>8. RowsCarried'
    BY <1>0, <2>1, RowsCarry DEF Carried
  <2>9. CASE run' = run /\ UNCHANGED <<gate, jobs>>
    BY <1>0, <2>1, <2>9, NothingAdded
  <2>10. CASE run' = [run EXCEPT !.stage = s + 1] /\ UNCHANGED <<gate, jobs>>
    <3>1. run'.status = run.status
      BY <2>10, RunTypes DEF Types, RunType
    <3> QED
      BY <1>0, <2>1, <2>10, <3>1, NothingAdded
  <2>11. CASE /\ run.status \notin Terminal /\ Advance(run, s)
              /\ gate' = IF s + 1 \in Gates THEN s + 1 ELSE gate
    <3>1. JobsCarried' /\ (run'.status = "succeeded" => Before(Final)')
      BY <1>0, <2>4, <2>7, <2>11, AdvanceCarried, RunTypes DEF Terminal, Types
    <3>2. PICK g : g = gate'
      OBVIOUS
    <3>3. Before(g)'
      <4>1. CASE g = s + 1
        BY <2>7, <4>1
      <4>2. CASE g = gate
        BY <1>0, <4>2, DoneStays DEF Carried
      <4> QED
        BY <2>11, <3>2, <4>1, <4>2
    <3>4. Before(gate)'
      BY <3>2, <3>3 DEF Before
    <3> QED
      BY <2>8, <3>1, <3>4 DEF Carried
  <2> QED
    BY <1>7, <2>3, <2>9, <2>10, <2>11, SucceedShape
<1>8. ASSUME NEW i \in DOMAIN rows, NEW transient \in BOOLEAN, Fail(i, transient)
      PROVE  Carried'
  <2>1. /\ DOMAIN rows' = DOMAIN rows /\ UNCHANGED gate
        /\ \/ run' = run /\ Added(jobs, jobs', StageJob(rows[i].stage, rows[i].attempt))
           \/ run' = Failed(run) /\ UNCHANGED jobs
    BY <1>8, FailShape DEF Written, Fail
  <2>2. CASE run' = run /\ Added(jobs, jobs', StageJob(rows[i].stage, rows[i].attempt))
    <3>1. PICK s : s = rows[i].stage
      OBVIOUS
    <3>2. Before(s)'
      BY <1>0, <3>1, DoneStays DEF Carried, RowsCarried
    <3>3. \A j \in DOMAIN jobs' : j \in DOMAIN jobs \/ \E t : t = jobs'[j].stage /\ Before(t)'
      BY <2>2, <3>1, <3>2 DEF Added, StageJob
    <3>4. JobsCarried'
      BY <1>0, <3>3, JobsCarry DEF Carried
    <3>5. RowsCarried'
      BY <1>0, <2>1, RowsCarry DEF Carried
    <3> QED
      BY <1>0, <2>1, <2>2, <3>4, <3>5, DoneStays DEF Carried
  <2>3. CASE run' = Failed(run) /\ UNCHANGED jobs
    <3>1. run'.status # "succeeded"
      BY <2>3, RunTypes DEF Failed, Types, RunType
    <3> QED
      BY <1>0, <2>1, <2>3, <3>1, NothingAdded
  <2> QED
    BY <2>1, <2>2, <2>3
<1>9. ASSUME NEW approved \in BOOLEAN, Decide(approved)
      PROVE  Carried'
  <2> DEFINE r == [run EXCEPT !.status = "running", !.hold = "none"]
  <2>1. gate \in Gates /\ gate' = NoGate /\ UNCHANGED rows
    BY <1>9, DecideShape
  <2>2. PICK s \in Gates : s = gate
    BY <2>1
  <2>3. s \in Stage /\ s # Final /\ s \notin Work
    BY StageFacts
  <2>4. Before(s)'
    BY <1>0, <2>2, DoneStays DEF Carried
  <2>5. Before(s + 1)'
    BY <2>3, <2>4, OneFurther
  <2>6. RowsCarried'
    BY <1>0, <2>1, RowsCarry DEF Carried
  <2>7. Before(gate)'
    BY <1>0, <2>1, NothingBeforeTheFirst, DoneStays DEF Before
  <2>8. CASE Advance(r, s)
    <3>1. r \in RunType /\ r.status # "succeeded"
      BY RunTypes DEF Types, RunType
    <3> HIDE DEF r
    <3>2. JobsCarried' /\ (run'.status = "succeeded" => Before(Final)')
      BY <1>0, <2>3, <2>5, <2>8, <3>1, AdvanceCarried
    <3> QED
      BY <2>6, <2>7, <3>2 DEF Carried
  <2>9. CASE run' = [Failed(run) EXCEPT !.hold = "none"] /\ UNCHANGED jobs
    <3>1. run'.status # "succeeded"
      BY <2>9, RunTypes DEF Failed, Types, RunType
    <3>2. JobsCarried'
      BY <1>0, <2>9, JobsCarry DEF Carried
    <3> QED
      BY <2>6, <2>7, <3>1, <3>2 DEF Carried
  <2> QED
    BY <1>9, <2>2, <2>8, <2>9, DecideShape
<1>10. ASSUME Escalate
       PROVE  Carried'
  <2>1. gate' = NoGate /\ UNCHANGED <<run, jobs, rows>>
    BY <1>10 DEF Escalate
  <2>2. JobsCarried' /\ RowsCarried'
    BY <1>0, <2>1, JobsCarry, RowsCarry DEF Carried
  <2>3. Before(gate)'
    BY <1>0, <2>1, NothingBeforeTheFirst, DoneStays DEF Before
  <2> QED
    BY <1>0, <2>1, <2>2, <2>3, DoneStays DEF Carried
<1>11. ASSUME RetryFailedJobs
       PROVE  Carried'
  <2>1. UNCHANGED <<gate, rows>> /\ (run'.status = "succeeded" => run.status = "succeeded")
    BY <1>11, RetryShape
  <2>2. RowsCarried'
    BY <1>0, <2>1, RowsCarry DEF Carried
  <2>3. ASSUME NEW j \in DOMAIN jobs', j \notin DOMAIN jobs
        PROVE  \E t : t = jobs'[j].stage /\ Before(t)'
    <3>1. PICK t : t = jobs'[j].stage
      OBVIOUS
    <3>2. Before(t)
      <4>1. CASE t = NotAStage
        BY <4>1, NothingBeforeTheFirst
      <4>2. CASE \E i \in DOMAIN rows : t = rows[i].stage
        BY <4>2 DEF Carried, RowsCarried
      <4> QED
        BY <1>11, <2>3, <3>1, <4>1, <4>2, RetryShape
    <3> QED
      BY <1>0, <3>1, <3>2, DoneStays
  <2>4. JobsCarried'
    BY <1>0, <2>3, JobsCarry DEF Carried
  <2>5. Before(gate)'
    BY <1>0, <2>1, DoneStays DEF Carried, Before
  <2> QED
    BY <1>0, <2>1, <2>2, <2>4, <2>5, DoneStays DEF Carried
<1> QED
  BY <1>1, <1>2, <1>3, <1>4, <1>5, <1>6, <1>7, <1>8, <1>9, <1>10, <1>11
     DEF Next, JobStep, RowStep, GateStep

LEMMA InitCarried == Init => Carried
<1> SUFFICES ASSUME Init PROVE Carried
  OBVIOUS
<1>1. \A j \in DOMAIN jobs : jobs[j].stage = 1
  BY DEF Init, StageJob
<1>2. rows = <<>> /\ gate = NoGate /\ run.status = "running"
  BY DEF Init
<1> QED
  BY <1>1, <1>2, NothingBeforeTheFirst DEF Carried, JobsCarried, RowsCarried

\* However often stages are retried, assignments lost and recovered, gates
\* decided late or the retry button used: a run has succeeded only if each of
\* its stages was completed, for every workflow.
THEOREM SuccessIsWork == Spec => []SuccessMeansWork
<1>1. Carried /\ UNCHANGED vars => Carried'
  BY DEF Carried, JobsCarried, RowsCarried, Before, Done, vars
<1>2. Types /\ Carried /\ [Next]_vars => Carried'
  BY <1>1, StepCarries
<1>3. Spec => []Carried
  BY <1>2, InitCarried, TypesHold, PTL DEF Spec
<1>4. Carried => SuccessMeansWork
  <2>1. \A t \in Work : t < Final
    BY RunAssumption DEF Work, Stage
  <2> QED
    BY <2>1 DEF Carried, SuccessMeansWork, Before, Done
<1> QED
  BY <1>3, <1>4, PTL

-----------------------------------------------------------------------------
(* The thread of control of a run nobody has used the retry button on: it is *)
(* a job, an assignment or a gate, or it has ended.                          *)

\* What was left behind: each stage before the run's was completed by one
\* assignment, and two assignments of a stage have different numbers, of which
\* only the last may be the highest allowed.
Past ==
    /\ \A i \in DOMAIN rows : rows[i].stage <= run.stage
    /\ \A i \in DOMAIN rows : rows[i].status = "completed" => rows[i].stage < run.stage
    /\ \A i, k \in DOMAIN rows :
          rows[i].stage = rows[k].stage /\ rows[i].status = "completed" /\ rows[k].status = "completed"
             => i = k
    /\ \A s \in Work : s < run.stage => Done(s)
    /\ \A i, k \in DOMAIN rows :
          i # k /\ rows[i].stage = rows[k].stage =>
             /\ rows[i].attempt # rows[k].attempt
             /\ rows[i].attempt < MaxAttempts \/ rows[k].attempt < MaxAttempts

NoJob == \A j \in DOMAIN jobs : jobs[j].status # "pending"
NoRow == \A i \in DOMAIN rows : ~ Open(i)

JobPhase(j) ==
    /\ jobs[j].status = "pending"
    /\ \A k \in DOMAIN jobs : jobs[k].status = "pending" => k = j
    /\ NoRow
    /\ gate = NoGate /\ Unfinished
    /\ jobs[j].stage = run.stage
    /\ \A i \in DOMAIN rows : rows[i].stage = run.stage =>
          rows[i].attempt <= jobs[j].attempt /\ rows[i].attempt < MaxAttempts

RowPhase(i) ==
    /\ Open(i)
    /\ \A k \in DOMAIN rows : Open(k) => k = i
    /\ NoJob
    /\ gate = NoGate /\ Unfinished
    /\ rows[i].stage = run.stage
    /\ \A k \in DOMAIN rows : k # i /\ rows[k].stage = run.stage =>
          rows[k].attempt < rows[i].attempt /\ rows[k].attempt < MaxAttempts

GatePhase ==
    /\ NoJob /\ NoRow
    /\ gate = run.stage
    /\ run.status = "paused" /\ run.hold = "review"

EndPhase ==
    /\ NoJob /\ NoRow
    /\ gate = NoGate
    /\ Unfinished => \E k \in DOMAIN letters : letters[k].about = "job"
    /\ run.status = "failed" =>
          run.stage \in Gates \/ \E k \in DOMAIN letters : letters[k].about # "job" /\ letters[k].open

Phase ==
    \/ \E j \in DOMAIN jobs : JobPhase(j)
    \/ \E i \in DOMAIN rows : RowPhase(i)
    \/ GatePhase
    \/ EndPhase

Thread == clicks = 0 => Past /\ Phase

LEMMA Fields ==
    ASSUME Types
    PROVE  /\ \A i \in DOMAIN rows : /\ rows[i].stage \in Work /\ rows[i].stage \in Stage
                                     /\ rows[i].stage \in Nat /\ rows[i].attempt \in Nat
           /\ \A j \in DOMAIN jobs : jobs[j].attempt \in Nat
           /\ run.stage \in Stage /\ run.stage \in Nat
           /\ run \in RunType
           /\ MaxAttempts \in Nat
  BY TableDomains, StageFacts, RunTypes DEF Types, Row, Job, RunType

LEMMA RowsTyped ==
    ASSUME NEW t \in Seq(Row)
    PROVE  \A i \in DOMAIN t : t[i] \in Row
  BY ElementOfSeq, LenProperties

\* Who has the run: a phase is recognised by what is under way.
LEMMA ByJob ==
    ASSUME Phase, NEW j \in DOMAIN jobs, jobs[j].status = "pending"
    PROVE  JobPhase(j)
  BY DEF Phase, JobPhase, RowPhase, GatePhase, EndPhase, NoJob

LEMMA ByRow ==
    ASSUME Phase, NEW i \in DOMAIN rows, Open(i)
    PROVE  RowPhase(i)
  BY DEF Phase, JobPhase, RowPhase, GatePhase, EndPhase, NoRow

LEMMA ByGate ==
    ASSUME Phase, gate # NoGate
    PROVE  GatePhase
  BY DEF Phase, JobPhase, RowPhase, EndPhase

LEMMA ToJob ==
    ASSUME NEW j \in DOMAIN jobs', JobPhase(j)'
    PROVE  Phase'
  BY DEF Phase

LEMMA ToRow ==
    ASSUME NEW i \in DOMAIN rows', RowPhase(i)'
    PROVE  Phase'
  BY DEF Phase

\* A run that stays at its stage leaves nothing new behind, if only the status
\* of assignments changes and none is completed.
LEMMA PastKept ==
    ASSUME Past, run'.stage = run.stage, DOMAIN rows' = DOMAIN rows,
           \A i \in DOMAIN rows :
              /\ rows'[i].stage = rows[i].stage /\ rows'[i].attempt = rows[i].attempt
              /\ rows'[i].status = "completed" <=> rows[i].status = "completed"
    PROVE  Past'
  BY DEF Past, Done

\* A run that leaves a stage leaves all its assignments behind.
LEMMA PastMoved ==
    ASSUME Past, DOMAIN rows' = DOMAIN rows,
           \A i \in DOMAIN rows : rows'[i].stage = rows[i].stage /\ rows'[i].attempt = rows[i].attempt,
           \A i \in DOMAIN rows' : rows'[i].stage <= run'.stage /\ rows'[i].stage < run'.stage,
           \A i, k \in DOMAIN rows' :
              rows'[i].stage = rows'[k].stage /\ rows'[i].status = "completed" /\ rows'[k].status = "completed"
                 => i = k,
           \A t \in Work : t < run'.stage => Done(t)'
    PROVE  Past'
<1>1. \A i, k \in DOMAIN rows' :
         i # k /\ rows'[i].stage = rows'[k].stage =>
            /\ rows'[i].attempt # rows'[k].attempt
            /\ rows'[i].attempt < MaxAttempts \/ rows'[k].attempt < MaxAttempts
  BY DEF Past
<1> QED
  BY <1>1 DEF Past

\* The controller advances a run that nothing else moves.
LEMMA Onward ==
    ASSUME Types, Types', NEW r \in RunType,
           r.status = "running" \/ (r.status = "paused" /\ r.hold = "spend"),
           NEW s \in Stage, s # Final, Advance(r, s),
           gate' = IF s + 1 \in Gates THEN s + 1 ELSE NoGate,
           NoJob, NoRow', \A i \in DOMAIN rows' : rows'[i].stage <= s
    PROVE  run'.stage = s + 1 /\ Phase'
<1>0. TypeOK /\ s \in Nat /\ s + 1 \notin {NoGate}
  BY StageFacts DEF Types, NoGate
<1>1. run'.stage = s + 1
  BY <1>0, AdvanceTypes
<1>2. CASE s + 1 = Final /\ run'.status = "succeeded" /\ jobs' = jobs
  <2>1. gate' = NoGate
    BY <1>2, StageFacts
  <2>2. NoJob'
    BY <1>2 DEF NoJob
  <2> QED
    BY <1>1, <1>2, <2>1, <2>2 DEF Phase, EndPhase, Unfinished
<1>3. CASE s + 1 \in Gates /\ run'.status = "paused" /\ run'.hold = "review" /\ jobs' = jobs
  <2>1. NoJob'
    BY <1>3 DEF NoJob
  <2> QED
    BY <1>1, <1>3, <2>1 DEF Phase, GatePhase
<1>4. CASE /\ s + 1 \in Work /\ run'.status = r.status /\ run'.hold = r.hold
           /\ Added(jobs, jobs', StageJob(s + 1, 0))
  <2>1. gate' = NoGate
    BY <1>4, StageFacts
  <2>2. Unfinished'
    BY <1>4 DEF Unfinished
  <2>3. PICK j : j = Len(jobs) + 1
    OBVIOUS
  <2>4. /\ j \in DOMAIN jobs' /\ jobs'[j].stage = s + 1 /\ jobs'[j].status = "pending"
        /\ \A k \in DOMAIN jobs' : jobs'[k].status = "pending" => k = j
    BY <1>4, <2>3 DEF Added, StageJob, NoJob
  <2>5. \A i \in DOMAIN rows' : rows'[i].stage # s + 1
    <3>1. \A i \in DOMAIN rows' : rows'[i].stage \in Nat
      BY RowsTyped, StageFacts DEF Types, TypeOK, Row
    <3> QED
      BY <1>0, <3>1
  <2>6. JobPhase(j)'
    BY <1>1, <2>1, <2>2, <2>4, <2>5 DEF JobPhase
  <2> QED
    BY <1>1, <2>4, <2>6, ToJob
<1> QED
  BY <1>0, <1>1, <1>2, <1>3, <1>4, AdvanceTypes

LEMMA BackpressureThread ==
    ASSUME Types, Past, Phase, NEW j \in DOMAIN jobs, Backpressure(j)
    PROVE  Past' /\ Phase'
<1>0. Due(j) /\ UNCHANGED <<run, gate>>
  BY DEF Backpressure
<1>1. JobPhase(j) /\ jobs[j] \in Job
  BY <1>0, ByJob, TableDomains DEF Types, Due
<1>2. UNCHANGED <<run, gate>>
  BY <1>0
<1>3. CASE Written(jobs, jobs', j, [jobs[j] EXCEPT !.attempt = @ + 1]) /\ UNCHANGED <<rows, letters>>
  <2>1. /\ DOMAIN jobs' = DOMAIN jobs
        /\ jobs'[j].attempt = jobs[j].attempt + 1
        /\ jobs'[j].stage = jobs[j].stage /\ jobs'[j].status = jobs[j].status
        /\ \A k \in DOMAIN jobs : k # j => jobs'[k] = jobs[k]
    BY <1>1, <1>3 DEF Written, Job
  <2>2. \A i \in DOMAIN rows : rows[i].stage = run.stage => rows[i].attempt <= jobs[j].attempt + 1
    BY <1>1, Fields DEF JobPhase
  <2>3. Past' /\ NoRow' /\ Unfinished'
    BY <1>1, <1>2, <1>3 DEF Past, Done, JobPhase, NoRow, Open, Unfinished
  <2>4. JobPhase(j)'
    BY <1>1, <1>2, <1>3, <2>1, <2>2, <2>3 DEF JobPhase
  <2> QED
    BY <2>1, <2>3, <2>4, ToJob
<1>4. CASE /\ Written(jobs, jobs', j, [jobs[j] EXCEPT !.attempt = @ + 1, !.status = "cancelled"])
           /\ rows' = [i \in DOMAIN rows |->
                         IF Open(i) /\ rows[i].stage = jobs[j].stage
                         THEN [rows[i] EXCEPT !.status = "cancelled"] ELSE rows[i]]
           /\ Added(letters, letters', LetterOf("job", 0, jobs[j].attempt + 1))
  <2>1. /\ DOMAIN jobs' = DOMAIN jobs
        /\ jobs'[j].status = "cancelled"
        /\ \A k \in DOMAIN jobs : k # j => jobs'[k] = jobs[k]
    BY <1>1, <1>4 DEF Written, Job
  <2>2. NoJob'
    BY <1>1, <2>1 DEF NoJob, JobPhase
  <2>3. DOMAIN rows' = DOMAIN rows /\ \A i \in DOMAIN rows : rows'[i] = rows[i]
    BY <1>1, <1>4 DEF JobPhase, NoRow
  <2>4. Past' /\ NoRow'
    BY <1>1, <1>2, <2>3, PastKept DEF JobPhase, NoRow, Open
  <2>5. \E k \in DOMAIN letters' : letters'[k].about = "job"
    BY <1>4 DEF Added, LetterOf
  <2>6. run'.status # "failed" /\ gate' = NoGate
    BY <1>1, <1>2 DEF JobPhase, Unfinished
  <2> QED
    BY <2>2, <2>4, <2>5, <2>6 DEF Phase, EndPhase
<1>5. \/ Written(jobs, jobs', j, [jobs[j] EXCEPT !.attempt = @ + 1]) /\ UNCHANGED <<rows, letters>>
      \/ /\ Written(jobs, jobs', j, [jobs[j] EXCEPT !.attempt = @ + 1, !.status = "cancelled"])
         /\ rows' = [i \in DOMAIN rows |->
                       IF Open(i) /\ rows[i].stage = jobs[j].stage
                       THEN [rows[i] EXCEPT !.status = "cancelled"] ELSE rows[i]]
         /\ Added(letters, letters', LetterOf("job", 0, jobs[j].attempt + 1))
  BY BackpressureShape, Zenon
<1> QED
  BY <1>3, <1>4, <1>5, Zenon

\* A job of a run nobody touched is never skipped, and never finds its
\* assignment there already.
LEMMA RetireThread ==
    ASSUME Types, Past, Phase, NEW j \in DOMAIN jobs
    PROVE  ~ Skip(j) /\ ~ AlreadyDispatched(j)
<1> SUFFICES ASSUME Skip(j) \/ AlreadyDispatched(j) PROVE FALSE
  OBVIOUS
<1>1. JobPhase(j)
  BY ByJob DEF Skip, AlreadyDispatched, Dispatchable, Due
<1>2. ~ Skip(j)
  BY <1>1 DEF Skip, JobPhase, Unfinished, Terminal
<1>3. ~ KeyTaken(jobs[j].stage, jobs[j].attempt + 1)
  BY <1>1, Fields DEF JobPhase, KeyTaken
<1> QED
  BY <1>2, <1>3 DEF AlreadyDispatched

LEMMA AssignThread ==
    ASSUME Types, Past, Phase, NEW j \in DOMAIN jobs, NEW st \in {"pending", "in_flight"}, Assign(j, st)
    PROVE  Past' /\ Phase'
<1>1. JobPhase(j) /\ jobs[j] \in Job
  BY AssignShape, ByJob, TableDomains DEF Types
<1>2. /\ UNCHANGED <<run, gate>> /\ Added(rows, rows', NewRow(j, st))
      /\ Written(jobs, jobs', j, [jobs[j] EXCEPT !.status = "done"])
  BY AssignShape
<1>3. PICK n : n = Len(rows) + 1
  OBVIOUS
<1>4. /\ n \notin DOMAIN rows /\ DOMAIN rows' = DOMAIN rows \cup {n}
      /\ rows'[n].stage = run.stage /\ rows'[n].attempt = jobs[j].attempt + 1 /\ rows'[n].status = st
      /\ \A i \in DOMAIN rows : rows'[i] = rows[i]
  BY <1>1, <1>2, <1>3 DEF Added, NewRow, JobPhase
<1>5. NoJob'
  BY <1>1, <1>2 DEF Written, Job, NoJob, JobPhase
<1>6. \A i \in DOMAIN rows : rows[i].stage = run.stage =>
         rows[i].attempt < jobs[j].attempt + 1 /\ rows[i].attempt < MaxAttempts
  BY <1>1, Fields DEF JobPhase
<1>7. Past'
  <2>1. \A i \in DOMAIN rows' : rows'[i].stage <= run.stage
    BY <1>4, Fields DEF Past
  <2>2. \A i \in DOMAIN rows' : rows'[i].status = "completed" =>
           i \in DOMAIN rows /\ rows'[i].stage < run.stage
    BY <1>4 DEF Past
  <2>3. \A i, k \in DOMAIN rows' :
          rows'[i].stage = rows'[k].stage /\ rows'[i].status = "completed" /\ rows'[k].status = "completed"
             => i = k
    BY <1>4, <2>2 DEF Past
  <2>4. \A s \in Work : s < run.stage => Done(s)'
    BY <1>4 DEF Past, Done
  <2>5. \A i, k \in DOMAIN rows' :
          i # k /\ rows'[i].stage = rows'[k].stage =>
             /\ rows'[i].attempt # rows'[k].attempt
             /\ rows'[i].attempt < MaxAttempts \/ rows'[k].attempt < MaxAttempts
    <3> SUFFICES ASSUME NEW i \in DOMAIN rows', NEW k \in DOMAIN rows', i # k,
                        rows'[i].stage = rows'[k].stage
                 PROVE  /\ rows'[i].attempt # rows'[k].attempt
                        /\ rows'[i].attempt < MaxAttempts \/ rows'[k].attempt < MaxAttempts
      OBVIOUS
    <3>1. CASE i = n
      BY <1>4, <1>6, <3>1, Fields
    <3>2. CASE k = n
      BY <1>4, <1>6, <3>2, Fields
    <3>3. CASE i \in DOMAIN rows /\ k \in DOMAIN rows
      BY <1>4, <3>3 DEF Past
    <3> QED
      BY <1>4, <3>1, <3>2, <3>3
  <2> QED
    BY <1>2, <2>1, <2>2, <2>3, <2>4, <2>5 DEF Past
<1>8. RowPhase(n)'
  <2>1. Open(n)' /\ \A k \in DOMAIN rows' : Open(k)' => k = n
    BY <1>1, <1>4 DEF JobPhase, NoRow, Open
  <2>2. gate' = NoGate /\ Unfinished'
    BY <1>1, <1>2 DEF JobPhase, Unfinished
  <2> QED
    BY <1>2, <1>4, <1>5, <1>6, <2>1, <2>2 DEF RowPhase
<1> QED
  BY <1>4, <1>7, <1>8, ToRow

LEMMA HoldThread ==
    ASSUME Types, Past, Phase,
           (\E j \in DOMAIN jobs : HoldJob(j)) \/ (\E i \in DOMAIN rows : HoldClaim(i))
    PROVE  Past' /\ Phase'
<1>1. run' = Held(run) /\ UNCHANGED <<gate, jobs, rows, letters>>
  BY HoldShape
<1>2. run'.stage = run.stage /\ run'.status = "paused" /\ run'.hold = "spend"
  BY <1>1, RunTypes DEF Types, RunType, Held
<1>3. Past'
  BY <1>1, <1>2, PastKept
<1>4. Unfinished' /\ NoJob' = NoJob /\ NoRow' = NoRow
  BY <1>1, <1>2 DEF Unfinished, NoJob, NoRow, Open
<1>5. ASSUME NEW j \in DOMAIN jobs, HoldJob(j)
      PROVE  Phase'
  <2>1. JobPhase(j)
    BY <1>5, ByJob DEF HoldJob, Dispatchable, Due
  <2>2. JobPhase(j)'
    BY <1>1, <1>2, <1>4, <2>1 DEF JobPhase
  <2> QED
    BY <1>1, <2>2, ToJob
<1>6. ASSUME NEW i \in DOMAIN rows, HoldClaim(i)
      PROVE  Phase'
  <2>1. RowPhase(i)
    BY <1>6, ByRow DEF HoldClaim, Waiting, Open
  <2>2. RowPhase(i)'
    BY <1>1, <1>2, <1>4, <2>1 DEF RowPhase, Open
  <2> QED
    BY <1>1, <2>2, ToRow
<1> QED
  BY <1>3, <1>5, <1>6

LEMMA ClaimThread ==
    ASSUME Types, Past, Phase, NEW i \in DOMAIN rows, Claim(i)
    PROVE  Past' /\ Phase'
<1>1. /\ rows[i].status = "pending" /\ UNCHANGED <<run, gate, jobs>>
      /\ Written(rows, rows', i, [rows[i] EXCEPT !.status = "in_flight"])
  BY ClaimShape
<1>2. RowPhase(i) /\ rows[i] \in Row
  BY <1>1, ByRow, TableDomains DEF Open, Types
<1>3. /\ DOMAIN rows' = DOMAIN rows /\ rows'[i].status = "in_flight"
      /\ rows'[i].stage = rows[i].stage /\ rows'[i].attempt = rows[i].attempt
      /\ \A k \in DOMAIN rows : k # i => rows'[k] = rows[k]
  BY <1>1, <1>2 DEF Written, Row
<1>4. Past'
  BY <1>1, <1>3, PastKept
<1>5. RowPhase(i)'
  <2>1. NoJob' /\ Unfinished' /\ gate' = NoGate
    BY <1>1, <1>2 DEF RowPhase, NoJob, Unfinished
  <2>2. Open(i)' /\ \A k \in DOMAIN rows' : Open(k)' => k = i
    BY <1>2, <1>3 DEF RowPhase, Open
  <2> QED
    BY <1>1, <1>2, <1>3, <2>1, <2>2 DEF RowPhase
<1> QED
  BY <1>3, <1>4, <1>5, ToRow

\* The assignment that has the run is over, and nothing took its place.
LEMMA RowOver ==
    ASSUME Types, NEW i \in DOMAIN rows, RowPhase(i), NEW st \in {"completed", "failed"},
           Written(rows, rows', i, [rows[i] EXCEPT !.status = st])
    PROVE  /\ DOMAIN rows' = DOMAIN rows /\ rows'[i].status = st
           /\ \A k \in DOMAIN rows : /\ rows'[k].stage = rows[k].stage
                                     /\ rows'[k].attempt = rows[k].attempt
                                     /\ k # i => rows'[k] = rows[k]
           /\ NoRow'
<1>1. rows[i] \in Row
  BY TableDomains DEF Types
<1>2. /\ DOMAIN rows' = DOMAIN rows /\ rows'[i].status = st
      /\ rows'[i].stage = rows[i].stage /\ rows'[i].attempt = rows[i].attempt
      /\ \A k \in DOMAIN rows : k # i => rows'[k] = rows[k]
  BY <1>1 DEF Written, Row
<1>3. NoRow'
  BY <1>2 DEF NoRow, RowPhase, Open
<1> QED
  BY <1>2, <1>3

LEMMA FailedFields ==
    ASSUME Types
    PROVE  Failed(run).status = "failed" /\ Failed(run).stage = run.stage
  BY RunTypes DEF Types, RunType, Failed

LEMMA RecoverThread ==
    ASSUME Types, Past, Phase, NEW i \in DOMAIN rows, Recover(i)
    PROVE  Past' /\ Phase'
<1>1. rows[i].status = "in_flight" /\ UNCHANGED <<gate, jobs>>
  BY DEF Recover, InFlight
<1>2. RowPhase(i) /\ rows[i] \in Row
  BY <1>1, ByRow, TableDomains DEF Open, Types
<1>3. NoJob' /\ gate' = NoGate /\ Unfinished
  BY <1>1, <1>2 DEF RowPhase, NoJob
<1>4. CASE /\ rows[i].attempt < MaxAttempts
           /\ Written(rows, rows', i, [rows[i] EXCEPT !.status = "pending", !.attempt = @ + 1])
           /\ UNCHANGED <<run, letters>>
  <2>1. /\ DOMAIN rows' = DOMAIN rows /\ rows'[i].status = "pending"
        /\ rows'[i].stage = rows[i].stage /\ rows'[i].attempt = rows[i].attempt + 1
        /\ \A k \in DOMAIN rows : k # i => rows'[k] = rows[k]
    BY <1>2, <1>4 DEF Written, Row
  <2>2. \A k \in DOMAIN rows : k # i /\ rows[k].stage = run.stage =>
           rows[k].attempt < rows[i].attempt + 1 /\ rows[k].attempt < MaxAttempts
    BY <1>2, Fields DEF RowPhase
  <2>3. RowPhase(i)'
    <3>1. Open(i)' /\ \A k \in DOMAIN rows' : Open(k)' => k = i
      BY <1>2, <2>1 DEF RowPhase, Open
    <3>2. Unfinished'
      BY <1>3, <1>4 DEF Unfinished
    <3> QED
      BY <1>2, <1>3, <1>4, <2>1, <2>2, <3>1, <3>2 DEF RowPhase
  <2>4. Past'
    <3>1. \A k \in DOMAIN rows' :
             /\ rows'[k].stage = rows[k].stage
             /\ rows'[k].status = "completed" => k # i /\ rows'[k] = rows[k]
      BY <2>1
    <3>2. \A s \in Work : s < run.stage => Done(s)'
      BY <1>1, <2>1 DEF Past, Done
    <3>3. \A k, l \in DOMAIN rows' :
            k # l /\ rows'[k].stage = rows'[l].stage =>
               /\ rows'[k].attempt # rows'[l].attempt
               /\ rows'[k].attempt < MaxAttempts \/ rows'[l].attempt < MaxAttempts
      <4> SUFFICES ASSUME NEW k \in DOMAIN rows', NEW l \in DOMAIN rows', k # l,
                          rows'[k].stage = rows'[l].stage
                   PROVE  /\ rows'[k].attempt # rows'[l].attempt
                          /\ rows'[k].attempt < MaxAttempts \/ rows'[l].attempt < MaxAttempts
        OBVIOUS
      <4>1. rows[i].stage = run.stage
        BY <1>2 DEF RowPhase
      <4>2. CASE k = i
        BY <2>1, <2>2, <4>1, <4>2, Fields
      <4>3. CASE l = i
        BY <2>1, <2>2, <4>1, <4>3, Fields
      <4>4. CASE k # i /\ l # i
        BY <2>1, <4>4 DEF Past
      <4> QED
        BY <4>2, <4>3, <4>4
    <3> QED
      BY <1>4, <2>1, <3>1, <3>2, <3>3 DEF Past
  <2> QED
    BY <2>1, <2>3, <2>4, ToRow
<1>5. CASE /\ Written(rows, rows', i, [rows[i] EXCEPT !.status = "failed"])
           /\ Added(letters, letters', LetterOf("row", i, rows[i].attempt))
           /\ run' = IF run.status \in Terminal THEN run ELSE Failed(run)
  <2>1. run'.status = "failed" /\ run'.stage = run.stage
    BY <1>3, <1>5, FailedFields DEF Unfinished, Terminal
  <2>2. /\ DOMAIN rows' = DOMAIN rows /\ rows'[i].status = "failed" /\ NoRow'
        /\ \A k \in DOMAIN rows : /\ rows'[k].stage = rows[k].stage
                                  /\ rows'[k].attempt = rows[k].attempt
                                  /\ k # i => rows'[k] = rows[k]
    BY <1>2, <1>5, RowOver
  <2>3. Past'
    BY <1>1, <2>1, <2>2, PastKept
  <2>4. \E k \in DOMAIN letters' : letters'[k].about # "job" /\ letters'[k].open
    BY <1>5 DEF Added, LetterOf
  <2> QED
    BY <1>3, <2>1, <2>2, <2>3, <2>4 DEF Phase, EndPhase, Unfinished
<1>6. \/ /\ rows[i].attempt < MaxAttempts
         /\ Written(rows, rows', i, [rows[i] EXCEPT !.status = "pending", !.attempt = @ + 1])
         /\ UNCHANGED <<run, letters>>
      \/ /\ Written(rows, rows', i, [rows[i] EXCEPT !.status = "failed"])
         /\ Added(letters, letters', LetterOf("row", i, rows[i].attempt))
         /\ run' = IF run.status \in Terminal THEN run ELSE Failed(run)
  BY RecoverShape, Zenon
<1> QED
  BY <1>4, <1>5, <1>6, Zenon

LEMMA SucceedThread ==
    ASSUME Types, Types', Past, Phase, NEW i \in DOMAIN rows, Succeed(i)
    PROVE  Past' /\ Phase'
<1> DEFINE s == run.stage
<1>1. /\ rows[i].status = "in_flight"
      /\ Written(rows, rows', i, [rows[i] EXCEPT !.status = "completed"])
  BY SucceedShape
<1>2. RowPhase(i)
  BY <1>1, ByRow DEF Open
<1>3. /\ gate = NoGate /\ Unfinished /\ NoJob /\ rows[i].stage = s
      /\ s \in Stage /\ s \in Nat /\ s # Final /\ s \in Work
  BY <1>2, Fields, StageFacts DEF RowPhase
<1>4. Advance(run, s) /\ gate' = IF s + 1 \in Gates THEN s + 1 ELSE NoGate
  BY <1>3, SucceedShape DEF Unfinished, Terminal
<1>5. /\ DOMAIN rows' = DOMAIN rows /\ rows'[i].status = "completed" /\ NoRow'
      /\ \A k \in DOMAIN rows : /\ rows'[k].stage = rows[k].stage
                                /\ rows'[k].attempt = rows[k].attempt
                                /\ k # i => rows'[k] = rows[k]
  BY <1>1, <1>2, RowOver
<1>6. \A k \in DOMAIN rows' : /\ rows'[k].stage <= s /\ rows'[k].stage <= s + 1
                              /\ rows'[k].stage < s + 1
  BY <1>3, <1>5, Fields DEF Past
<1>7. run'.stage = s + 1 /\ Phase'
  BY <1>3, <1>4, <1>5, <1>6, Fields, Onward DEF Unfinished
<1>8. \A k, l \in DOMAIN rows' :
         rows'[k].stage = rows'[l].stage /\ rows'[k].status = "completed" /\ rows'[l].status = "completed"
            => k = l
  <2>1. \A k \in DOMAIN rows : rows[k].status = "completed" => rows[k].stage # s
    BY <1>3, Fields DEF Past
  <2> QED
    BY <1>3, <1>5, <2>1 DEF Past
<1>9. \A t \in Work : t < s + 1 => Done(t)'
  <2> SUFFICES ASSUME NEW t \in Work, t < s + 1 PROVE Done(t)'
    OBVIOUS
  <2>1. CASE t = s
    BY <1>3, <1>5, <2>1 DEF Done
  <2>2. CASE t < s
    <3>1. PICK k \in DOMAIN rows : rows[k].stage = t /\ rows[k].status = "completed"
      BY <2>2 DEF Past, Done
    <3> QED
      BY <1>1, <1>5, <3>1 DEF Done
  <2>3. t \in Nat
    BY StageFacts
  <2> QED
    BY <1>3, <2>1, <2>2, <2>3
<1>10. Past'
  BY <1>5, <1>6, <1>7, <1>8, <1>9, PastMoved
<1> QED
  BY <1>7, <1>10

LEMMA FailThread ==
    ASSUME Types, Past, Phase, NEW i \in DOMAIN rows, NEW transient \in BOOLEAN, Fail(i, transient)
    PROVE  Past' /\ Phase'
<1>1. /\ rows[i].status = "in_flight" /\ UNCHANGED gate
      /\ Written(rows, rows', i, [rows[i] EXCEPT !.status = "failed"])
  BY FailShape DEF Fail
<1>2. RowPhase(i)
  BY <1>1, ByRow DEF Open
<1>3. gate' = NoGate /\ Unfinished /\ NoJob /\ rows[i].stage = run.stage
  BY <1>1, <1>2 DEF RowPhase
<1>4. /\ DOMAIN rows' = DOMAIN rows /\ rows'[i].status = "failed" /\ NoRow'
      /\ \A k \in DOMAIN rows : /\ rows'[k].stage = rows[k].stage
                                /\ rows'[k].attempt = rows[k].attempt
                                /\ k # i => rows'[k] = rows[k]
  BY <1>1, <1>2, RowOver
<1>5. CASE /\ rows[i].attempt < MaxAttempts
           /\ Added(jobs, jobs', StageJob(rows[i].stage, rows[i].attempt))
           /\ UNCHANGED <<run, letters>>
  <2>1. Past'
    BY <1>1, <1>4, <1>5, PastKept
  <2>2. PICK j : j = Len(jobs) + 1
    OBVIOUS
  <2>3. /\ j \in DOMAIN jobs' /\ jobs'[j].stage = run.stage /\ jobs'[j].status = "pending"
        /\ jobs'[j].attempt = rows[i].attempt
        /\ \A k \in DOMAIN jobs' : jobs'[k].status = "pending" => k = j
    BY <1>3, <1>5, <2>2 DEF Added, StageJob, NoJob
  <2>4. \A k \in DOMAIN rows' : rows'[k].stage = run.stage =>
           rows'[k].attempt <= rows[i].attempt /\ rows'[k].attempt < MaxAttempts
    BY <1>2, <1>4, <1>5, Fields DEF RowPhase
  <2>5. JobPhase(j)'
    BY <1>3, <1>4, <1>5, <2>3, <2>4 DEF JobPhase, Unfinished
  <2> QED
    BY <2>1, <2>3, <2>5, ToJob
<1>6. CASE /\ Added(letters, letters', LetterOf("run", 0, rows[i].attempt))
           /\ run' = Failed(run) /\ UNCHANGED jobs
  <2>1. run'.status = "failed" /\ run'.stage = run.stage
    BY <1>6, FailedFields
  <2>2. Past'
    BY <1>1, <1>4, <2>1, PastKept
  <2>3. \E k \in DOMAIN letters' : letters'[k].about # "job" /\ letters'[k].open
    BY <1>6 DEF Added, LetterOf
  <2>4. NoJob'
    BY <1>3, <1>6 DEF NoJob
  <2> QED
    BY <1>3, <1>4, <2>1, <2>2, <2>3, <2>4 DEF Phase, EndPhase, Unfinished
<1> QED
  BY <1>5, <1>6, FailShape

LEMMA DecideThread ==
    ASSUME Types, Types', Past, Phase, NEW approved \in BOOLEAN, Decide(approved)
    PROVE  Past' /\ Phase'
<1> DEFINE r == [run EXCEPT !.status = "running", !.hold = "none"]
<1>1. gate \in Gates /\ gate' = NoGate /\ UNCHANGED <<rows, letters>> /\ gate # NoGate
  BY DecideShape DEF Decide
<1>2. GatePhase
  BY <1>1, ByGate
<1>3. PICK s : s = gate
  OBVIOUS
<1>4. /\ s = run.stage /\ s \in Gates /\ s \in Stage /\ s \in Nat /\ s # Final
      /\ s \notin Work /\ s + 1 \in Work \cup {Final} /\ s + 1 \notin Gates
      /\ NoJob /\ NoRow
  BY <1>1, <1>2, <1>3, StageFacts DEF GatePhase
<1>5. NoRow'
  BY <1>1, <1>4 DEF NoRow, Open
<1>6. CASE Advance(r, s)
  <2>1. r \in RunType /\ r.status = "running"
    BY RunTypes DEF Types, RunType
  <2> HIDE DEF r
  <2>2. \A k \in DOMAIN rows' : /\ rows'[k].stage <= s /\ rows'[k].stage <= s + 1
                                /\ rows'[k].stage < s + 1
    BY <1>1, <1>4, Fields DEF Past
  <2>3. gate' = IF s + 1 \in Gates THEN s + 1 ELSE NoGate
    BY <1>1, <1>4
  <2>4. run'.stage = s + 1 /\ Phase'
    BY <1>4, <1>5, <1>6, <2>1, <2>2, <2>3, Onward
  <2>5. \A t \in Work : t < s + 1 => Done(t)'
    <3> SUFFICES ASSUME NEW t \in Work, t < s + 1 PROVE Done(t)'
      OBVIOUS
    <3>1. t < s
      BY <1>4, StageFacts
    <3> QED
      BY <1>1, <1>4, <3>1 DEF Past, Done
  <2>6. Past'
    <3>1. \A k, l \in DOMAIN rows' :
             rows'[k].stage = rows'[l].stage /\ rows'[k].status = "completed" /\ rows'[l].status = "completed"
                => k = l
      BY <1>1 DEF Past
    <3> QED
      BY <1>1, <2>2, <2>4, <2>5, <3>1, PastMoved
  <2> QED
    BY <2>4, <2>6
<1>7. CASE run' = [Failed(run) EXCEPT !.hold = "none"] /\ UNCHANGED jobs
  <2>1. run'.status = "failed" /\ run'.stage = run.stage
    BY <1>7, RunTypes DEF Types, RunType, Failed
  <2>2. Past'
    BY <1>1, <2>1, PastKept
  <2>3. NoJob'
    BY <1>4, <1>7 DEF NoJob
  <2> QED
    BY <1>1, <1>4, <1>5, <2>1, <2>2, <2>3 DEF Phase, EndPhase, Unfinished
<1> QED
  BY <1>3, <1>6, <1>7, DecideShape

LEMMA EscalateThread ==
    ASSUME Types, Past, Phase, Escalate
    PROVE  Past' /\ Phase'
<1>1. gate # NoGate /\ gate' = NoGate /\ UNCHANGED <<run, jobs, rows, letters>>
  BY DEF Escalate
<1>2. GatePhase
  BY <1>1, ByGate
<1>3. Past'
  BY <1>1, PastKept
<1>4. NoJob' /\ NoRow'
  BY <1>1, <1>2 DEF GatePhase, NoJob, NoRow, Open
<1> QED
  BY <1>1, <1>2, <1>3, <1>4 DEF GatePhase, Phase, EndPhase, Unfinished

LEMMA InitThread == Init => Thread
<1> SUFFICES ASSUME Init PROVE Past /\ Phase
  BY DEF Thread
<1>1. rows = <<>> /\ gate = NoGate /\ run.status = "running" /\ run.stage = 1
  BY DEF Init
<1>2. DOMAIN jobs = {1} /\ jobs[1].stage = 1 /\ jobs[1].status = "pending"
  BY DEF Init, StageJob
<1>3. Past
  <2>1. \A s \in Work : ~ (s < 1)
    BY StageFacts DEF Work, Stage
  <2> QED
    BY <1>1, <2>1 DEF Past
<1>4. JobPhase(1)
  BY <1>1, <1>2 DEF JobPhase, NoRow, Unfinished
<1> QED
  BY <1>2, <1>3, <1>4 DEF Phase

LEMMA StepThread ==
    ASSUME Types, Types', Thread, Next
    PROVE  Thread'
<1> SUFFICES ASSUME clicks' = 0 PROVE Past' /\ Phase'
  BY DEF Thread
<1>1. ~ RetryFailedJobs
  BY DEF RetryFailedJobs, Types, TypeOK
<1>2. UNCHANGED clicks
  BY <1>1 DEF Next, JobStep, RowStep, GateStep, Backpressure, Skip, AlreadyDispatched, HoldJob, Assign,
        Claim, HoldClaim, Recover, Succeed, Fail, Decide, Escalate
<1>3. Past /\ Phase
  BY <1>2 DEF Thread
<1>4. CASE JobStep
  BY <1>3, <1>4, BackpressureThread, RetireThread, HoldThread, AssignThread DEF JobStep
<1>5. CASE RowStep
  BY <1>3, <1>5, ClaimThread, HoldThread, RecoverThread, SucceedThread, FailThread DEF RowStep
<1>6. CASE GateStep
  BY <1>3, <1>6, DecideThread, EscalateThread DEF GateStep
<1> QED
  BY <1>1, <1>4, <1>5, <1>6 DEF Next

LEMMA ThreadHolds == Spec => [](Types /\ Thread)
<1>1. Thread /\ UNCHANGED vars => Thread'
  BY DEF Thread, Past, Phase, JobPhase, RowPhase, GatePhase, EndPhase, NoJob, NoRow, Open, Unfinished,
         Done, vars
<1>2. Types /\ Types' /\ Thread /\ [Next]_vars => Thread'
  BY <1>1, StepThread
<1> QED
  BY <1>2, InitThread, TypesHold, PTL DEF Spec

\* Until an admin presses the retry button, one job, one assignment or one gate
\* moves the run: stages are never executed side by side, for every workflow.
THEOREM OneAtATime == Spec => []OneThreadOfControl
<1>1. Thread => OneThreadOfControl
  BY DEF Thread, Phase, JobPhase, RowPhase, GatePhase, EndPhase, NoJob, NoRow, OneThreadOfControl,
         Untouched, Due, Open, NoGate
<1> QED
  BY <1>1, ThreadHolds, PTL

\* A run that is neither over nor at a gate has a job or an assignment that
\* moves it, or the scheduler has left a letter about the job it gave up.
THEOREM NeverStalls == Spec => []NothingStalls
<1>1. Thread => NothingStalls
  BY DEF Thread, Phase, JobPhase, RowPhase, GatePhase, EndPhase, NothingStalls, Untouched, Due,
         Unfinished
<1> QED
  BY <1>1, ThreadHolds, PTL

\* A failed run left a letter an operator can find, or was rejected at a gate.
THEOREM FailureHasAReason == Spec => []FailureIsExplained
<1>1. Thread => FailureIsExplained
  BY DEF Thread, Phase, JobPhase, RowPhase, GatePhase, EndPhase, FailureIsExplained, Untouched,
         Unfinished
<1> QED
  BY <1>1, ThreadHolds, PTL

\* Every stage a run has left was completed by exactly one assignment, and no
\* later one by any, however many attempts its stages took.
THEOREM OnceAndInOrder == Spec => []StagesInOrder
<1>1. ASSUME Types, Thread
      PROVE  StagesInOrder
  <2> SUFFICES ASSUME Untouched, NEW s \in Work
               PROVE  Cardinality({i \in DOMAIN rows : rows[i].stage = s /\ rows[i].status = "completed"})
                         = IF s < run.stage THEN 1 ELSE 0
    BY DEF StagesInOrder
  <2> DEFINE C == {i \in DOMAIN rows : rows[i].stage = s /\ rows[i].status = "completed"}
  <2>1. Past
    BY <1>1 DEF Thread, Untouched
  <2>2. CASE s < run.stage
    <3>1. PICK i \in C : TRUE
      BY <2>1, <2>2 DEF Past, Done
    <3>2. C = {i}
      BY <2>1, <3>1 DEF Past
    <3> HIDE DEF C
    <3>3. Cardinality(C) = 1
      BY <3>2, FS_Singleton
    <3> QED
      BY <2>2, <3>3 DEF C
  <2>3. CASE ~ (s < run.stage)
    <3>1. C = {}
      BY <2>1, <2>3 DEF Past
    <3> HIDE DEF C
    <3>2. Cardinality(C) = 0
      BY <3>1, FS_EmptySet
    <3> QED
      BY <2>3, <3>2 DEF C
  <2> QED
    BY <2>2, <2>3
<1> QED
  BY <1>1, ThreadHolds, PTL

\* Failures, recoveries and postponed dispatches together never give a stage
\* more assignments than max_attempts, and a recovery finds its number unused.
THEOREM AttemptsBounded == Spec => []AttemptsAreBounded
<1>1. ASSUME Types, Thread, Untouched, NEW s \in Work
      PROVE  Cardinality({i \in DOMAIN rows : rows[i].stage = s}) <= MaxAttempts
  <2> DEFINE A == {i \in DOMAIN rows : rows[i].stage = s}
             f == [i \in A |-> IF rows[i].attempt < MaxAttempts THEN rows[i].attempt ELSE MaxAttempts]
  <2>1. Past
    BY <1>1 DEF Thread, Untouched
  <2>2. \A i \in A : rows[i].attempt \in Nat \ {0}
    BY <1>1, TableDomains DEF Types, Row
  <2>3. f \in [A -> 1..MaxAttempts]
    BY <2>2, StageFacts
  <2>4. \A i, k \in A : f[i] = f[k] => i = k
    BY <2>1, <2>2, StageFacts DEF Past
  <2>5. f \in Injection(A, 1..MaxAttempts)
    <3> HIDE DEF f, A
    <3> QED
      BY <2>3, <2>4 DEF Injection, IsInjective
  <2> HIDE DEF A, f
  <2>6. IsFiniteSet(1..MaxAttempts) /\ Cardinality(1..MaxAttempts) = MaxAttempts
    BY StageFacts, FS_Interval
  <2>7. Cardinality(A) <= Cardinality(1..MaxAttempts)
    BY <2>5, <2>6, FS_Injection
  <2> QED
    BY <2>6, <2>7 DEF A
<1>2. ASSUME Types, Thread, Untouched, NEW i \in DOMAIN rows, InFlight(i)
      PROVE  ~ KeyTaken(rows[i].stage, rows[i].attempt + 1)
  <2>1. RowPhase(i)
    BY <1>2, ByRow DEF Thread, Untouched, InFlight, Open
  <2> QED
    BY <1>2, <2>1, Fields DEF RowPhase, KeyTaken
<1>3. Types /\ Thread => AttemptsAreBounded
  BY <1>1, <1>2 DEF AttemptsAreBounded
<1> QED
  BY <1>3, ThreadHolds, PTL

=============================================================================
