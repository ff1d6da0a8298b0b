------------------------ MODULE ExtractionCoreProofs ------------------------
(* The pipeline, for any texts, whatever is parsed from them, and any time  *)
(* limits.                                                                  *)
EXTENDS ExtractionCore, TLAPS

\* The search from the end finds the greatest index.
LEMMA GreatestIndex ==
    ASSUME NEW I \in SUBSET Nat, NEW m \in I, \A i \in I : i <= m
    PROVE  (CHOOSE i \in I : \A j \in I : j <= i) = m
<1> DEFINE P(i) == i \in I /\ \A j \in I : j <= i
<1>1. P(m)
  OBVIOUS
<1>2. \A i : P(i) => i = m
  OBVIOUS
<1> QED BY <1>1, <1>2

LEMMA RankValues ==
    ASSUME NEW t, Parses(t)
    PROVE  /\ confidence_rank(t) \in 1..3
           /\ confidence_rank(t) = 1 <=> Level[t] = "LOW"
BY DEF Parses, confidence_rank, Confidence

\* An attempt is appended as the n-th, the others stay.
Grown(n, call, raw, error) ==
    /\ attempts' \in Seq(Attempt)
    /\ n \in Nat \ {0} /\ Len(attempts') = n /\ DOMAIN attempts' = 1..n
    /\ attempts'[n] = [stage |-> call, raw |-> raw, error |-> error]
    /\ \A i \in 1..(n - 1) : attempts'[i] = attempts[i]
    /\ DOMAIN attempts = 1..(n - 1)

LEMMA Grows ==
    ASSUME TypeOK, NEW call \in Stage, NEW raw \in Text \cup {Null},
           NEW error \in Exception \cup {Null}, Record(call, raw, error)
    PROVE  Grown(Len(attempts) + 1, call, raw, error)
<1> DEFINE r == [stage |-> call, raw |-> raw, error |-> error]
<1>1. r \in Attempt
  BY DEF Attempt
<1>2. attempts \in Seq(Attempt) /\ attempts' = Append(attempts, r)
  BY DEF TypeOK, Record
<1> HIDE DEF r
<1>3. QED BY <1>1, <1>2 DEF r, Grown

-----------------------------------------------------------------------------
(* How a run ends.                                                         *)

\* Attempt i, of n, is the best of all and the last one of its stage.
Best(n, i, t, st) ==
    /\ n \in Nat /\ DOMAIN attempts' = 1..n /\ i \in 1..n
    /\ t \in Text /\ Parses(t) /\ attempts'[i].raw = t /\ attempts'[i].stage = st
    /\ \A j \in 1..n : j > i => attempts'[j].stage # st
    /\ \A j \in (1..n) \ {i} : ParsedAt(j)' =>
          \/ confidence_rank(attempts'[j].raw) < confidence_rank(t)
          \/ confidence_rank(attempts'[j].raw) = confidence_rank(t) /\ i < j

LEMMA SuccessHolds ==
    ASSUME NEW n, NEW i, NEW t, NEW st, Best(n, i, t, st), Succeed(t, st)
    PROVE  SelectedIsBest' /\ RawBelongsToSelection' /\ ParseFailureKeepsText'
<1> USE DEF Best
<1>1. result'.extraction = t /\ result'.stage = st /\ result'.status = "SUCCESS"
  BY DEF Succeed
<1>2. t # Null
  BY NullAssumption
<1>3. SelectedIsBest'
  BY <1>1, <1>2 DEF SelectedIsBest, ParsedAt, Parses
<1>4. RawBelongsToSelection'
  <2> DEFINE I == {j \in DOMAIN attempts' : attempts'[j].stage = st}
  <2>1. i \in I /\ I \in SUBSET Nat /\ \A j \in I : j <= i
    OBVIOUS
  <2>2. (CHOOSE j \in I : \A k \in I : k <= j) = i
    BY <2>1, GreatestIndex
  <2>3. SuccessRaw' = attempts'[i].raw
    BY <1>1, <2>1, <2>2 DEF SuccessRaw, LastRaw
  <2> QED BY <1>1, <2>3 DEF RawBelongsToSelection
<1>5. ParseFailureKeepsText'
  BY <1>1 DEF ParseFailureKeepsText, Failed
<1> QED BY <1>3, <1>4, <1>5

\* A failure: if it is a parse failure, i is the last attempt with a text.
LEMMA FailureHolds ==
    ASSUME NEW n \in Nat, DOMAIN attempts' = 1..n, NEW code, NEW retryable,
           Fail(code, retryable),
           code = "LLM_JSON_PARSE_FAIL" =>
              \E i \in 1..n : /\ attempts'[i].raw # Null /\ ~Parses(attempts'[i].raw)
                              /\ \A j \in 1..n : j > i => attempts'[j].raw = Null
    PROVE  SelectedIsBest' /\ RawBelongsToSelection' /\ ParseFailureKeepsText'
<1>1. result'.status = "FAILED" /\ result'.code = code
  BY DEF Fail
<1>2. SelectedIsBest' /\ RawBelongsToSelection'
  BY <1>1 DEF SelectedIsBest, RawBelongsToSelection, Succeeded
<1>3. ASSUME code = "LLM_JSON_PARSE_FAIL"
      PROVE  FailureRaw' # Null /\ (~Parses(FailureRaw))'
  <2>1. PICK i \in 1..n : /\ attempts'[i].raw # Null /\ ~Parses(attempts'[i].raw)
                          /\ \A j \in 1..n : j > i => attempts'[j].raw = Null
    BY <1>3
  <2>2. i \in WithText' /\ WithText' \in SUBSET Nat /\ \A j \in WithText' : j <= i
    BY <2>1 DEF WithText
  <2>3. (CHOOSE j \in WithText' : \A k \in WithText' : k <= j) = i
    BY <2>2, GreatestIndex
  <2>4. FailureRaw' = attempts'[i].raw
    BY <2>2, <2>3 DEF FailureRaw, LastRaw
  <2> QED BY <2>1, <2>4 DEF Parses
<1> QED BY <1>1, <1>2, <1>3 DEF ParseFailureKeepsText, Failed

-----------------------------------------------------------------------------
(* What every step keeps.                                                  *)

\* A call adds at most its limit to the time.
LEMMA TimePasses ==
    ASSUME TypeOK, NEW call \in Stage, Took(call) \/ GivenUp(call)
    PROVE  elapsed' \in Nat /\ elapsed' <= elapsed + Limit(call)
<1>1. Limit(call) \in Nat \ {0} /\ elapsed \in Nat
  BY TimeoutAssumption DEF Limit, TypeOK
<1>2. PICK d \in 0..Limit(call) : elapsed' = elapsed + d
  BY <1>1 DEF Took, GivenUp
<1> QED BY <1>1, <1>2

\* Nothing better than a LOW extraction is in hand.
Undecided == \A i \in DOMAIN attempts : ParsedAt(i) => Level[attempts[i].raw] = "LOW"

LEMMA BudgetHolds ==
    ASSUME NEW n \in Nat \ {0}, DOMAIN attempts = 1..(n - 1),
           DOMAIN attempts' = 1..n, Len(attempts') = n,
           \A i \in 1..(n - 1) : attempts'[i] = attempts[i],
           Undecided, elapsed' <= 2 * ExtractionTimeout + RepairTimeout
    PROVE  WithinBudget'
<1>1. ASSUME NEW i \in 1..n, ParsedAt(i)', (Level[attempts[i].raw])' # "LOW" PROVE i = n
  <2>1. CASE i # n
    <3>1. i \in DOMAIN attempts /\ attempts'[i] = attempts[i]
      BY <2>1
    <3>2. ParsedAt(i) /\ Level[attempts[i].raw] # "LOW"
      BY <1>1, <3>1 DEF ParsedAt, Parses
    <3> QED BY <3>1, <3>2 DEF Undecided
  <2> QED BY <2>1
<1> QED BY <1>1 DEF WithinBudget

\* The step that CallsInOrder allows.
Ordered == /\ pc' # pc => pc' \in After(pc) \cup {"done"}
           /\ attempts' # attempts /\ attempts'[Len(attempts')].error = "timeout"
                 => pc' = "done"

Kept == IInv' /\ Ordered

\* A run that is over, with a result of either kind.
LEMMA OverHolds ==
    ASSUME SelectedIsBest', RawBelongsToSelection', ParseFailureKeepsText', WithinBudget',
           attempts' \in Seq(Attempt), elapsed' \in Nat,
           selected' \in Text \cup {Null}, stage' \in Stage \cup {Null},
           pc' = "done", result' \in Result
    PROVE  Kept
<1>1. result' # Null
  BY NullAssumption
<1>2. InHand'
  BY <1>1 DEF InHand
<1>3. TypeOK'
  BY DEF TypeOK
<1> QED BY <1>2, <1>3 DEF Kept, IInv, Ordered

LEMMA SucceedTypes ==
    ASSUME NEW t \in Text, NEW st \in Stage, Succeed(t, st)
    PROVE  pc' = "done" /\ selected' \in Text \cup {Null}
           /\ stage' \in Stage \cup {Null} /\ result' \in Result
BY DEF Succeed, Result, Code

LEMMA FailTypes ==
    ASSUME TypeOK, NEW code \in Code, NEW retryable \in BOOLEAN, Fail(code, retryable)
    PROVE  pc' = "done" /\ selected' \in Text \cup {Null}
           /\ stage' \in Stage \cup {Null} /\ result' \in Result
BY DEF Fail, Result, TypeOK

\* A run that goes on has returned nothing.
LEMMA OnwardHolds ==
    ASSUME result' = Null
    PROVE  SelectedIsBest' /\ RawBelongsToSelection' /\ ParseFailureKeepsText'
BY DEF SelectedIsBest, RawBelongsToSelection, ParseFailureKeepsText, Succeeded, Failed

-----------------------------------------------------------------------------
(* The first call.                                                         *)

LEMMA FirstAnswer ==
    ASSUME IInv, InitialAnswers PROVE Kept
<1>0. /\ TypeOK /\ pc = "initial" /\ attempts = <<>> /\ elapsed = 0 /\ result = Null
      /\ Took("initial") /\ Undecided
  BY DEF IInv, InHand, InitialAnswers, Undecided
<1>1. PICK t \in Text :
        /\ Record("initial", t, Null)
        /\ \/ Parses(t) /\ Select(t, "initial")
           \/ ~Parses(t) /\ pc' = "repair" /\ UNCHANGED <<selected, stage, result>>
  BY DEF InitialAnswers
<1>2. t # Null
  BY NullAssumption
<1>3. /\ attempts' \in Seq(Attempt) /\ Len(attempts') = 1 /\ DOMAIN attempts' = 1..1
      /\ DOMAIN attempts = 1..0
      /\ attempts'[1] = [stage |-> "initial", raw |-> t, error |-> Null]
  <2>1. "initial" \in Stage /\ t \in Text \cup {Null} /\ Null \in Exception \cup {Null}
        /\ Record("initial", t, Null)
    BY <1>1 DEF Stage
  <2>2. Grown(Len(attempts) + 1, "initial", t, Null)
    BY <1>0, <2>1, Grows
  <2>3. Len(attempts) = 0
    BY <1>0
  <2> QED BY <2>2, <2>3 DEF Grown
<1>4. elapsed' \in Nat /\ elapsed' <= ExtractionTimeout
  BY <1>0, TimePasses, TimeoutAssumption DEF Stage, Limit
<1>5. WithinBudget'
  BY <1>0, <1>3, <1>4, BudgetHolds, TimeoutAssumption
<1>6. attempts'[1].error # "timeout"
  BY <1>3, NullAssumption DEF Exception
<1>7. CASE Parses(t) /\ Level[t] # "LOW" /\ Select(t, "initial")
  <2>1. Succeed(t, "initial")
    BY <1>7 DEF Select
  <2>2. SelectedIsBest' /\ RawBelongsToSelection' /\ ParseFailureKeepsText'
    <3>1. Best(1, 1, t, "initial")
      BY <1>3, <1>7 DEF Best
    <3> QED BY <2>1, <3>1, SuccessHolds
  <2> QED BY <1>3, <1>4, <1>5, <2>1, <2>2, SucceedTypes, OverHolds DEF Stage
<1>8. CASE Parses(t) /\ Level[t] = "LOW" /\ Select(t, "initial")
  <2>1. selected' = t /\ stage' = "initial" /\ pc' = "retry" /\ result' = Null
    BY <1>0, <1>8 DEF Select
  <2>2. TypeOK'
    BY <1>3, <1>4, <2>1 DEF TypeOK, Stage
  <2>3. InHand'
    BY <1>2, <1>3, <1>4, <1>8, <2>1, TimeoutAssumption DEF InHand
  <2> QED BY <1>0, <1>3, <1>5, <1>6, <2>1, <2>2, <2>3, OnwardHolds
          DEF Kept, IInv, Ordered, After
<1>9. CASE ~Parses(t) /\ pc' = "repair" /\ UNCHANGED <<selected, stage, result>>
  <2>1. TypeOK'
    BY <1>0, <1>3, <1>4, <1>9 DEF TypeOK, Stage
  <2>2. InHand'
    BY <1>0, <1>2, <1>3, <1>4, <1>9 DEF InHand, Parses
  <2> QED BY <1>0, <1>3, <1>5, <1>6, <1>9, <2>1, <2>2, OnwardHolds
          DEF Kept, IInv, Ordered, After
<1> QED BY <1>1, <1>7, <1>8, <1>9

LEMMA FirstFails ==
    ASSUME IInv, InitialTimesOut \/ InitialRejected PROVE Kept
<1>. DEFINE Timed == Took("initial") \/ GivenUp("initial")
<1>1. pc = "initial" /\ Timed
  BY DEF InitialTimesOut, InitialRejected
<1>2. TypeOK /\ attempts = <<>> /\ elapsed = 0 /\ Undecided
  BY <1>1 DEF IInv, InHand, Undecided
<1>3. PICK error \in Exception, code \in Code, retryable \in BOOLEAN :
        Record("initial", Null, error) /\ Fail(code, retryable)
        /\ code # "LLM_JSON_PARSE_FAIL"
  BY DEF InitialTimesOut, InitialRejected, Exception, Code
<1>4. /\ attempts' \in Seq(Attempt) /\ Len(attempts') = 1 /\ DOMAIN attempts' = 1..1
      /\ DOMAIN attempts = 1..0
  <2>1. "initial" \in Stage /\ Null \in Text \cup {Null} /\ error \in Exception \cup {Null}
    BY DEF Stage
  <2>2. Record("initial", Null, error)
    BY <1>3
  <2>3. Grown(Len(attempts) + 1, "initial", Null, error)
    BY <1>2, <2>1, <2>2, Grows
  <2>4. Len(attempts) = 0
    BY <1>2
  <2> QED BY <2>3, <2>4 DEF Grown
<1>5. elapsed' \in Nat /\ elapsed' <= ExtractionTimeout
  BY <1>1, <1>2, TimePasses, TimeoutAssumption DEF Stage, Limit
<1>6. WithinBudget'
  BY <1>2, <1>4, <1>5, BudgetHolds, TimeoutAssumption
<1>7. SelectedIsBest' /\ RawBelongsToSelection' /\ ParseFailureKeepsText'
  BY <1>3, <1>4, FailureHolds
<1> QED BY <1>2, <1>3, <1>4, <1>5, <1>6, <1>7, FailTypes, OverHolds

-----------------------------------------------------------------------------
(* The repair.                                                             *)

LEMMA RepairTime ==
    ASSUME IInv, pc = "repair",
           Took("repair") \/ GivenUp("repair")
    PROVE  elapsed' \in Nat /\ elapsed' <= ExtractionTimeout + RepairTimeout
<1>1. TypeOK /\ elapsed \in Nat /\ elapsed <= ExtractionTimeout
  BY DEF IInv, InHand, TypeOK
<1>2. elapsed' \in Nat /\ elapsed' <= elapsed + Limit("repair")
  BY <1>1, TimePasses DEF Stage
<1> QED BY <1>1, <1>2, TimeoutAssumption DEF Limit

\* The two attempts of a run whose repair has just ended.
LEMMA RepairRecorded ==
    ASSUME IInv, pc = "repair", NEW raw \in Text \cup {Null},
           NEW error \in Exception \cup {Null}, Record("repair", raw, error),
           Took("repair") \/ GivenUp("repair")
    PROVE  /\ Grown(2, "repair", raw, error) /\ WithinBudget'
           /\ attempts'[1].raw # Null /\ ~Parses(attempts'[1].raw)
           /\ attempts'[1].stage = "initial"
<1>1. /\ TypeOK /\ Len(attempts) = 1 /\ attempts[1].stage = "initial"
      /\ attempts[1].raw # Null /\ ~Parses(attempts[1].raw)
  BY DEF IInv, InHand
<1>2. Grown(Len(attempts) + 1, "repair", raw, error)
  BY <1>1, Grows DEF Stage
<1>3. Grown(2, "repair", raw, error)
  BY <1>1, <1>2
<1>4. attempts'[1] = attempts[1] /\ DOMAIN attempts = 1..1
  BY <1>3 DEF Grown
<1>5. Undecided
  BY <1>1, <1>4 DEF Undecided, ParsedAt
<1>6. WithinBudget'
  BY <1>3, <1>5, RepairTime, BudgetHolds, TimeoutAssumption DEF Grown
<1> QED BY <1>1, <1>3, <1>4, <1>6 DEF Parses

LEMMA RepairAnswered ==
    ASSUME IInv, RepairAnswers PROVE Kept
<1>0. TypeOK /\ pc = "repair" /\ result = Null /\ Took("repair")
  BY DEF IInv, InHand, RepairAnswers
<1>1. PICK t \in Text :
        /\ Record("repair", t, Null)
        /\ \/ Parses(t) /\ Select(t, "repair")
           \/ ~Parses(t) /\ Fail("LLM_JSON_PARSE_FAIL", FALSE)
  BY DEF RepairAnswers
<1>2. t # Null
  BY NullAssumption
<1>3. /\ Grown(2, "repair", t, Null) /\ WithinBudget'
      /\ attempts'[1].raw # Null /\ ~Parses(attempts'[1].raw)
      /\ attempts'[1].stage = "initial"
  BY <1>0, <1>1, RepairRecorded
<1>4. /\ attempts' \in Seq(Attempt) /\ Len(attempts') = 2 /\ DOMAIN attempts' = 1..2
      /\ attempts'[2] = [stage |-> "repair", raw |-> t, error |-> Null]
  BY <1>3 DEF Grown
<1>5. elapsed' \in Nat /\ elapsed' <= ExtractionTimeout + RepairTimeout
  BY <1>0, RepairTime
<1>6. ~ParsedAt(1)'
  BY <1>3 DEF ParsedAt, Parses
<1>7. CASE Parses(t) /\ Level[t] # "LOW" /\ Select(t, "repair")
  <2>1. Succeed(t, "repair")
    BY <1>7 DEF Select
  <2>2. "repair" \in Stage
    BY DEF Stage
  <2>3. \A j \in (1..2) \ {2} : ~ParsedAt(j)'
    BY <1>6
  <2>4. SelectedIsBest' /\ RawBelongsToSelection' /\ ParseFailureKeepsText'
    <3>1. Best(2, 2, t, "repair")
      BY <1>4, <1>7, <2>3 DEF Best
    <3> QED BY <2>1, <3>1, SuccessHolds
  <2> QED BY <1>3, <1>4, <1>5, <2>1, <2>2, <2>4, SucceedTypes, OverHolds
<1>8. CASE Parses(t) /\ Level[t] = "LOW" /\ Select(t, "repair")
  <2>1. selected' = t /\ stage' = "repair" /\ pc' = "retry" /\ result' = Null
    BY <1>0, <1>8 DEF Select
  <2>2. TypeOK'
    BY <1>4, <1>5, <2>1 DEF TypeOK, Stage
  <2>3. attempts'[1].stage # "repair"
    BY <1>3
  <2>4. InHand'
    BY <1>2, <1>4, <1>5, <1>6, <1>8, <2>1, <2>3 DEF InHand
  <2>5. attempts'[2].error # "timeout"
    BY <1>4, NullAssumption DEF Exception
  <2> QED BY <1>0, <1>3, <1>4, <2>1, <2>2, <2>4, <2>5, OnwardHolds
          DEF Kept, IInv, Ordered, After
<1>9. CASE ~Parses(t) /\ Fail("LLM_JSON_PARSE_FAIL", FALSE)
  <2>1. SelectedIsBest' /\ RawBelongsToSelection' /\ ParseFailureKeepsText'
    <3>1. \E i \in 1..2 : /\ attempts'[i].raw # Null /\ ~Parses(attempts'[i].raw)
                          /\ \A j \in 1..2 : j > i => attempts'[j].raw = Null
      BY <1>2, <1>4, <1>9
    <3> QED BY <1>4, <1>9, <3>1, FailureHolds
  <2> QED BY <1>0, <1>3, <1>4, <1>5, <1>9, <2>1, FailTypes, OverHolds DEF Code
<1> QED BY <1>1, <1>7, <1>8, <1>9

LEMMA RepairFails ==
    ASSUME IInv, RepairTimesOut \/ RepairRejected PROVE Kept
<1>0. TypeOK /\ pc = "repair"
  BY DEF IInv, RepairTimesOut, RepairRejected
<1>1. PICK error \in Exception :
        Record("repair", Null, error) /\ Fail("LLM_JSON_PARSE_FAIL", FALSE)
  BY DEF RepairTimesOut, RepairRejected, Exception
<1>2. Took("repair") \/ GivenUp("repair")
  BY DEF RepairTimesOut, RepairRejected
<1>3. /\ Grown(2, "repair", Null, error) /\ WithinBudget'
      /\ attempts'[1].raw # Null /\ ~Parses(attempts'[1].raw)
  <2>1. Null \in Text \cup {Null} /\ error \in Exception \cup {Null}
    OBVIOUS
  <2>2. Record("repair", Null, error)
    BY <1>1
  <2> QED BY <1>0, <1>2, <2>1, <2>2, RepairRecorded
<1>4. /\ attempts' \in Seq(Attempt) /\ DOMAIN attempts' = 1..2
      /\ attempts'[2] = [stage |-> "repair", raw |-> Null, error |-> error]
  BY <1>3 DEF Grown
<1>5. elapsed' \in Nat /\ elapsed' <= ExtractionTimeout + RepairTimeout
  BY <1>0, <1>2, RepairTime
<1>6. \E i \in 1..2 : /\ attempts'[i].raw # Null /\ ~Parses(attempts'[i].raw)
                      /\ \A j \in 1..2 : j > i => attempts'[j].raw = Null
  BY <1>3, <1>4
<1>7. SelectedIsBest' /\ RawBelongsToSelection' /\ ParseFailureKeepsText'
  BY <1>1, <1>4, <1>6, FailureHolds
<1> QED BY <1>0, <1>1, <1>3, <1>4, <1>5, <1>7, FailTypes, OverHolds DEF Code

-----------------------------------------------------------------------------
(* The retry.                                                              *)

\* After a retry the run returns what it had, or something better.
LEMMA RetryHolds ==
    ASSUME IInv, pc = "retry", NEW raw \in Text \cup {Null},
           NEW error \in Exception \cup {Null}, Record("retry", raw, error),
           Took("retry") \/ GivenUp("retry"),
           \/ /\ Succeed(selected, stage)
              /\ raw # Null /\ Parses(raw) =>
                    confidence_rank(raw) <= confidence_rank(selected)
           \/ /\ raw # Null /\ Parses(raw) /\ Succeed(raw, "retry")
              /\ confidence_rank(raw) > confidence_rank(selected)
    PROVE  Kept
<1> DEFINE m == Len(attempts)
           n == m + 1
<1>1. /\ TypeOK /\ m \in {1, 2} /\ attempts[m].raw = selected /\ selected # Null
      /\ attempts[m].stage = stage /\ stage # "retry" /\ Level[selected] = "LOW"
      /\ \A i \in DOMAIN attempts \ {m} : attempts[i].stage # stage /\ ~ParsedAt(i)
      /\ elapsed <= ExtractionTimeout + RepairTimeout
  BY DEF IInv, InHand
<1>2. selected \in Text /\ stage \in Stage /\ elapsed \in Nat
  <2>1. attempts[m] \in Attempt
    BY <1>1 DEF TypeOK
  <2> QED BY <1>1, <2>1 DEF Attempt, TypeOK
<1>3. Parses(selected)
  BY <1>1 DEF Parses, Confidence
<1>4. Grown(n, "retry", raw, error)
  BY <1>1, Grows DEF Stage
<1>5. /\ attempts' \in Seq(Attempt) /\ Len(attempts') = n /\ DOMAIN attempts' = 1..n
      /\ n \in Nat \ {0} /\ DOMAIN attempts = 1..m /\ m \in 1..n /\ n \in 1..n
      /\ attempts'[n].stage = "retry" /\ attempts'[n].raw = raw
      /\ \A i \in 1..m : attempts'[i] = attempts[i]
  BY <1>1, <1>4 DEF Grown
<1>6. elapsed' \in Nat /\ elapsed' <= 2 * ExtractionTimeout + RepairTimeout
  <2>1. elapsed' \in Nat /\ elapsed' <= elapsed + Limit("retry")
    BY <1>1, TimePasses DEF Stage
  <2> QED BY <1>1, <1>2, <2>1, TimeoutAssumption DEF Limit
<1>7. Undecided
  BY <1>1 DEF Undecided
<1>8. WithinBudget'
  BY <1>4, <1>6, <1>7, BudgetHolds DEF Grown
<1>9. \A i \in (1..n) \ {m, n} : ~ParsedAt(i)'
  <2> SUFFICES ASSUME NEW i \in (1..n) \ {m, n} PROVE ~ParsedAt(i)'
    OBVIOUS
  <2>1. i \in DOMAIN attempts \ {m} /\ attempts'[i] = attempts[i]
    BY <1>1, <1>5
  <2> QED BY <1>1, <2>1 DEF ParsedAt, Parses
<1>10. attempts'[m].raw = selected /\ attempts'[m].stage = stage
  BY <1>1, <1>5
<1> HIDE DEF m, n
<1>11. m < n /\ m \in Nat /\ n \in Nat
  BY <1>1 DEF m, n
<1>12. CASE /\ Succeed(selected, stage)
            /\ raw # Null /\ Parses(raw) => confidence_rank(raw) <= confidence_rank(selected)
  <2>1. \A j \in 1..n : j > m => attempts'[j].stage # stage
    BY <1>1, <1>5, <1>11 DEF n
  <2>2. ASSUME NEW j \in (1..n) \ {m}, ParsedAt(j)'
        PROVE  \/ confidence_rank(attempts'[j].raw) < confidence_rank(selected)
               \/ confidence_rank(attempts'[j].raw) = confidence_rank(selected) /\ m < j
    <3>1. j = n
      BY <1>9, <2>2
    <3>2. raw # Null /\ Parses(raw) /\ attempts'[j].raw = raw
      BY <1>5, <2>2, <3>1 DEF ParsedAt, Parses
    <3>3. confidence_rank(raw) <= confidence_rank(selected)
      BY <1>12, <3>2
    <3>4. confidence_rank(raw) \in 1..3 /\ confidence_rank(selected) \in 1..3
      BY <1>3, <3>2, RankValues
    <3> QED BY <1>11, <3>1, <3>2, <3>3, <3>4
  <2>3. SelectedIsBest' /\ RawBelongsToSelection' /\ ParseFailureKeepsText'
    <3>1. Best(n, m, selected, stage)
      BY <1>2, <1>3, <1>5, <1>10, <1>11, <2>1, <2>2 DEF Best
    <3> QED BY <1>12, <3>1, SuccessHolds
  <2> QED BY <1>2, <1>5, <1>6, <1>8, <1>12, <2>3, SucceedTypes, OverHolds
<1>13. CASE /\ raw # Null /\ Parses(raw) /\ Succeed(raw, "retry")
            /\ confidence_rank(raw) > confidence_rank(selected)
  <2>1. raw \in Text /\ "retry" \in Stage
    BY <1>13 DEF Stage
  <2>2. ASSUME NEW j \in (1..n) \ {n}, ParsedAt(j)'
        PROVE  confidence_rank(attempts'[j].raw) < confidence_rank(raw)
    <3>1. attempts'[j].raw = selected
      BY <1>9, <1>10, <2>2
    <3>2. confidence_rank(raw) \in 1..3 /\ confidence_rank(selected) \in 1..3
      BY <1>3, <1>13, RankValues
    <3> QED BY <1>13, <3>1, <3>2
  <2>3. \A j \in 1..n : j > n => attempts'[j].stage # "retry"
    BY <1>11
  <2>4. SelectedIsBest' /\ RawBelongsToSelection' /\ ParseFailureKeepsText'
    <3>1. Best(n, n, raw, "retry")
      BY <1>5, <1>11, <1>13, <2>1, <2>2, <2>3 DEF Best
    <3> QED BY <1>13, <3>1, SuccessHolds
  <2> QED BY <1>5, <1>6, <1>8, <1>13, <2>1, <2>4, SucceedTypes, OverHolds
<1> QED BY <1>12, <1>13

LEMMA RetryStep ==
    ASSUME IInv, RetryAnswers \/ RetryTimesOut \/ RetryRejected PROVE Kept
<1>0. pc = "retry" /\ (Took("retry") \/ GivenUp("retry"))
  BY DEF RetryAnswers, RetryTimesOut, RetryRejected
<1>1. CASE RetryAnswers
  <2>1. PICK t \in Text :
          /\ Record("retry", t, Null)
          /\ IF Parses(t) /\ confidence_rank(t) > confidence_rank(selected)
               THEN Succeed(t, "retry")
               ELSE Succeed(selected, stage)
    BY <1>1 DEF RetryAnswers
  <2>2. t # Null
    BY NullAssumption
  <2>3. CASE Parses(t) /\ confidence_rank(t) > confidence_rank(selected)
    BY <1>0, <2>1, <2>2, <2>3, RetryHolds
  <2>4. CASE ~(Parses(t) /\ confidence_rank(t) > confidence_rank(selected))
    <3>1. Level[selected] = "LOW"
      BY <1>0 DEF IInv, InHand
    <3>2. confidence_rank(selected) \in 1..3
      BY <3>1, RankValues DEF Parses, Confidence
    <3>3. Parses(t) => confidence_rank(t) <= confidence_rank(selected)
      BY <2>4, <3>2, RankValues
    <3> QED BY <1>0, <2>1, <2>4, <3>3, RetryHolds
  <2> QED BY <2>3, <2>4
<1>2. CASE RetryTimesOut \/ RetryRejected
  <2>1. PICK error \in Exception : Record("retry", Null, error) /\ Succeed(selected, stage)
    BY <1>2 DEF RetryTimesOut, RetryRejected, Exception
  <2> QED BY <1>0, <2>1, RetryHolds
<1> QED BY <1>1, <1>2

-----------------------------------------------------------------------------
(* The theorems.                                                           *)

\* An exception leaves the attempts as they were and returns nothing.
LEMMA Raised ==
    ASSUME IInv, CallRaises PROVE Kept
<1>1. /\ TypeOK /\ pc \in Stage /\ result' \in Result /\ pc' = "done"
      /\ result'.status = "RAISED" /\ UNCHANGED <<attempts, selected, stage>>
  BY DEF IInv, TypeOK, CallRaises, Result, Code
<1>2. SelectedIsBest' /\ RawBelongsToSelection' /\ ParseFailureKeepsText'
  BY <1>1 DEF SelectedIsBest, RawBelongsToSelection, ParseFailureKeepsText, Succeeded, Failed
<1>3. elapsed' \in Nat /\ elapsed' <= elapsed + Limit(pc)
  BY <1>1, TimePasses DEF CallRaises
<1>4. elapsed' <= 2 * ExtractionTimeout + RepairTimeout
  BY <1>1, <1>3, TimeoutAssumption DEF IInv, InHand, TypeOK, Limit, Stage
<1>5. WithinBudget'
  BY <1>1, <1>4 DEF IInv, WithinBudget, ParsedAt, Parses
<1> QED BY <1>1, <1>2, <1>3, <1>5, OverHolds DEF TypeOK

LEMMA StepKeeps ==
    ASSUME IInv, [Next]_vars PROVE IInv' /\ [Ordered]_vars
<1>1. CASE UNCHANGED vars
  <2> USE <1>1 DEF vars, IInv
  <2>1. TypeOK' /\ InHand'
    BY DEF TypeOK, InHand, ParsedAt, Parses
  <2>2. WithinBudget'
    BY DEF WithinBudget, ParsedAt, Parses
  <2>3. SelectedIsBest'
    BY DEF SelectedIsBest, Succeeded, ParsedAt, Parses
  <2>4. SuccessRaw' = SuccessRaw /\ FailureRaw' = FailureRaw
    BY DEF SuccessRaw, FailureRaw, WithText, LastRaw
  <2>5. RawBelongsToSelection' /\ ParseFailureKeepsText'
    BY <2>4 DEF RawBelongsToSelection, ParseFailureKeepsText, Succeeded, Failed, Parses
  <2> QED BY <2>1, <2>2, <2>3, <2>5
<1>2. CASE TimesOut \/ Ends
  <2>1. Kept
    BY <1>2, FirstAnswer, FirstFails, RepairAnswered, RepairFails, RetryStep, Raised
       DEF TimesOut, Ends
  <2> QED BY <2>1 DEF Kept
<1> QED BY <1>1, <1>2 DEF Next, Returned

\* What a run has in hand, before each call and when it is over.
THEOREM CoreInvariance == Spec => []IInv
<1>1. Init => IInv
  BY NullAssumption, TimeoutAssumption
     DEF Init, IInv, TypeOK, InHand, Stage, SelectedIsBest, RawBelongsToSelection,
         ParseFailureKeepsText, WithinBudget, Succeeded, Failed
<1>2. IInv /\ [Next]_vars => IInv'
  BY StepKeeps
<1> QED BY <1>1, <1>2, PTL DEF Spec

\* Every variable stays in its domain.
THEOREM CoreTypeCorrect == Spec => []TypeOK
<1>1. IInv => TypeOK
  BY DEF IInv
<1> QED BY <1>1, CoreInvariance, PTL

\* The extraction returned is the best the run was given.
THEOREM SelectionCorrect == Spec => []SelectedIsBest
<1>1. IInv => SelectedIsBest
  BY DEF IInv
<1> QED BY <1>1, CoreInvariance, PTL

\* The backward search over the attempts finds the text of that extraction.
THEOREM RawCorrect == Spec => []RawBelongsToSelection
<1>1. IInv => RawBelongsToSelection
  BY DEF IInv
<1> QED BY <1>1, CoreInvariance, PTL

\* A parse failure keeps a text that could not be parsed.
THEOREM ParseFailureCorrect == Spec => []ParseFailureKeepsText
<1>1. IInv => ParseFailureKeepsText
  BY DEF IInv
<1> QED BY <1>1, CoreInvariance, PTL

\* The calls and the time of a run are bounded.
THEOREM BudgetCorrect == Spec => []WithinBudget
<1>1. IInv => WithinBudget
  BY DEF IInv
<1> QED BY <1>1, CoreInvariance, PTL

\* No call is made out of order, twice, or after one that timed out.
THEOREM CallsInOrderCorrect == Spec => CallsInOrder
<1>1. IInv /\ [Next]_vars => [Ordered]_vars
  BY StepKeeps
<1> QED BY <1>1, CoreInvariance, PTL DEF Spec, CallsInOrder, Ordered
=============================================================================
