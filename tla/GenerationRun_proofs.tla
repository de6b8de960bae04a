------------------------ MODULE GenerationRun_proofs ------------------------
(***************************************************************************)
(* Theorems about GenerationRun, for any number of runs, whatever amounts  *)
(* are set aside and however long a stream is silent.                      *)
(***************************************************************************)
EXTENDS GenerationRun, Sums, TLAPS

\* What a run that is over for its user has left to do.
Closing == {"settle", "tail", "fail_settle", "fail_read", "fail_write", "over"}

\* Where the stream of a run in a given state can be, and what it knows of the state.
Phases(r) ==
    /\ run[r] = "completed" => stream[r].step \in Closing
    /\ stream[r].step = "stop" => run[r] = "cancelled"
    /\ stream[r].step = "fail_write" /\ ~stream[r].writes => run[r] = "cancelled"

\* What has been set aside, spent and charged on the way to an answer.
Outlay(r) ==
    /\ stream[r].step \in {"new", "mark", "reserve_query"} =>
            reservation[r] = NoReservation /\ bill[r] = 0 /\ stream[r].spent = 0
    /\ stream[r].step \in {"retrieve", "check", "reserve_answer"} =>
            reservation[r].tokens <= Query /\ stream[r].spent <= Query + Beyond(r)
    /\ stream[r].step = "generate" => stream[r].spent <= Query + Beyond(r) + Answer
    /\ run[r] = "running" /\ stream[r].step \in {"retrieve", "check", "reserve_answer"} =>
            reservation[r].tokens = Query /\ bill[r] = 0
    /\ run[r] = "running" /\ stream[r].step = "generate" =>
            reservation[r].tokens = Query + Answer /\ bill[r] = 0
    /\ run[r] = "running" /\ stream[r].step = "check" => reservation[r].spent = stream[r].spent
    /\ run[r] = "running" /\ stream[r].step = "persist" =>
            /\ bill[r] = 0
            /\ reservation[r].tokens > 0
            /\ reservation[r].tokens + Beyond(r) >= stream[r].spent
            /\ reservation[r].spent = stream[r].spent

\* A completed run is charged and has nothing set aside, or is not charged yet and
\* has a reservation that knows all it must pay, and covers it but for the excess.
Paid(r) ==
    run[r] = "completed" =>
        /\ stream[r].step # "over" => usage[r] = stream[r].spent
        /\ \/ bill[r] = usage[r] /\ reservation[r].tokens = 0
           \/ /\ bill[r] = 0
              /\ reservation[r].tokens > 0
              /\ reservation[r].tokens + Beyond(r) >= usage[r]
              /\ reservation[r].spent = usage[r]

Facts(r) ==
    /\ message[r] = "complete" <=> run[r] = "completed"
    /\ Phases(r)
    /\ Outlay(r)
    /\ Paid(r)

\* The inductive invariant.
IInv == TypeOK /\ \A r \in Runs : Facts(r)

-----------------------------------------------------------------------------
\* The invariant holds initially.
LEMMA InitInv == Init => IInv
  BY AmountsAssumption
     DEF Init, IInv, TypeOK, Facts, Phases, Outlay, Paid, Terminal, Steps, Spends, NoReservation,
         NewStream

Same(q) ==
    /\ run'[q] = run[q]
    /\ message'[q] = message[q]
    /\ usage'[q] = usage[q]
    /\ stream'[q] = stream[q]
    /\ reservation'[q] = reservation[q]
    /\ bill'[q] = bill[q]

\* What is known of a run stays known while nothing of it changes.
LEMMA SameFacts ==
  ASSUME NEW q \in Runs, Facts(q), Same(q)
  PROVE  Facts(q)'
  BY DEF Facts, Phases, Outlay, Paid, Same

Step(r) == Request(r) \/ Work(r) \/ Raise(r) \/ Die(r)

\* A step of one run leaves the others alone.
LEMMA OthersStay ==
  ASSUME TypeOK, NEW r \in Runs, Step(r), NEW q \in Runs, q # r
  PROVE  Same(q)
<1> USE DEF Same, TypeOK, account
<1>1. CASE CreateRun(r)
  BY <1>1 DEF CreateRun
<1>2. CASE CancelRun(r)
  BY <1>2 DEF CancelRun
<1>3. CASE Recover(r)
  BY <1>3 DEF Recover, Known, Billed, Returned, Interrupted, Minus, At
<1>4. CASE Claim(r)
  BY <1>4 DEF Claim, Goes, At
<1>5. CASE MarkGenerating(r)
  BY <1>5 DEF MarkGenerating, Goes, At
<1>6. CASE ReserveTokens(r)
  BY <1>6 DEF ReserveTokens, Reserve, Goes, At
<1>7. CASE Spend(r)
  BY <1>7 DEF Spend, At
<1>8. CASE SaveProgress(r)
  BY <1>8 DEF SaveProgress, Progress, Goes, At
<1>9. CASE CheckCancelled(r)
  BY <1>9 DEF CheckCancelled, Goes, At
<1>10. CASE SeeCancelled(r)
  BY <1>10 DEF SeeCancelled, Goes, At
<1>11. CASE Stop(r)
  BY <1>11 DEF Stop, Goes, At
<1>12. CASE Persist(r)
  BY <1>12 DEF Persist, Holds, Goes, At
<1>13. CASE Settle(r)
  BY <1>13 DEF Settle, Finalize, Billed, Returned, Minus, Goes, Ends, Ended, NewStream, At
<1>14. CASE Finish(r)
  BY <1>14 DEF Finish, Ends, Ended, NewStream, At
<1>15. CASE Raise(r)
  BY <1>15 DEF Raise, Goes, At
<1>16. CASE ReadForFailure(r)
  BY <1>16 DEF ReadForFailure, At
<1>17. CASE MarkFailed(r)
  BY <1>17 DEF MarkFailed, Failed, Ends, Ended, NewStream, At
<1>18. CASE Die(r)
  BY <1>18 DEF Die, Ends, Ended, NewStream, At
<1> QED BY <1>1, <1>2, <1>3, <1>4, <1>5, <1>6, <1>7, <1>8, <1>9, <1>10, <1>11, <1>12, <1>13, <1>14, <1>15, <1>16, <1>17, <1>18 DEF Step, Request, Work

Streams == [step : Steps, held : BOOLEAN, spent : Spends, settled : BOOLEAN, writes : BOOLEAN,
            overtaken : BOOLEAN]

\* An update of one field keeps the type of a stream.
LEMMA Fields ==
  ASSUME NEW x \in Streams
  PROVE  /\ \A s \in Steps : [x EXCEPT !.step = s] \in Streams
         /\ \A n \in Spends : [x EXCEPT !.spent = n] \in Streams
         /\ \A c \in BOOLEAN : /\ [x EXCEPT !.held = c] \in Streams
                              /\ [x EXCEPT !.settled = c] \in Streams
                              /\ [x EXCEPT !.writes = c] \in Streams
                              /\ [x EXCEPT !.overtaken = c] \in Streams
  BY DEF Streams

\* A stream that goes on to another step keeps its type.
LEMMA Gone ==
  ASSUME TypeOK, NEW r, NEW s \in Steps, Goes(r, s)
  PROVE  stream' \in [Runs -> Streams]
<1>1. stream \in [Runs -> Streams]
  BY DEF TypeOK, Streams
<1>2. \A q \in Runs : [stream[q] EXCEPT !.step = s] \in Streams
  BY <1>1, Fields
<1>3. stream' = [q \in Runs |-> IF q = r THEN [stream[q] EXCEPT !.step = s] ELSE stream[q]]
  BY <1>1 DEF Goes
<1> QED BY <1>1, <1>2, <1>3

\* A stream that ends keeps its type, and whether it was overtaken.
LEMMA Closes ==
  ASSUME TypeOK, NEW r \in Runs, Ends(r)
  PROVE  /\ stream' \in [Runs -> Streams]
         /\ stream'[r].overtaken = stream[r].overtaken
<1>1. NewStream \in Streams
  BY AmountsAssumption DEF Streams, NewStream, Spends, Steps
<1>2. Ended(r) \in Streams /\ Ended(r).overtaken = stream[r].overtaken
  <2> DEFINE x1 == [NewStream EXCEPT !.step = "over"]
             x2 == [x1 EXCEPT !.overtaken = stream[r].overtaken]
  <2>1. stream[r].overtaken \in BOOLEAN
    BY DEF TypeOK
  <2>2. x1 \in Streams
    BY <1>1, Fields DEF Steps
  <2>3. x2 \in Streams
    BY <2>1, <2>2, Fields
  <2>4. Ended(r) = x2
    BY DEF Ended
  <2> QED BY <2>2, <2>3, <2>4 DEF Streams
<1> QED BY <1>2 DEF TypeOK, Streams, Ends

\* A stream whose reservation is granted keeps its type.
LEMMA Granted ==
  ASSUME TypeOK, NEW r, NEW s \in Steps, NEW n \in Spends,
         stream' = [stream EXCEPT ![r].step = s, ![r].held = TRUE, ![r].spent = n]
  PROVE  stream' \in [Runs -> Streams]
<1>1. ASSUME NEW q \in Runs PROVE stream'[q] \in Streams
  <2> DEFINE x0 == stream[q]
             x1 == [x0 EXCEPT !.step = s]
             x2 == [x1 EXCEPT !.held = TRUE]
             x3 == [x2 EXCEPT !.spent = n]
  <2>0. x0 \in Streams
    BY DEF TypeOK, Streams
  <2>1. x1 \in Streams
    BY <2>0, Fields
  <2>2. x2 \in Streams
    BY <2>1, Fields
  <2>3. x3 \in Streams
    BY <2>2, Fields
  <2>4. stream'[q] = IF q = r THEN x3 ELSE x0
    BY DEF TypeOK
  <2> QED BY <2>0, <2>3, <2>4
<1>2. stream' = [q \in Runs |-> stream'[q]]
  BY DEF TypeOK
<1> QED BY <1>1, <1>2

\* A stream that has settled keeps its type.
LEMMA Settled ==
  ASSUME TypeOK, NEW r, NEW s \in Steps,
         stream' = [stream EXCEPT ![r].settled = TRUE, ![r].step = s]
  PROVE  stream' \in [Runs -> Streams]
<1>1. ASSUME NEW q \in Runs PROVE stream'[q] \in Streams
  <2> DEFINE x0 == stream[q]
             x1 == [x0 EXCEPT !.settled = TRUE]
             x2 == [x1 EXCEPT !.step = s]
  <2>0. x0 \in Streams
    BY DEF TypeOK, Streams
  <2>1. x1 \in Streams
    BY <2>0, Fields
  <2>2. x2 \in Streams
    BY <2>1, Fields
  <2>3. stream'[q] = IF q = r THEN x2 ELSE x0
    BY DEF TypeOK
  <2> QED BY <2>0, <2>2, <2>3
<1>2. stream' = [q \in Runs |-> stream'[q]]
  BY DEF TypeOK
<1> QED BY <1>1, <1>2

\* A stream that has read its run on the way to a failure keeps its type.
LEMMA Decided ==
  ASSUME TypeOK, NEW r, NEW c \in BOOLEAN,
         stream' = [stream EXCEPT ![r].step = "fail_write", ![r].writes = c]
  PROVE  stream' \in [Runs -> Streams]
<1>1. ASSUME NEW q \in Runs PROVE stream'[q] \in Streams
  <2> DEFINE x0 == stream[q]
             x1 == [x0 EXCEPT !.step = "fail_write"]
             x2 == [x1 EXCEPT !.writes = c]
  <2>0. x0 \in Streams
    BY DEF TypeOK, Streams
  <2>1. x1 \in Streams
    BY <2>0, Fields DEF Steps
  <2>2. x2 \in Streams
    BY <2>1, Fields
  <2>3. stream'[q] = IF q = r THEN x2 ELSE x0
    BY DEF TypeOK
  <2> QED BY <2>0, <2>2, <2>3
<1>2. stream' = [q \in Runs |-> stream'[q]]
  BY DEF TypeOK
<1> QED BY <1>1, <1>2

\* Every step of a run keeps the types.
LEMMA StepTypes ==
  ASSUME TypeOK, NEW r \in Runs, Facts(r), Step(r)
  PROVE  TypeOK'
<1> USE AmountsAssumption DEF TypeOK, account, Terminal, Steps, Spends, NoReservation, Beyond
<1>1. CASE CreateRun(r)
  BY <1>1 DEF CreateRun
<1>2. CASE CancelRun(r)
  BY <1>2 DEF CancelRun
<1>3. CASE Recover(r)
  <2>1. stream' \in [Runs -> Streams]
    <3> DEFINE late == stream[r].overtaken \/ stream[r].step # "over"
               next == [stream[r] EXCEPT !.overtaken = late]
    <3>1. stream' = [stream EXCEPT ![r] = next]
      BY <1>3 DEF Recover
    <3>2. late \in BOOLEAN
      OBVIOUS
    <3>3. stream[r] \in Streams
      BY DEF Streams
    <3>4. next \in Streams
      <4> HIDE DEF late
      <4> QED BY <3>2, <3>3, Fields
    <3> QED BY <3>1, <3>4 DEF Streams
  <2>2. run' \in [Runs -> {"none", "queued", "running"} \cup Terminal]
    BY <1>3 DEF Recover
  <2>3. message' \in [Runs -> {"none", "pending", "generating", "complete", "failed", "cancelled"}]
    BY <1>3 DEF Recover
  <2>4. usage' \in [Runs -> Spends] /\ bill' \in [Runs -> Spends] /\ used' \in Nat
    <3>1. Known(r) \in Spends
      BY DEF Known
    <3>2. usage' \in [Runs -> Spends]
      BY <1>3, <3>1 DEF Recover
    <3>3. CASE Known(r) > 0
      <4>1. Billed(r, Known(r))
        BY <1>3, <3>3 DEF Recover
      <4> QED BY <3>1, <3>2, <4>1 DEF Billed
    <3>4. CASE ~(Known(r) > 0)
      BY <1>3, <3>2, <3>4 DEF Recover
    <3> QED BY <3>3, <3>4
  <2>5. reservation' \in [Runs -> [tokens : Spends, spent : Spends]] /\ reserved' \in Nat
    BY <1>3 DEF Recover, Returned, Minus
  <2> QED BY <1>3, <2>1, <2>2, <2>3, <2>4, <2>5 DEF Recover, Streams
<1>4. CASE Claim(r)
  <2>1. stream' \in [Runs -> Streams]
    BY <1>4, Gone DEF Claim
  <2> QED BY <1>4, <2>1 DEF Claim, Streams
<1>5. CASE MarkGenerating(r)
  <2>1. stream' \in [Runs -> Streams]
    BY <1>5, Gone DEF MarkGenerating
  <2> QED BY <1>5, <2>1 DEF MarkGenerating, Streams
<1>6. CASE ReserveTokens(r)
  <2> DEFINE query == stream[r].step = "reserve_query"
             n == IF query THEN Query ELSE Answer
  <2>1. reservation[r].tokens + n \in Spends
    BY <1>6 DEF ReserveTokens, At, Facts, Outlay
  <2>2. reservation' \in [Runs -> [tokens : Spends, spent : Spends]] /\ reserved' \in Nat
    BY <1>6, <2>1 DEF ReserveTokens, Reserve
  <2>3. stream' \in [Runs -> Streams]
    <3>1. CASE Goes(r, "fail_settle")
      BY <3>1, Gone
    <3>2. CASE ~Goes(r, "fail_settle")
      <4>1. PICK k \in IF query THEN {0} ELSE Generating(r) :
              stream' = [stream EXCEPT ![r].step = IF query THEN "retrieve" ELSE "generate",
                                       ![r].held = TRUE, ![r].spent = k]
        BY <1>6, <3>2 DEF ReserveTokens
      <4>2. k \in Spends
        BY <4>1 DEF Generating, Beyond
      <4> QED BY <4>1, <4>2, Granted
    <3> QED BY <3>1, <3>2
  <2>4. UNCHANGED <<run, message, usage, bill, key, limit, used>>
    BY <1>6 DEF ReserveTokens, Reserve
  <2> HIDE DEF query, n
  <2> QED BY <2>2, <2>3, <2>4 DEF Streams
<1>7. CASE Spend(r)
  BY <1>7 DEF Spend, Generating, At
<1>8. CASE SaveProgress(r)
  <2>1. reservation' \in [Runs -> [tokens : Spends, spent : Spends]]
    BY <1>8 DEF SaveProgress, Progress
  <2>2. stream' \in [Runs -> Streams]
    BY <1>8, Gone DEF SaveProgress, Streams
  <2> QED BY <1>8, <2>1, <2>2 DEF SaveProgress, Streams
<1>9. CASE CheckCancelled(r)
  <2>1. stream' \in [Runs -> Streams]
    BY <1>9, Gone DEF CheckCancelled
  <2> QED BY <1>9, <2>1 DEF CheckCancelled, Streams
<1>10. CASE SeeCancelled(r)
  <2>1. stream' \in [Runs -> Streams]
    BY <1>10, Gone DEF SeeCancelled
  <2> QED BY <1>10, <2>1 DEF SeeCancelled, Streams
<1>11. CASE Stop(r)
  <2>1. stream' \in [Runs -> Streams]
    BY <1>11, Gone DEF Stop
  <2> QED BY <1>11, <2>1 DEF Stop, Streams
<1>12. CASE Persist(r)
  <2>1. stream' \in [Runs -> Streams]
    BY <1>12, Gone DEF Persist
  <2>2. CASE Holds(r)
    <3>0. stream[r].spent \in Spends /\ usage' = [usage EXCEPT ![r] = stream[r].spent]
          /\ run' = [run EXCEPT ![r] = "completed"]
      BY <1>12, <2>2 DEF Persist
    <3>1. usage' \in [Runs -> Spends] /\ run' \in [Runs -> {"none", "queued", "running"} \cup Terminal]
      BY <3>0
    <3>2. message' \in [Runs -> {"none", "pending", "generating", "complete", "failed", "cancelled"}]
      BY <1>12, <2>2 DEF Persist
    <3>3. UNCHANGED account
      BY <1>12 DEF Persist
    <3> QED BY <2>1, <3>1, <3>2, <3>3 DEF Streams
  <2>3. CASE ~Holds(r)
    BY <1>12, <2>1, <2>3 DEF Persist, Streams
  <2> QED BY <2>2, <2>3
<1>13. CASE Settle(r)
  <2>1. stream' \in [Runs -> Streams]
    <3>1. CASE Goes(r, "fail_settle")
      BY <3>1, Gone
    <3>2. CASE Ends(r)
      BY <3>2, Closes
    <3>3. CASE ~Goes(r, "fail_settle") /\ ~Ends(r)
      BY <1>13, <3>3, Settled DEF Settle
    <3> QED BY <3>1, <3>2, <3>3
  <2>2. /\ reservation' \in [Runs -> [tokens : Spends, spent : Spends]]
        /\ bill' \in [Runs -> Spends]
        /\ used' \in Nat /\ reserved' \in Nat /\ limit' = limit /\ key' = key
    <3>1. Finalize(r)
      BY <1>13 DEF Settle
    <3>2. CASE stream[r].settled
      BY <3>1, <3>2 DEF Finalize
    <3>3. CASE ~stream[r].settled
      <4>1. limit' = limit /\ key' = key /\ bill' \in [Runs -> Spends] /\ used' \in Nat
        BY <3>1, <3>3 DEF Finalize, Billed
      <4>2. reservation' \in [Runs -> [tokens : Spends, spent : Spends]] /\ reserved' \in Nat
        <5>1. CASE Returned(r)
          BY <5>1 DEF Returned, Minus
        <5>2. CASE UNCHANGED <<reservation, reserved>>
          BY <5>2
        <5> QED BY <3>1, <3>3, <5>1, <5>2 DEF Finalize
      <4> QED BY <4>1, <4>2
    <3> QED BY <3>2, <3>3
  <2> QED BY <1>13, <2>1, <2>2 DEF Settle, Streams
<1>14. CASE Finish(r)
  <2>1. stream' \in [Runs -> Streams]
    BY <1>14, Closes DEF Finish
  <2> QED BY <1>14, <2>1 DEF Finish, Streams
<1>15. CASE Raise(r)
  <2>1. stream' \in [Runs -> Streams]
    BY <1>15, Gone DEF Raise
  <2> QED BY <1>15, <2>1 DEF Raise, Streams
<1>16. CASE ReadForFailure(r)
  <2>1. (run[r] # "cancelled") \in BOOLEAN
    OBVIOUS
  <2>2. stream' \in [Runs -> Streams]
    <3>1. stream' = [stream EXCEPT ![r].step = "fail_write", ![r].writes = (run[r] # "cancelled")]
      BY <1>16 DEF ReadForFailure
    <3> QED BY <2>1, <3>1, Decided
  <2> QED BY <1>16, <2>2 DEF ReadForFailure, Streams
<1>17. CASE MarkFailed(r)
  <2>1. stream' \in [Runs -> Streams]
    BY <1>17, Closes DEF MarkFailed
  <2> QED BY <1>17, <2>1 DEF MarkFailed, Failed, Streams
<1>18. CASE Die(r)
  <2>1. stream' \in [Runs -> Streams]
    BY <1>18, Closes DEF Die
  <2> QED BY <1>18, <2>1 DEF Die, Streams
<1> QED BY <1>1, <1>2, <1>3, <1>4, <1>5, <1>6, <1>7, <1>8, <1>9, <1>10, <1>11, <1>12, <1>13, <1>14, <1>15, <1>16, <1>17, <1>18 DEF Step, Request, Work

\* What settling does to a run: the first time its row goes and it is charged what it
\* has spent, if it was not charged before; afterwards nothing.
LEMMA SettleStep ==
  ASSUME TypeOK, NEW r \in Runs, Settle(r)
  PROVE  /\ stream[r].step \in {"settle", "fail_settle"}
         /\ UNCHANGED <<run, message, usage>>
         /\ stream'[r].step \in {"tail", "fail_settle", "fail_read", "over"}
         /\ stream'[r].step # "over" => stream'[r].spent = stream[r].spent
         /\ stream'[r].overtaken = stream[r].overtaken
         /\ \/ reservation'[r] = reservation[r] /\ bill'[r] = bill[r]
            \/ /\ reservation'[r] = NoReservation
               /\ bill'[r] = IF bill[r] = 0 THEN stream[r].spent ELSE bill[r]
<1>1. stream[r].step \in {"settle", "fail_settle"} /\ UNCHANGED <<run, message, usage>>
  BY DEF Settle, At
<1>2. /\ stream'[r].step \in {"tail", "fail_settle", "fail_read", "over"}
      /\ stream'[r].step # "over" => stream'[r].spent = stream[r].spent
      /\ stream'[r].overtaken = stream[r].overtaken
  <2>1. CASE Ends(r)
    BY <2>1 DEF Ends, Ended, NewStream, TypeOK
  <2>2. CASE ~Ends(r)
    BY <1>1, <2>2 DEF Settle, Goes, TypeOK
  <2> QED BY <2>1, <2>2
<1>3. CASE stream[r].settled
  BY <1>1, <1>2, <1>3 DEF Settle, Finalize, account
<1>4. CASE ~stream[r].settled
  <2>0. stream[r].spent \in Nat
    BY AmountsAssumption DEF TypeOK, Spends
  <2>1. bill'[r] = IF bill[r] = 0 THEN stream[r].spent ELSE bill[r]
    BY <1>4, <2>0 DEF Settle, Finalize, Billed, TypeOK
  <2>2. reservation'[r] = NoReservation \/ (stream[r].spent = 0 /\ reservation'[r] = reservation[r])
    BY <1>4, <2>0 DEF Settle, Finalize, Returned, TypeOK
  <2> QED BY <1>1, <1>2, <2>1, <2>2
<1> QED BY <1>3, <1>4

LEMMA Enough ==
  ASSUME NEW b \in Nat, NEW s \in Nat, s <= Query + b + Answer
  PROVE  Query + Answer > 0 /\ (Query + Answer) + b >= s
  BY AmountsAssumption

\* Every step of a run keeps what is known of that run.
LEMMA StepFacts ==
  ASSUME TypeOK, NEW r \in Runs, Facts(r), Step(r)
  PROVE  Facts(r)'
<1> USE AmountsAssumption DEF TypeOK, account, Terminal, Steps, Spends, NoReservation,
        Facts, Phases, Outlay, Paid, Closing, Beyond, Generating
<1>1. CASE CreateRun(r)
  BY <1>1 DEF CreateRun
<1>2. CASE CancelRun(r)
  BY <1>2 DEF CancelRun
<1>3. CASE Recover(r)
  BY <1>3 DEF Recover, Known, Billed, Returned, Interrupted, Minus, At
<1>4. CASE Claim(r)
  BY <1>4 DEF Claim, Goes, At
<1>5. CASE MarkGenerating(r)
  BY <1>5 DEF MarkGenerating, Goes, At
<1>6. CASE ReserveTokens(r)
  BY <1>6 DEF ReserveTokens, Reserve, Goes, At
<1>7. CASE Spend(r)
  BY <1>7 DEF Spend, At
<1>8. CASE SaveProgress(r)
  <2>1. /\ UNCHANGED <<run, message, usage, bill>>
        /\ reservation'[r].tokens = reservation[r].tokens
        /\ reservation'[r].spent = IF reservation[r].tokens > 0 THEN stream[r].spent
                                                               ELSE reservation[r].spent
    BY <1>8 DEF SaveProgress, Progress
  <2>2. CASE UNCHANGED stream /\ stream[r].step \in {"retrieve", "generate"}
    BY <2>1, <2>2
  <2>3. CASE Goes(r, "check") /\ stream[r].step = "retrieve"
    BY <2>1, <2>3 DEF Goes
  <2>4. CASE Goes(r, "persist") /\ stream[r].step = "generate"
    <3>1. run[r] # "completed" /\ stream'[r].step = "persist" /\ stream'[r].spent = stream[r].spent
      BY <2>4 DEF Goes
    <3>2. run[r] = "running" => /\ bill'[r] = 0
                                /\ reservation'[r].tokens > 0
                                /\ reservation'[r].tokens + Beyond(r) >= stream[r].spent
                                /\ reservation'[r].spent = stream[r].spent
      <4>1. run[r] = "running" => reservation[r].tokens = Query + Answer /\ bill[r] = 0
        BY <2>4
      <4>2. stream[r].spent <= Query + Beyond(r) + Answer
        BY <2>4
      <4>3. stream[r].spent \in Nat /\ Beyond(r) \in Nat
        OBVIOUS
      <4> HIDE DEF TypeOK, Facts, Phases, Outlay, Paid, Closing, Beyond, Generating, Spends
      <4>4. Query + Answer > 0 /\ (Query + Answer) + Beyond(r) >= stream[r].spent
        BY <4>2, <4>3, Enough
      <4>5. reservation[r].tokens > 0 => reservation'[r].spent = stream[r].spent
        BY <2>1
      <4>6. bill'[r] = bill[r] /\ reservation'[r].tokens = reservation[r].tokens
        BY <2>1
      <4> QED BY <4>1, <4>4, <4>5, <4>6
    <3>3. Outlay(r)'
      BY <2>1, <3>1, <3>2
    <3>4. Phases(r)' /\ Paid(r)' /\ (message'[r] = "complete" <=> run'[r] = "completed")
      BY <2>1, <3>1
    <3> QED BY <3>3, <3>4
  <2> QED BY <1>8, <2>2, <2>3, <2>4 DEF SaveProgress, At
<1>9. CASE CheckCancelled(r)
  BY <1>9 DEF CheckCancelled, Goes, At
<1>10. CASE SeeCancelled(r)
  BY <1>10 DEF SeeCancelled, Goes, At
<1>11. CASE Stop(r)
  BY <1>11 DEF Stop, Goes, At
<1>12. CASE Persist(r)
  BY <1>12 DEF Persist, Holds, Goes, At
<1>13. CASE Settle(r)
  BY <1>13, SettleStep
<1>14. CASE Finish(r)
  BY <1>14 DEF Finish, Ends, Ended, NewStream, At
<1>15. CASE Raise(r)
  BY <1>15 DEF Raise, Goes, At
<1>16. CASE ReadForFailure(r)
  BY <1>16 DEF ReadForFailure, At
<1>17. CASE MarkFailed(r)
  BY <1>17 DEF MarkFailed, Failed, Ends, Ended, NewStream, At
<1>18. CASE Die(r)
  BY <1>18 DEF Die, Ends, Ended, NewStream, At
<1> QED BY <1>1, <1>2, <1>3, <1>4, <1>5, <1>6, <1>7, <1>8, <1>9, <1>10, <1>11, <1>12, <1>13, <1>14, <1>15, <1>16, <1>17, <1>18 DEF Step, Request, Work

\* Every step keeps the invariant.
LEMMA NextInv == IInv /\ [Next]_vars => IInv'
<1> SUFFICES ASSUME IInv, [Next]_vars PROVE IInv'
  OBVIOUS
<1>1. ASSUME NEW r \in Runs, Step(r) PROVE IInv'
  <2>1. TypeOK'
    BY <1>1, StepTypes DEF IInv
  <2>2. ASSUME NEW q \in Runs PROVE Facts(q)'
    <3>1. CASE q = r
      BY <1>1, <3>1, StepFacts DEF IInv
    <3>2. CASE q # r
      <4>1. Same(q)
        BY <1>1, <3>2, OthersStay DEF IInv
      <4> QED BY <4>1, SameFacts DEF IInv
    <3> QED BY <3>1, <3>2
  <2> QED BY <2>1, <2>2 DEF IInv
<1>2. ASSUME NEW n \in 1..MaxLimit, UpdateQuota(n) PROVE IInv'
  <2>1. TypeOK'
    BY <1>2 DEF UpdateQuota, IInv, TypeOK
  <2>2. ASSUME NEW q \in Runs PROVE Facts(q)'
    <3>1. Same(q)
      BY <1>2 DEF UpdateQuota, Same
    <3> QED BY <3>1, SameFacts DEF IInv
  <2> QED BY <2>1, <2>2 DEF IInv
<1>3. ASSUME NEW s \in {"active", "disabled", "revoked", "deleted"}, KeyBecomes(s) PROVE IInv'
  <2>1. TypeOK'
    BY <1>3 DEF KeyBecomes, IInv, TypeOK
  <2>2. ASSUME NEW q \in Runs PROVE Facts(q)'
    <3>1. Same(q)
      BY <1>3 DEF KeyBecomes, Same
    <3> QED BY <3>1, SameFacts DEF IInv
  <2> QED BY <2>1, <2>2 DEF IInv
<1>4. CASE UNCHANGED vars
  <2>1. TypeOK'
    BY <1>4 DEF vars, account, IInv, TypeOK
  <2>2. ASSUME NEW q \in Runs PROVE Facts(q)'
    <3>1. Same(q)
      BY <1>4 DEF vars, account, Same
    <3> QED BY <3>1, SameFacts DEF IInv
  <2> QED BY <2>1, <2>2 DEF IInv
<1> QED BY <1>1, <1>2, <1>3, <1>4 DEF Next, Step, UpdateStatus, RevokeKey, DeleteKey

\* The inductive invariant holds in every reachable state.
LEMMA Invariance == Spec => []IInv
  BY InitInv, NextInv, PTL DEF Spec

\* Every variable keeps its type: nothing is counted below zero or set aside for a run
\* beyond what one retrieval and one generation may take.
THEOREM TypeCorrect == Spec => []TypeOK
<1>1. IInv => TypeOK
  BY DEF IInv
<1> QED BY <1>1, Invariance, PTL

\* A message holds an answer exactly when its run is completed.
THEOREM AnswersAgree == Spec => []AnswerIffCompleted
<1>1. IInv => AnswerIffCompleted
  BY DEF IInv, Facts, AnswerIffCompleted
<1> QED BY <1>1, Invariance, PTL

\* A completed answer is charged in full, or its reservation is there, knows in full
\* what is to be charged, and covers it but for the assistant's further searches.
THEOREM AnswersPaid == Spec => []AnswersArePaidFor
<1>1. IInv => AnswersArePaidFor
  BY DEF IInv, TypeOK, Facts, Paid, AnswersArePaidFor
<1> QED BY <1>1, Invariance, PTL

\* No late answer, failure or recovery overwrites a cancellation.
THEOREM CancellationFinal == Spec => CancelIsFinal
<1>1. ASSUME TypeOK, NEW q \in Runs, run[q] = "cancelled", [Next]_vars PROVE run'[q] = "cancelled"
  <2>1. ASSUME NEW r \in Runs, Step(r) PROVE run'[q] = "cancelled"
    <3>1. CASE q # r
      BY <1>1, <2>1, <3>1, OthersStay DEF Same
    <3>2. CASE q = r
      <4> USE <1>1, <3>2 DEF TypeOK
      <4>1. CASE CreateRun(r) \/ CancelRun(r) \/ Recover(r)
        BY <4>1 DEF CreateRun, CancelRun, Recover
      <4>2. CASE Claim(r) \/ Persist(r) \/ MarkFailed(r)
        BY <4>2 DEF Claim, Persist, Holds, MarkFailed, Failed
      <4>3. CASE UNCHANGED run
        BY <4>3
      <4> QED BY <2>1, <4>1, <4>2, <4>3 DEF Step, Request, Work, MarkGenerating, ReserveTokens, Spend,
            SaveProgress, CheckCancelled, SeeCancelled, Stop, Settle, Finish, Raise, ReadForFailure, Die
    <3> QED BY <3>1, <3>2
  <2>2. CASE UNCHANGED run
    BY <1>1, <2>2
  <2> QED BY <1>1, <2>1, <2>2 DEF Next, Step, UpdateQuota, UpdateStatus, RevokeKey, DeleteKey, KeyBecomes, vars
<1>2. TypeOK /\ [Next]_vars => [\A r \in Runs : run[r] = "cancelled" => run'[r] = "cancelled"]_vars
  BY <1>1
<1> QED BY <1>2, TypeCorrect, PTL DEF Spec, CancelIsFinal

-----------------------------------------------------------------------------
(* The account. *)

\* Steps before a stream writes the usage of its message.
Early == {"new", "mark", "reserve_query", "retrieve", "check", "reserve_answer", "generate",
          "stop", "persist"}

\* What a stream may still charge is set aside, but for the excess of the assistant,
\* unless its reservation was taken for abandoned or it is charged already.
Within(r) == ~stream[r].overtaken =>
    /\ stream[r].step \in Early => usage[r] = 0
    /\ stream[r].step # "over" => usage[r] <= stream[r].spent
    /\ stream[r].step \in {"retrieve", "check", "reserve_answer"} =>
            reservation[r].tokens = Query /\ bill[r] = 0
    /\ stream[r].step = "generate" => reservation[r].tokens = Query + Answer /\ bill[r] = 0
    /\ bill[r] = 0 =>
            /\ usage[r] <= reservation[r].tokens + Beyond(r)
            /\ reservation[r].spent <= reservation[r].tokens + Beyond(r)
            /\ stream[r].step # "over" => stream[r].spent <= reservation[r].tokens + Beyond(r)

LEMMA SameWithin ==
  ASSUME NEW q \in Runs, Within(q), Same(q)
  PROVE  Within(q)'
  BY DEF Within, Same

\* Every step of a run keeps what it may charge within what it has set aside.
LEMMA StepWithin ==
  ASSUME TypeOK, NEW r \in Runs, Facts(r), Within(r), Step(r)
  PROVE  Within(r)'
<1> USE AmountsAssumption DEF TypeOK, account, Spends, NoReservation, Within, Early, Beyond, Generating
<1>0. stream[r].step \in {"new", "mark", "reserve_query"} =>
            reservation[r] = NoReservation /\ bill[r] = 0 /\ stream[r].spent = 0
  BY DEF Facts, Outlay
<1>00. stream[r].step \in {"retrieve", "check", "reserve_answer"} => stream[r].spent <= Query + Beyond(r)
  BY DEF Facts, Outlay
<1>1. CASE CreateRun(r)
  BY <1>1 DEF CreateRun
<1>2. CASE CancelRun(r)
  BY <1>2 DEF CancelRun
<1>3. CASE Recover(r)
  <2>1. CASE stream[r].step # "over"
    <3>1. stream'[r].overtaken
      BY <1>3, <2>1 DEF Recover
    <3> QED BY <3>1
  <2>2. CASE stream[r].step = "over"
    <3>1. /\ reservation'[r] = NoReservation
          /\ stream'[r].step = "over" /\ stream'[r].overtaken = stream[r].overtaken
          /\ usage'[r] = usage[r] \/ usage'[r] = Known(r)
          /\ Known(r) > 0 => Billed(r, Known(r))
      BY <1>3, <2>2 DEF Recover, Returned
    <3>2. Known(r) \in Nat /\ usage[r] <= Known(r)
      BY DEF Known
    <3>3. bill'[r] = 0 => usage'[r] = 0
      <4>1. CASE Known(r) > 0
        BY <3>1, <3>2, <4>1 DEF Billed
      <4>2. CASE ~(Known(r) > 0)
        BY <3>1, <3>2, <4>2
      <4> QED BY <4>1, <4>2
    <3> QED BY <3>1, <3>3
  <2> QED BY <2>1, <2>2
<1>4. CASE Claim(r)
  BY <1>4 DEF Claim, Goes, At
<1>5. CASE MarkGenerating(r)
  BY <1>5 DEF MarkGenerating, Goes, At
<1>6. CASE ReserveTokens(r)
  <2> DEFINE n == IF stream[r].step = "reserve_query" THEN Query ELSE Answer
  <2>1. /\ stream[r].step \in {"reserve_query", "reserve_answer"}
        /\ UNCHANGED <<usage, bill>>
        /\ reservation'[r].tokens = reservation[r].tokens + n
        /\ reservation'[r].spent = reservation[r].spent
    BY <1>6 DEF ReserveTokens, Reserve, At
  <2>2. stream'[r].overtaken = stream[r].overtaken
    BY <1>6 DEF ReserveTokens, Goes
  <2> SUFFICES ASSUME ~stream[r].overtaken PROVE Within(r)'
    BY <2>2
  <2>3. CASE stream[r].step = "reserve_query"
    <3>1. /\ reservation[r].tokens = 0 /\ reservation[r].spent = 0 /\ bill[r] = 0
          /\ stream[r].spent = 0 /\ usage[r] = 0
      BY <1>0, <2>3
    <3>2. /\ stream'[r].spent = 0
          /\ stream'[r].step \in {"retrieve", "fail_settle"}
      BY <1>6, <2>3, <3>1 DEF ReserveTokens, Goes
    <3>3. reservation'[r].tokens = Query /\ reservation'[r].spent = 0
      BY <2>1, <2>3, <3>1
    <3> QED BY <2>1, <3>1, <3>2, <3>3
  <2>4. CASE stream[r].step = "reserve_answer"
    <3>1. /\ reservation[r].tokens = Query /\ bill[r] = 0 /\ usage[r] = 0
          /\ reservation[r].spent <= Query + Beyond(r)
          /\ stream[r].spent <= Query + Beyond(r)
      BY <1>00, <2>4
    <3>2. reservation'[r].tokens = Query + Answer /\ reservation'[r].spent = reservation[r].spent
      BY <2>1, <2>4, <3>1
    <3>3. \/ stream'[r].step = "generate" /\ stream'[r].spent \in Generating(r)
          \/ stream'[r].step = "fail_settle" /\ stream'[r].spent = stream[r].spent
      BY <1>6, <2>4 DEF ReserveTokens, Goes
    <3>4. /\ stream'[r].spent <= Query + Answer + Beyond(r)
          /\ reservation'[r].spent <= Query + Answer + Beyond(r)
      BY <3>1, <3>2, <3>3
    <3> QED BY <2>1, <3>1, <3>2, <3>3, <3>4
  <2> QED BY <2>1, <2>3, <2>4
<1>7. CASE Spend(r)
  BY <1>7 DEF Spend, At
<1>8. CASE SaveProgress(r)
  <2>1. /\ UNCHANGED <<usage, bill>>
        /\ reservation'[r].tokens = reservation[r].tokens
        /\ reservation'[r].spent \in {reservation[r].spent, stream[r].spent}
    BY <1>8 DEF SaveProgress, Progress
  <2>2. CASE UNCHANGED stream
    <3>1. stream'[r] = stream[r] /\ usage'[r] = usage[r] /\ bill'[r] = bill[r]
      BY <2>1, <2>2
    <3>2. CASE reservation'[r].spent = reservation[r].spent
      BY <2>1, <3>1, <3>2
    <3>3. CASE reservation'[r].spent = stream[r].spent /\ stream[r].step # "over"
      BY <2>1, <3>1, <3>3
    <3> QED BY <1>8, <2>1, <3>2, <3>3 DEF SaveProgress, At
  <2>3. CASE Goes(r, "check") /\ stream[r].step = "retrieve"
    BY <2>1, <2>3 DEF Goes
  <2>4. CASE Goes(r, "persist") /\ stream[r].step = "generate"
    BY <2>1, <2>4 DEF Goes
  <2> QED BY <1>8, <2>2, <2>3, <2>4 DEF SaveProgress, At
<1>9. CASE CheckCancelled(r)
  <2>1. stream[r].step = "check" /\ UNCHANGED <<usage, reservation, bill>>
    BY <1>9 DEF CheckCancelled, At
  <2>2. PICK s \in {"settle", "persist", "reserve_answer"} : Goes(r, s)
    BY <1>9 DEF CheckCancelled
  <2>3. /\ stream'[r].step = s
        /\ stream'[r].spent = stream[r].spent
        /\ stream'[r].overtaken = stream[r].overtaken
    BY <2>2 DEF Goes
  <2> QED BY <2>1, <2>3
<1>10. CASE SeeCancelled(r)
  BY <1>10 DEF SeeCancelled, Goes, At
<1>11. CASE Stop(r)
  BY <1>11 DEF Stop, Goes, At
<1>12. CASE Persist(r)
  BY <1>12 DEF Persist, Holds, Goes, At
<1>13. CASE Settle(r)
  BY <1>13, SettleStep
<1>14. CASE Finish(r)
  BY <1>14 DEF Finish, Ends, Ended, NewStream, At
<1>15. CASE Raise(r)
  BY <1>15 DEF Raise, Goes, At
<1>16. CASE ReadForFailure(r)
  BY <1>16 DEF ReadForFailure, At
<1>17. CASE MarkFailed(r)
  BY <1>17 DEF MarkFailed, Failed, Ends, Ended, NewStream, At
<1>18. CASE Die(r)
  BY <1>18 DEF Die, Ends, Ended, NewStream, At
<1> QED BY <1>1, <1>2, <1>3, <1>4, <1>5, <1>6, <1>7, <1>8, <1>9, <1>10, <1>11, <1>12, <1>13, <1>14, <1>15, <1>16, <1>17, <1>18 DEF Step, Request, Work

\* The aggregates of the account follow the rows of the run that makes a step.
Follows(r) ==
    /\ reserved' = (reserved - reservation[r].tokens) + reservation'[r].tokens
    /\ used' = (used - bill[r]) + bill'[r]

\* What a run that is charged may have cost beyond what was set aside for it.
Exceeding == [r \in Runs |-> IF bill[r] > 0 THEN Beyond(r) ELSE 0]

\* A step adds to what is used and set aside only by a reservation that fits, by the
\* excess of a run that is charged, or if the stream has outlived its reservation.
Spares(r) ==
    \/ used' + reserved' + Exceeding[r] <= used + reserved + Exceeding'[r]
    \/ key = "active" /\ used' + reserved' <= limit
    \/ stream'[r].overtaken

\* Charging a run adds its new bill to what is used.
LEMMA Charge ==
  ASSUME TypeOK, NEW r \in Runs, NEW n \in Spends, Billed(r, n)
  PROVE  /\ used' = (used - bill[r]) + bill'[r]
         /\ used' = used + (IF bill[r] = 0 THEN n ELSE 0)
         /\ bill'[r] = IF bill[r] = 0 THEN n ELSE bill[r]
<1>1. bill[r] \in Nat /\ used \in Nat /\ n \in Nat
  BY AmountsAssumption DEF TypeOK, Spends
<1>2. bill'[r] = IF bill[r] = 0 THEN n ELSE bill[r]
  BY DEF TypeOK, Billed
<1> QED BY <1>1, <1>2 DEF Billed

\* Who is charged n when t is given back adds no more than the excess, and only once.
LEMMA Exceeds ==
  ASSUME NEW u \in Nat, NEW v \in Nat, NEW t \in Nat, NEW n \in Nat, NEW b \in Nat, NEW e \in Nat,
         t <= v, b = 0 => n <= t + e
  PROVE  (u + (IF b = 0 THEN n ELSE 0)) + (v - t) + (IF b > 0 THEN e ELSE 0)
            <= u + v + (IF (IF b = 0 THEN n ELSE b) > 0 THEN e ELSE 0)
<1>1. CASE b = 0 /\ n = 0
  BY <1>1
<1>2. CASE b = 0 /\ n > 0
  BY <1>2
<1>3. CASE b > 0
  BY <1>3
<1> QED BY <1>1, <1>2, <1>3

\* Giving a reservation back takes it from what is set aside.
LEMMA GiveBack ==
  ASSUME TypeOK, NEW r \in Runs, reservation[r].tokens <= reserved, Returned(r)
  PROVE  reservation'[r].tokens = 0 /\ reserved' = reserved - reservation[r].tokens
<1>1. reservation[r].tokens \in Nat /\ reserved \in Nat
  BY AmountsAssumption DEF TypeOK, Spends
<1>2. reservation'[r] = NoReservation
  BY DEF TypeOK, Returned
<1> QED BY <1>1, <1>2 DEF Returned, NoReservation, Minus

\* What a step of one run does to the account.
LEMMA AccountStep ==
  ASSUME TypeOK, NEW r \in Runs, Within(r), Step(r), reservation[r].tokens <= reserved
  PROVE  Follows(r) /\ Spares(r) /\ UNCHANGED <<key, limit>>
         /\ (stream[r].overtaken => stream'[r].overtaken)
<1> USE DEF Follows, Spares
<1>0. /\ reserved \in Nat /\ used \in Nat /\ limit \in Nat
      /\ bill[r] \in Nat /\ usage[r] \in Nat
      /\ reservation[r].tokens \in Nat /\ reservation[r].spent \in Nat
      /\ stream[r].spent \in Nat
      /\ Beyond(r) \in Nat
  BY AmountsAssumption DEF TypeOK, Spends, Beyond
<1>e. /\ Exceeding[r] = IF bill[r] > 0 THEN Beyond(r) ELSE 0
      /\ Exceeding'[r] = IF bill'[r] > 0 THEN Beyond(r) ELSE 0
  BY DEF Exceeding
<1>x. Exceeding[r] \in Nat /\ (bill'[r] = bill[r] => Exceeding'[r] = Exceeding[r])
  BY <1>0, <1>e
<1>1. CASE UNCHANGED account /\ stream'[r].overtaken = stream[r].overtaken
  <2>1. used' + reserved' + Exceeding[r] <= used + reserved + Exceeding'[r]
    BY <1>0, <1>1, <1>x DEF account
  <2> QED BY <1>0, <1>1, <2>1 DEF account
<1>2. CASE SaveProgress(r)
  <2>1. reservation'[r].tokens = reservation[r].tokens /\ UNCHANGED <<used, reserved, bill, key, limit>>
    BY <1>2 DEF SaveProgress, Progress, TypeOK
  <2>2. stream'[r].overtaken = stream[r].overtaken
    BY <1>2 DEF SaveProgress, Goes, TypeOK
  <2>3. used' + reserved' + Exceeding[r] <= used + reserved + Exceeding'[r]
    BY <1>0, <1>x, <2>1
  <2> QED BY <1>0, <2>1, <2>2, <2>3
<1>3. CASE ReserveTokens(r)
  <2> DEFINE n == IF stream[r].step = "reserve_query" THEN Query ELSE Answer
  <2>1. Reserve(r, n) /\ n \in Nat
    BY <1>3, AmountsAssumption DEF ReserveTokens
  <2>2. stream'[r].overtaken = stream[r].overtaken
    BY <1>3 DEF ReserveTokens, Goes, TypeOK
  <2>3. reservation'[r].tokens = reservation[r].tokens + n
    BY <2>1 DEF Reserve, TypeOK
  <2>4. key = "active" /\ used + reserved + n <= limit /\ reserved' = reserved + n
        /\ UNCHANGED <<bill, key, limit, used>>
    BY <2>1 DEF Reserve, Usable, Fits
  <2> HIDE DEF n
  <2> QED BY <1>0, <2>1, <2>2, <2>3, <2>4
<1>4. CASE Recover(r)
  <2>1. Known(r) \in Spends /\ Known(r) \in Nat
    BY AmountsAssumption DEF Known, TypeOK, Spends
  <2>2. reservation'[r].tokens = 0 /\ reserved' = reserved - reservation[r].tokens
    BY <1>4, GiveBack DEF Recover
  <2>3. /\ used' = (used - bill[r]) + bill'[r]
        /\ used' = used + (IF bill[r] = 0 THEN Known(r) ELSE 0)
        /\ bill'[r] = IF bill[r] = 0 THEN Known(r) ELSE bill[r]
    <3>1. CASE Known(r) > 0
      BY <1>4, <2>1, <3>1, Charge DEF Recover
    <3>2. CASE Known(r) = 0
      BY <1>0, <1>4, <3>2 DEF Recover
    <3> QED BY <2>1, <3>1, <3>2
  <2>4. UNCHANGED <<key, limit>> /\ (stream[r].overtaken => stream'[r].overtaken)
    BY <1>4 DEF Recover, TypeOK
  <2>5. ~stream[r].overtaken /\ bill[r] = 0 => Known(r) <= reservation[r].tokens + Beyond(r)
    BY DEF Within, Known
  <2>6. CASE stream[r].overtaken
    BY <1>0, <2>1, <2>2, <2>3, <2>4, <2>6
  <2>7. CASE ~stream[r].overtaken
    <3>1. used' + reserved' + Exceeding[r] <= used + reserved + Exceeding'[r]
      BY <1>0, <1>e, <2>1, <2>2, <2>3, <2>5, <2>7, Exceeds
    <3> QED BY <1>0, <2>2, <2>3, <2>4, <3>1
  <2> QED BY <2>6, <2>7
<1>5. CASE Settle(r)
  <2>1. stream'[r].overtaken = stream[r].overtaken /\ stream[r].step # "over"
    BY <1>5, SettleStep
  <2>2. CASE stream[r].settled
    BY <1>1, <1>5, <2>1, <2>2 DEF Settle, Finalize
  <2>3. CASE ~stream[r].settled /\ stream[r].spent > 0
    <3>1. Billed(r, stream[r].spent) /\ Returned(r) /\ UNCHANGED <<key, limit>>
      BY <1>5, <2>3 DEF Settle, Finalize
    <3>2. stream[r].spent \in Spends
      BY DEF TypeOK
    <3>3. /\ used' = (used - bill[r]) + bill'[r]
          /\ used' = used + (IF bill[r] = 0 THEN stream[r].spent ELSE 0)
          /\ bill'[r] = IF bill[r] = 0 THEN stream[r].spent ELSE bill[r]
      BY <3>1, <3>2, Charge
    <3>4. reservation'[r].tokens = 0 /\ reserved' = reserved - reservation[r].tokens
      BY <3>1, GiveBack
    <3>5. ~stream[r].overtaken /\ bill[r] = 0 => stream[r].spent <= reservation[r].tokens + Beyond(r)
      BY <2>1 DEF Within
    <3>6. CASE stream[r].overtaken
      BY <1>0, <2>1, <3>1, <3>3, <3>4, <3>6
    <3>7. CASE ~stream[r].overtaken
      <4>1. used' + reserved' + Exceeding[r] <= used + reserved + Exceeding'[r]
        BY <1>0, <1>e, <3>3, <3>4, <3>5, <3>7, Exceeds
      <4> QED BY <1>0, <2>1, <3>1, <3>3, <3>4, <4>1
    <3> QED BY <3>6, <3>7
  <2>4. CASE ~stream[r].settled /\ stream[r].spent = 0
    <3>1. UNCHANGED <<key, limit, bill, used>> /\ (Returned(r) \/ UNCHANGED <<reservation, reserved>>)
      BY <1>5, <2>4 DEF Settle, Finalize
    <3>2. \/ reservation'[r].tokens = reservation[r].tokens /\ reserved' = reserved
          \/ reservation'[r].tokens = 0 /\ reserved' = reserved - reservation[r].tokens
      BY <3>1, GiveBack
    <3>3. reserved' \in Nat /\ reserved' <= reserved
      BY <1>0, <3>2
    <3>4. used' + reserved' + Exceeding[r] <= used + reserved + Exceeding'[r]
      BY <1>0, <1>x, <3>1, <3>3
    <3> QED BY <1>0, <2>1, <3>1, <3>2, <3>4
  <2> QED BY <1>0, <2>2, <2>3, <2>4
<1>6. CASE CreateRun(r) \/ CancelRun(r)
  BY <1>1, <1>6 DEF CreateRun, CancelRun
<1>7. ASSUME UNCHANGED account, NEW s, Goes(r, s) PROVE UNCHANGED account /\ stream'[r].overtaken = stream[r].overtaken
  BY <1>7 DEF Goes, TypeOK
<1>8. CASE Claim(r) \/ MarkGenerating(r) \/ SeeCancelled(r) \/ Stop(r) \/ Persist(r)
  BY <1>1, <1>7, <1>8 DEF Claim, MarkGenerating, SeeCancelled, Stop, Persist
<1>9. CASE CheckCancelled(r) \/ Raise(r)
  BY <1>1, <1>7, <1>9 DEF CheckCancelled, Raise
<1>11. CASE Finish(r) \/ MarkFailed(r) \/ Die(r)
  BY <1>1, <1>11, Closes DEF Finish, MarkFailed, Die
<1>10. CASE Spend(r) \/ ReadForFailure(r)
  BY <1>1, <1>10 DEF Spend, ReadForFailure, TypeOK
<1> QED BY <1>2, <1>3, <1>4, <1>5, <1>6, <1>8, <1>9, <1>10, <1>11 DEF Step, Request, Work

Tokens == [r \in Runs |-> reservation[r].tokens]

\* The inductive invariant of the account.
Balanced == IInv /\ AccountBalances /\ \A r \in Runs : Within(r)

LEMMA InitBalanced == Init => Balanced
<1> SUFFICES ASSUME Init PROVE Balanced
  OBVIOUS
<1>1. IInv
  BY InitInv
<1>2. \A r \in Runs : Within(r)
  BY AmountsAssumption DEF Init, Within, NewStream, NoReservation, Beyond
<1>3. [r \in Runs |-> reservation[r].tokens] = [r \in Runs |-> 0] /\ bill = [r \in Runs |-> 0]
  BY DEF Init, NoReservation
<1>4. AccountBalances
  BY <1>3, RunsAssumption, SumOfNothing DEF AccountBalances, Init
<1> QED BY <1>1, <1>2, <1>4 DEF Balanced

\* What is set aside for one run is part of what is set aside; the sums follow the
\* run that makes a step.
LEMMA SumStep ==
  ASSUME TypeOK, TypeOK', AccountBalances, NEW r \in Runs, Step(r)
  PROVE  /\ reservation[r].tokens <= reserved
         /\ Follows(r) => AccountBalances'
         /\ Exceeding[r] \in Nat /\ Exceeding'[r] \in Nat /\ Exceeding[r] <= Overdraft
         /\ Overdraft \in Nat /\ Overdraft' = (Overdraft - Exceeding[r]) + Exceeding'[r]
<1>1. Tokens \in [Runs -> Nat] /\ bill \in [Runs -> Nat]
  BY AmountsAssumption DEF TypeOK, Spends, Tokens
<1>2. Tokens' \in [Runs -> Nat] /\ bill' \in [Runs -> Nat]
  BY AmountsAssumption DEF TypeOK, Spends, Tokens
<1>3. \A q \in Runs \ {r} : Tokens[q] = Tokens'[q] /\ bill[q] = bill'[q]
  BY OthersStay DEF Same, Tokens
<1>4. Tokens[r] = reservation[r].tokens /\ Tokens'[r] = reservation'[r].tokens
  BY DEF Tokens
<1>5. reserved = SumFunction(Tokens) /\ used = SumFunction(bill)
  BY DEF AccountBalances, Tokens
<1>6. /\ Tokens[r] <= SumFunction(Tokens)
      /\ SumFunction(Tokens') = (SumFunction(Tokens) - Tokens[r]) + Tokens'[r]
  BY <1>1, <1>2, <1>3, RunsAssumption, SumFollows
<1>7. SumFunction(bill') = (SumFunction(bill) - bill[r]) + bill'[r]
  BY <1>1, <1>2, <1>3, RunsAssumption, SumFollows
<1>8. ASSUME Follows(r) PROVE AccountBalances'
  <2>1. reserved' = SumFunction(Tokens') /\ used' = SumFunction(bill')
    BY <1>4, <1>5, <1>6, <1>7, <1>8 DEF Follows
  <2> QED BY <2>1 DEF AccountBalances, Tokens
<1>9. /\ Exceeding[r] \in Nat /\ Exceeding'[r] \in Nat /\ Exceeding[r] <= Overdraft
      /\ Overdraft \in Nat /\ Overdraft' = (Overdraft - Exceeding[r]) + Exceeding'[r]
  <2>1. Exceeding \in [Runs -> Nat] /\ Exceeding' \in [Runs -> Nat]
    BY AmountsAssumption DEF Exceeding, Beyond
  <2>2. \A q \in Runs \ {r} : Exceeding[q] = Exceeding'[q]
    BY <1>3 DEF Exceeding, Beyond
  <2>3. Overdraft = SumFunction(Exceeding) /\ Overdraft' = SumFunction(Exceeding')
    BY DEF Overdraft, Exceeding
  <2> QED BY <2>1, <2>2, <2>3, RunsAssumption, SumFollows
<1> QED BY <1>4, <1>5, <1>6, <1>8, <1>9

\* What a step of a run spares, in terms of what all runs have used.
SparesInAll(r) ==
    \/ used' + reserved' + Overdraft <= used + reserved + Overdraft'
    \/ key = "active" /\ used' + reserved' <= limit
    \/ stream'[r].overtaken

\* A step of a run keeps the account balanced, and spends only as it may.
LEMMA BalanceStep ==
  ASSUME Balanced, NEW r \in Runs, Step(r)
  PROVE  /\ Balanced'
         /\ SparesInAll(r) /\ UNCHANGED <<key, limit>>
         /\ \A q \in Runs : stream[q].overtaken => stream'[q].overtaken
<1>1. TypeOK /\ AccountBalances /\ Within(r) /\ Facts(r)
  BY DEF Balanced, IInv
<1>2. IInv'
  BY NextInv DEF Balanced, Next, Step
<1>3. reservation[r].tokens <= reserved /\ (Follows(r) => AccountBalances')
  BY <1>1, <1>2, SumStep DEF IInv
<1>4. Follows(r) /\ Spares(r) /\ UNCHANGED <<key, limit>> /\ (stream[r].overtaken => stream'[r].overtaken)
  BY <1>1, <1>3, AccountStep
<1>5. ASSUME NEW q \in Runs PROVE Within(q)' /\ (stream[q].overtaken => stream'[q].overtaken)
  <2>1. CASE q = r
    BY <1>1, <1>4, <2>1, StepWithin
  <2>2. CASE q # r
    <3>1. Same(q)
      BY <1>1, <2>2, OthersStay
    <3>2. Within(q)
      BY DEF Balanced
    <3>3. Within(q)'
      BY <3>1, <3>2, SameWithin
    <3> QED BY <3>1, <3>3 DEF Same
  <2> QED BY <2>1, <2>2
<1>6. SparesInAll(r)
  <2>1. used \in Nat /\ reserved \in Nat /\ used' \in Nat /\ reserved' \in Nat
    BY <1>1, <1>2 DEF IInv, TypeOK
  <2>2. /\ Exceeding[r] \in Nat /\ Exceeding'[r] \in Nat /\ Exceeding[r] <= Overdraft
        /\ Overdraft \in Nat /\ Overdraft' = (Overdraft - Exceeding[r]) + Exceeding'[r]
    BY <1>1, <1>2, SumStep DEF IInv
  <2>3. CASE used' + reserved' + Exceeding[r] <= used + reserved + Exceeding'[r]
    <3>1. used' + reserved' + Overdraft <= used + reserved + Overdraft'
      BY <2>1, <2>2, <2>3
    <3> QED BY <3>1 DEF SparesInAll
  <2> QED BY <1>4, <2>3 DEF Spares, SparesInAll
<1> QED BY <1>2, <1>3, <1>4, <1>5, <1>6 DEF Balanced

\* The steps that are not of a run leave the rows and the aggregates alone.
Administers ==
    \/ \E n \in 1..MaxLimit : UpdateQuota(n)
    \/ \E s \in {"active", "disabled"} : UpdateStatus(s)
    \/ RevokeKey \/ DeleteKey
    \/ UNCHANGED vars

LEMMA Split == [Next]_vars => Administers \/ \E r \in Runs : Step(r)
  BY DEF Next, Administers, Step

LEMMA AdministersStep ==
  ASSUME Administers
  PROVE  UNCHANGED <<run, message, usage, stream, reservation, bill, used, reserved>>
  BY DEF Administers, UpdateQuota, UpdateStatus, RevokeKey, DeleteKey, KeyBecomes, vars, account

LEMMA NextBalanced == Balanced /\ [Next]_vars => Balanced'
<1> SUFFICES ASSUME Balanced, [Next]_vars PROVE Balanced'
  OBVIOUS
<1>1. ASSUME NEW r \in Runs, Step(r) PROVE Balanced'
  BY <1>1, BalanceStep
<1>2. CASE Administers
  <2>1. IInv'
    BY NextInv DEF Balanced
  <2>2. UNCHANGED <<run, message, usage, stream, reservation, bill, used, reserved>>
    BY <1>2, AdministersStep
  <2>3. AccountBalances'
    BY <2>2 DEF Balanced, AccountBalances
  <2>4. ASSUME NEW q \in Runs PROVE Within(q)'
    BY <2>2, SameWithin DEF Balanced, Same
  <2> QED BY <2>1, <2>3, <2>4 DEF Balanced
<1> QED BY <1>1, <1>2, Split

LEMMA BalancedAlways == Spec => []Balanced
  BY InitBalanced, NextBalanced, PTL DEF Spec

\* The aggregates of the key are the sums of its rows, for any number of runs: nothing
\* is charged or given back twice.
THEOREM AccountIsBalanced == Spec => []AccountBalances
<1>1. Balanced => AccountBalances
  BY DEF Balanced
<1> QED BY <1>1, BalancedAlways, PTL

LEMMA Together ==
  ASSUME NEW a \in Nat, NEW b \in Nat
  PROVE  a + b \in Nat
  OBVIOUS

LEMMA Stays ==
  ASSUME NEW x \in Nat, NEW y \in Nat, NEW l \in Nat, NEW d \in Nat, NEW e \in Nat,
         x <= l + d, y + d <= x + e \/ y <= l
  PROVE  y <= l + e
  OBVIOUS

LEMMA Differs ==
  ASSUME NEW u \in Nat, NEW v \in Nat, NEW a \in Nat, NEW b \in Nat, NEW d \in Nat, NEW e \in Nat,
         u + v + d <= a + b + e
  PROVE  u + v <= a + b + (e - d)
  OBVIOUS

LEMMA Allows ==
  ASSUME NEW u \in Nat, NEW v \in Nat, NEW l \in Nat, NEW d \in Nat, l >= u + v
  PROVE  u + v <= l + d
  OBVIOUS

\* What the assistant may overdraw is a number, and no one but a run changes it.
LEMMA OverdraftType == Overdraft \in Nat
<1>1. CASE Runs # {}
  <2>1. Exceeding \in [Runs -> Nat]
    BY AmountsAssumption DEF Exceeding, Beyond
  <2>2. PICK r \in Runs : TRUE
    BY <1>1
  <2>3. SumFunction(Exceeding) \in Nat
    BY <2>1, <2>2, RunsAssumption, SumFollows
  <2> QED BY <2>3 DEF Overdraft, Exceeding
<1>2. CASE Runs = {}
  <2>1. [r \in Runs |-> IF bill[r] > 0 THEN Beyond(r) ELSE 0] = [r \in Runs |-> 0]
    BY <1>2
  <2> QED BY <2>1, RunsAssumption, SumOfNothing DEF Overdraft
<1> QED BY <1>1, <1>2

LEMMA SameOverdraft ==
  ASSUME UNCHANGED bill
  PROVE  Overdraft' = Overdraft
  BY DEF Overdraft, Beyond

LEMMA NoOverdraft ==
  ASSUME Init
  PROVE  Overdraft = 0
<1>1. [r \in Runs |-> IF bill[r] > 0 THEN Beyond(r) ELSE 0] = [r \in Runs |-> 0]
  BY DEF Init
<1> QED BY <1>1, RunsAssumption, SumOfNothing DEF Overdraft

\* Unless a stream has outlived its reservation, the key stays within its limit, but
\* for the further searches of the assistant.
THEOREM QuotaIsRespected == Spec => []QuotaRespected
<1>1. Init => QuotaRespected
  BY NoOverdraft, AmountsAssumption DEF Init, QuotaRespected
<1>2. Balanced /\ QuotaRespected /\ [Next]_vars => QuotaRespected'
  <2> SUFFICES ASSUME Balanced, QuotaRespected, [Next]_vars, \A r \in Runs : ~stream'[r].overtaken
               PROVE  used' + reserved' <= limit' + Overdraft'
    BY DEF QuotaRespected
  <2>0. /\ used \in Nat /\ reserved \in Nat /\ limit \in Nat
        /\ used' \in Nat /\ reserved' \in Nat /\ limit' \in Nat
    BY NextBalanced, AmountsAssumption DEF Balanced, IInv, TypeOK
  <2>1. ASSUME NEW r \in Runs, Step(r) PROVE used' + reserved' <= limit' + Overdraft'
    <3>1. /\ SparesInAll(r) /\ limit' = limit
          /\ \A q \in Runs : stream[q].overtaken => stream'[q].overtaken
      BY <2>1, BalanceStep
    <3>2. used + reserved <= limit + Overdraft
      BY <3>1 DEF QuotaRespected
    <3>3. used' + reserved' + Overdraft <= used + reserved + Overdraft' \/ used' + reserved' <= limit
      BY <3>1 DEF SparesInAll
    <3>4. Overdraft \in Nat /\ Overdraft' \in Nat
      <4>1. TypeOK /\ TypeOK' /\ AccountBalances
        BY NextBalanced DEF Balanced, IInv
      <4>2. /\ Exceeding[r] \in Nat /\ Exceeding'[r] \in Nat /\ Exceeding[r] <= Overdraft
            /\ Overdraft \in Nat /\ Overdraft' = (Overdraft - Exceeding[r]) + Exceeding'[r]
        BY <2>1, <4>1, SumStep
      <4> QED BY <4>2
    <3>5. limit' = limit
      BY <3>1
    <3>6. used' + reserved' <= limit + Overdraft'
      <4> DEFINE x == used + reserved
                 y == used' + reserved'
      <4>1. x \in Nat /\ y \in Nat
        BY <2>0, Together
      <4>2. x <= limit + Overdraft /\ (y + Overdraft <= x + Overdraft' \/ y <= limit)
        BY <3>2, <3>3
      <4> HIDE DEF x, y
      <4>3. y <= limit + Overdraft'
        BY <2>0, <3>4, <4>1, <4>2, Stays
      <4> QED BY <4>3 DEF y
    <3> QED BY <3>5, <3>6
  <2>2. CASE Administers
    <3>1. UNCHANGED <<stream, used, reserved>> /\ Overdraft' = Overdraft
      BY <2>2, AdministersStep, SameOverdraft
    <3>2. used + reserved <= limit + Overdraft
      BY <3>1 DEF QuotaRespected
    <3>3. limit' = limit \/ limit' >= used + reserved
      BY <2>2 DEF Administers, UpdateQuota, UpdateStatus, RevokeKey, DeleteKey, KeyBecomes, vars, account
    <3>4. CASE limit' = limit
      <4>1. used' = used /\ reserved' = reserved /\ Overdraft' = Overdraft
        BY <3>1
      <4> QED BY <3>2, <3>4, <4>1
    <3>5. CASE limit' >= used + reserved
      <4>1. Overdraft \in Nat
        BY OverdraftType
      <4>2. used' = used /\ reserved' = reserved /\ Overdraft' = Overdraft
        BY <3>1
      <4>3. used + reserved <= limit' + Overdraft
        BY <2>0, <3>5, <4>1, Allows
      <4> QED BY <4>2, <4>3
    <3> QED BY <3>3, <3>4, <3>5
  <2> QED BY <2>1, <2>2, Split
<1> QED BY <1>1, <1>2, BalancedAlways, PTL DEF Spec

\* A key that is no longer active commits itself to nothing more, unless a stream has
\* outlived its reservation, but for the further searches of the assistant's runs that
\* are charged then.
THEOREM KeyStops == Spec => KeyStopsSpending
<1>1. Balanced /\ [Next]_vars =>
        [key # "active" /\ (\A r \in Runs : ~stream'[r].overtaken)
            => used' + reserved' <= used + reserved + (Overdraft' - Overdraft)]_vars
  <2> SUFFICES ASSUME Balanced, [Next]_vars, key # "active", \A r \in Runs : ~stream'[r].overtaken
               PROVE  used' + reserved' <= used + reserved + (Overdraft' - Overdraft) \/ UNCHANGED vars
    OBVIOUS
  <2>0. /\ used \in Nat /\ reserved \in Nat /\ used' \in Nat /\ reserved' \in Nat
    BY NextBalanced DEF Balanced, IInv, TypeOK
  <2>1. ASSUME NEW r \in Runs, Step(r) PROVE used' + reserved' <= used + reserved + (Overdraft' - Overdraft)
    <3>1. used' + reserved' + Overdraft <= used + reserved + Overdraft'
      BY <2>1, BalanceStep DEF SparesInAll
    <3>2. Overdraft \in Nat /\ Overdraft' \in Nat
      <4>1. TypeOK /\ TypeOK' /\ AccountBalances
        BY NextBalanced DEF Balanced, IInv
      <4>2. /\ Exceeding[r] \in Nat /\ Exceeding'[r] \in Nat /\ Exceeding[r] <= Overdraft
            /\ Overdraft \in Nat /\ Overdraft' = (Overdraft - Exceeding[r]) + Exceeding'[r]
        BY <2>1, <4>1, SumStep
      <4> QED BY <4>2
    <3> QED BY <2>0, <3>1, <3>2, Differs
  <2>2. CASE Administers
    <3>1. used' = used /\ reserved' = reserved /\ Overdraft' = Overdraft
      BY <2>2, AdministersStep, SameOverdraft
    <3>2. Overdraft \in Nat
      BY OverdraftType
    <3> QED BY <2>0, <3>1, <3>2
  <2> QED BY <2>1, <2>2, Split
<1> QED BY <1>1, BalancedAlways, PTL DEF Spec, KeyStopsSpending

-----------------------------------------------------------------------------
(* The books that the owner of the key sees. *)

\* A stream is of a run that was claimed, and lives past a failure only if its
\* reservation was taken for abandoned.
Begun(r) ==
    /\ stream[r].step # "new" => run[r] \notin {"none", "queued"}
    /\ run[r] = "failed" /\ ~stream[r].overtaken => stream[r].step = "over"

LEMMA SameBegun ==
  ASSUME NEW q \in Runs, Begun(q), Same(q)
  PROVE  Begun(q)'
  BY DEF Begun, Same

LEMMA StepBegun ==
  ASSUME TypeOK, NEW r \in Runs, Begun(r), Step(r)
  PROVE  Begun(r)'
<1> USE DEF Begun, TypeOK, Terminal, Steps
<1>1. CASE CreateRun(r)
  BY <1>1 DEF CreateRun
<1>2. CASE CancelRun(r)
  BY <1>2 DEF CancelRun
<1>3. CASE Recover(r)
  BY <1>3 DEF Recover, At
<1>4. CASE Claim(r)
  BY <1>4 DEF Claim, Goes, At
<1>5. CASE MarkGenerating(r)
  BY <1>5 DEF MarkGenerating, Goes, At
<1>6. CASE ReserveTokens(r)
  <2>1. /\ stream[r].step \in {"reserve_query", "reserve_answer"}
        /\ run'[r] = run[r]
    BY <1>6 DEF ReserveTokens, At
  <2>2. stream'[r].overtaken = stream[r].overtaken
    BY <1>6 DEF ReserveTokens, Goes
  <2>3. run[r] \notin {"none", "queued"} /\ (run[r] = "failed" => stream[r].overtaken)
    BY <2>1
  <2> QED BY <2>1, <2>2, <2>3
<1>7. CASE Spend(r)
  BY <1>7 DEF Spend, At
<1>8. CASE SaveProgress(r)
  BY <1>8 DEF SaveProgress, Goes, At
<1>9. CASE CheckCancelled(r)
  BY <1>9 DEF CheckCancelled, Goes, At
<1>10. CASE SeeCancelled(r)
  BY <1>10 DEF SeeCancelled, Goes, At
<1>11. CASE Stop(r)
  BY <1>11 DEF Stop, Goes, At
<1>12. CASE Persist(r)
  BY <1>12 DEF Persist, Goes, At
<1>13. CASE Settle(r)
  BY <1>13, SettleStep
<1>14. CASE Finish(r)
  BY <1>14 DEF Finish, Ends, Ended, NewStream, At
<1>15. CASE Raise(r)
  BY <1>15 DEF Raise, Goes, At
<1>16. CASE ReadForFailure(r)
  BY <1>16 DEF ReadForFailure, At
<1>17. CASE MarkFailed(r)
  BY <1>17 DEF MarkFailed, Failed, Ends, Ended, NewStream, At
<1>18. CASE Die(r)
  BY <1>18 DEF Die, Ends, Ended, NewStream, At
<1> QED BY <1>1, <1>2, <1>3, <1>4, <1>5, <1>6, <1>7, <1>8, <1>9, <1>10, <1>11, <1>12, <1>13, <1>14, <1>15, <1>16, <1>17, <1>18 DEF Step, Request, Work

AllBegun == \A r \in Runs : Begun(r)

LEMMA NextBegun == TypeOK /\ AllBegun /\ [Next]_vars => AllBegun'
<1> SUFFICES ASSUME TypeOK, AllBegun, [Next]_vars, NEW q \in Runs PROVE Begun(q)'
  BY DEF AllBegun
<1>1. Begun(q)
  BY DEF AllBegun
<1>2. ASSUME NEW r \in Runs, Step(r), q # r PROVE Begun(q)'
  BY <1>1, <1>2, OthersStay, SameBegun
<1>3. ASSUME Step(q) PROVE Begun(q)'
  BY <1>1, <1>3, StepBegun
<1>4. CASE Administers
  BY <1>1, <1>4, AdministersStep, SameBegun DEF Same
<1> QED BY <1>2, <1>3, <1>4, Split

\* What a step of a run means to the owner of its key.
Kept(r) == Fate(r)' = Fate(r) /\ Price(r)' = Price(r)
Quiet(r) ==
    /\ reservation'[r].tokens = reservation[r].tokens
    /\ bill'[r] = bill[r]
    /\ stream'[r].overtaken = stream[r].overtaken

Asks(r) ==
    /\ Fate(r) = "none" /\ Fate(r)' = "open" /\ Price(r)' = Price(r)
    /\ Cardinality({q \in Runs : run[q] \in {"queued", "running"}}) < MaxActive
    /\ Quiet(r)
Cancels(r) == Fate(r) = "open" /\ Fate(r)' = "cancelled" /\ Price(r)' = Price(r) /\ Quiet(r)
Answers(r) ==
    /\ Fate(r) = "open" /\ Fate(r)' = "answered"
    /\ bill[r] = 0
    /\ Price(r)' \in Spends /\ Price(r)' <= reservation[r].tokens + Beyond(r)
    /\ Price(r)' > 0 => reservation[r].tokens > 0
    /\ Quiet(r)
Fails(r) == Fate(r) \in {"open", "answered"} /\ Fate(r)' = "failed" /\ Price(r)' = 0 /\ Quiet(r)
Promises(r, n) ==
    /\ key = "active"
    /\ Fate(r) \in {"open", "cancelled"} \/ (Fate(r) = "failed" /\ stream[r].overtaken)
    /\ n > 0
    /\ reservation'[r].tokens = reservation[r].tokens + n
    /\ bill'[r] = bill[r] /\ stream'[r].overtaken = stream[r].overtaken
    /\ used' + reserved' <= limit
    /\ Kept(r)
Settles(r, n) ==
    /\ n > 0 => bill[r] = 0
    /\ stream'[r].overtaken = stream[r].overtaken \/ stream'[r].overtaken
    /\ n <= reservation[r].tokens + Beyond(r) \/ stream'[r].overtaken
    /\ Fate(r) = "answered" => bill[r] + n = Price(r)
    /\ Fate(r)' = Fate(r) \/ (Fate(r) = "open" /\ Fate(r)' = "failed")
    /\ reservation'[r].tokens = 0 /\ bill'[r] = bill[r] + n
    /\ Price(r)' = Price(r)

Entry(r) ==
    \/ Kept(r) /\ Quiet(r)
    \/ Asks(r) \/ Cancels(r) \/ Answers(r) \/ Fails(r)
    \/ \E n \in Spends : Promises(r, n) \/ Settles(r, n)

\* Reserving promises an amount that fits, for a question whose writer is at work.
LEMMA ReserveEntry ==
  ASSUME Balanced, NEW r \in Runs, Begun(r), ReserveTokens(r)
  PROVE  \E n \in Spends : Promises(r, n)
<1> DEFINE n == IF stream[r].step = "reserve_query" THEN Query ELSE Answer
<1>0. TypeOK /\ Phases(r)
  BY DEF Balanced, IInv, Facts
<1>1. Reserve(r, n) /\ n \in Nat \ {0} /\ n \in Spends
  BY AmountsAssumption DEF ReserveTokens, Spends
<1>2. /\ stream[r].step \in {"reserve_query", "reserve_answer"}
      /\ UNCHANGED <<run, message, usage>>
  BY DEF ReserveTokens, At
<1>3. stream'[r].overtaken = stream[r].overtaken
  BY <1>0 DEF ReserveTokens, Goes, TypeOK
<1>4. Kept(r)
  BY <1>2 DEF Kept, Fate, Price
<1>5. Fate(r) \in {"open", "cancelled"} \/ (Fate(r) = "failed" /\ stream[r].overtaken)
  BY <1>0, <1>2 DEF Fate, Phases, Closing, Begun, TypeOK, Terminal
<1>6. reservation'[r].tokens = reservation[r].tokens + n /\ bill'[r] = bill[r]
  BY <1>0, <1>1 DEF Reserve, TypeOK
<1>7. key = "active" /\ used' + reserved' <= limit
  <2>1. used \in Nat /\ reserved \in Nat /\ limit \in Nat
    BY <1>0, AmountsAssumption DEF TypeOK
  <2>2. key = "active" /\ used + reserved + n <= limit /\ reserved' = reserved + n /\ used' = used
    BY <1>1 DEF Reserve, Usable, Fits
  <2> HIDE DEF n
  <2> QED BY <1>1, <2>1, <2>2
<1>8. n > 0
  BY <1>1
<1>9. Promises(r, n)
  BY <1>3, <1>4, <1>5, <1>6, <1>7, <1>8 DEF Promises
<1> QED BY <1>1, <1>9

\* A recovery settles: what it charges was set aside, but for the excess, or the
\* stream is overtaken.
LEMMA RecoverEntry ==
  ASSUME Balanced, NEW r \in Runs, Recover(r), reservation[r].tokens <= reserved
  PROVE  \E n \in Spends : Settles(r, n)
<1> DEFINE n == IF bill[r] = 0 THEN Known(r) ELSE 0
<1>0. TypeOK /\ Facts(r) /\ Within(r)
  BY DEF Balanced, IInv
<1>1. /\ reservation[r].tokens \in Nat /\ reservation[r].spent \in Nat
      /\ bill[r] \in Nat /\ usage[r] \in Nat
      /\ Known(r) \in Spends /\ Known(r) \in Nat /\ 0 \in Spends
      /\ Beyond(r) \in Nat
  BY <1>0, AmountsAssumption DEF TypeOK, Spends, Known, Beyond
<1>2. n \in Spends /\ n \in Nat
  BY <1>1
<1>3. reservation'[r].tokens = 0
  BY <1>0, GiveBack DEF Recover
<1>4. bill'[r] = bill[r] + n
  <2>1. CASE Known(r) > 0
    BY <1>0, <1>1, <2>1 DEF Recover, Billed, TypeOK
  <2>2. CASE Known(r) = 0
    BY <1>1, <2>2 DEF Recover
  <2> QED BY <1>1, <2>1, <2>2
<1>5. /\ stream[r].overtaken => stream'[r].overtaken
      /\ stream'[r].overtaken = stream[r].overtaken \/ stream'[r].overtaken
  BY <1>0 DEF Recover, TypeOK
<1>6. n <= reservation[r].tokens + Beyond(r) \/ stream'[r].overtaken
  <2>1. CASE bill[r] = 0 /\ ~stream[r].overtaken
    <3>1. /\ usage[r] <= reservation[r].tokens + Beyond(r)
          /\ reservation[r].spent <= reservation[r].tokens + Beyond(r)
      BY <1>0, <2>1 DEF Within
    <3> QED BY <1>1, <2>1, <3>1 DEF Known
  <2>2. CASE bill[r] # 0
    BY <1>1, <2>2
  <2> QED BY <1>5, <2>1, <2>2
<1>7. /\ Fate(r)' = Fate(r) \/ (Fate(r) = "open" /\ Fate(r)' = "failed")
      /\ Price(r)' = Price(r)
  BY <1>0 DEF Recover, Fate, Price, Interrupted, TypeOK, Terminal
<1>8. ASSUME Fate(r) = "answered" PROVE bill[r] + n = Price(r)
  <2>1. run[r] = "completed" /\ Price(r) = usage[r] /\ reservation[r].tokens > 0
    BY <1>0, <1>8 DEF Fate, Price, Recover, TypeOK, Terminal
  <2>2. bill[r] = 0 /\ Known(r) = usage[r]
    BY <1>0, <1>1, <2>1 DEF Facts, Paid, Known
  <2> QED BY <1>1, <2>1, <2>2
<1>9. Settles(r, n)
  <2>1. n > 0 => bill[r] = 0
    OBVIOUS
  <2> HIDE DEF n
  <2> QED BY <1>3, <1>4, <1>5, <1>6, <1>7, <1>8, <2>1 DEF Settles
<1> QED BY <1>2, <1>9

\* A stream settles what it has spent, the first time.
LEMMA SettleEntry ==
  ASSUME Balanced, NEW r \in Runs, Settle(r), reservation[r].tokens <= reserved
  PROVE  (Kept(r) /\ Quiet(r)) \/ \E n \in Spends : Settles(r, n)
<1> DEFINE n == IF bill[r] = 0 THEN stream[r].spent ELSE 0
<1>0. TypeOK /\ Facts(r) /\ Within(r)
  BY DEF Balanced, IInv
<1>1. /\ reservation[r].tokens \in Nat
      /\ bill[r] \in Nat /\ usage[r] \in Nat
      /\ stream[r].spent \in Nat /\ stream[r].spent \in Spends /\ 0 \in Spends
      /\ Beyond(r) \in Nat
  BY <1>0, AmountsAssumption DEF TypeOK, Spends, Beyond
<1>2. n \in Spends /\ n \in Nat
  BY <1>1
<1>3. stream'[r].overtaken = stream[r].overtaken /\ stream[r].step # "over"
  BY <1>0, SettleStep
<1>4. Kept(r)
  BY DEF Settle, Kept, Fate, Price
<1>5. CASE stream[r].settled
  BY <1>3, <1>4, <1>5 DEF Settle, Finalize, account, Quiet
<1>6. CASE ~stream[r].settled
  <2>1. bill'[r] = bill[r] + n
    BY <1>0, <1>1, <1>6 DEF Settle, Finalize, Billed, TypeOK
  <2>2. Returned(r) \/ (n = 0 /\ UNCHANGED reservation)
    BY <1>1, <1>6 DEF Settle, Finalize
  <2>3. CASE n = 0 /\ UNCHANGED reservation
    BY <1>1, <1>3, <1>4, <2>1, <2>3 DEF Quiet
  <2>4. CASE Returned(r)
    <3>1. reservation'[r].tokens = 0
      BY <1>0, <2>4, GiveBack
    <3>2. n <= reservation[r].tokens + Beyond(r) \/ stream'[r].overtaken
      BY <1>0, <1>1, <1>3 DEF Within
    <3>3. ASSUME Fate(r) = "answered" PROVE bill[r] + n = Price(r)
      <4>1. run[r] = "completed" /\ Price(r) = usage[r]
        BY <1>0, <3>3 DEF Fate, Price, TypeOK, Terminal
      <4>2. usage[r] = stream[r].spent /\ (bill[r] = usage[r] \/ bill[r] = 0)
        BY <1>0, <1>3, <4>1 DEF Facts, Paid
      <4> QED BY <1>1, <4>1, <4>2
    <3>4. n > 0 => bill[r] = 0
      BY <1>1
    <3>5. Settles(r, n)
      <4> HIDE DEF n
      <4> QED BY <1>3, <1>4, <2>1, <3>1, <3>2, <3>3, <3>4 DEF Settles, Kept
    <3> QED BY <1>2, <3>5
  <2> QED BY <2>2, <2>3, <2>4
<1> QED BY <1>5, <1>6

\* A step after which a run and its account are as before means nothing to the owner.
LEMMA Silent ==
  ASSUME TypeOK, NEW r \in Runs, UNCHANGED <<run, usage>>, UNCHANGED account,
         stream'[r].overtaken = stream[r].overtaken
  PROVE  Entry(r)
  BY DEF account, Fate, Price, Kept, Quiet, Entry

\* Every step of a run is an entry in the books of its key, or none.
LEMMA StepEntry ==
  ASSUME Balanced, NEW r \in Runs, Begun(r), Step(r)
  PROVE  Entry(r)
<1>0. /\ TypeOK /\ Facts(r) /\ AccountBalances
      /\ TypeOK'
  BY NextInv DEF Balanced, IInv, Next, Step
<1>00. reservation[r].tokens <= reserved
  BY <1>0, SumStep
<1>000. ASSUME NEW s, Goes(r, s) PROVE stream'[r].overtaken = stream[r].overtaken
  BY <1>0, <1>000 DEF Goes, TypeOK
<1>1. CASE CreateRun(r)
  <2>1. Asks(r)
    BY <1>0, <1>1 DEF CreateRun, Asks, Fate, Price, Quiet, account, TypeOK
  <2> QED BY <2>1 DEF Entry
<1>2. CASE CancelRun(r)
  <2>1. Cancels(r)
    BY <1>0, <1>2 DEF CancelRun, Cancels, Fate, Price, Quiet, account, TypeOK
  <2> QED BY <2>1 DEF Entry
<1>3. CASE Recover(r)
  BY <1>00, <1>3, RecoverEntry DEF Entry
<1>4. CASE Claim(r)
  <2>1. Kept(r) /\ Quiet(r)
    BY <1>0, <1>000, <1>4 DEF Claim, Kept, Fate, Price, Quiet, account, TypeOK
  <2> QED BY <2>1 DEF Entry
<1>5. CASE MarkGenerating(r)
  BY <1>0, <1>000, <1>5, Silent DEF MarkGenerating
<1>6. CASE ReserveTokens(r)
  BY <1>6, ReserveEntry DEF Entry
<1>7. CASE Spend(r)
  <2>1. stream'[r].overtaken = stream[r].overtaken
    BY <1>0, <1>7 DEF Spend, TypeOK
  <2> QED BY <1>0, <1>7, <2>1, Silent DEF Spend
<1>8. CASE SaveProgress(r)
  <2>1. reservation'[r].tokens = reservation[r].tokens
    BY <1>0, <1>8 DEF SaveProgress, Progress, TypeOK
  <2>2. stream'[r].overtaken = stream[r].overtaken
    BY <1>000, <1>8 DEF SaveProgress
  <2> QED BY <1>8, <2>1, <2>2 DEF SaveProgress, Fate, Price, Kept, Quiet, Entry
<1>9. CASE CheckCancelled(r)
  BY <1>0, <1>000, <1>9, Silent DEF CheckCancelled
<1>10. CASE SeeCancelled(r)
  BY <1>0, <1>000, <1>10, Silent DEF SeeCancelled
<1>11. CASE Stop(r)
  <2>1. run[r] = "cancelled"
    BY <1>0, <1>11 DEF Stop, At, Facts, Phases
  <2>2. Kept(r) /\ Quiet(r)
    BY <1>000, <1>11, <2>1 DEF Stop, Kept, Fate, Price, Quiet, account
  <2> QED BY <2>2 DEF Entry
<1>12. CASE Persist(r)
  <2>1. CASE ~Holds(r)
    BY <1>0, <1>000, <1>12, <2>1, Silent DEF Persist
  <2>2. CASE Holds(r)
    <3>1. /\ run[r] = "running" /\ run'[r] = "completed"
          /\ usage'[r] = stream[r].spent /\ stream[r].spent \in Spends
      BY <1>0, <1>12, <2>2 DEF Persist, Holds, TypeOK
    <3>2. bill[r] = 0 /\ reservation[r].tokens > 0 /\ stream[r].spent <= reservation[r].tokens + Beyond(r)
      BY <1>0, <1>12, <3>1, AmountsAssumption DEF Persist, At, Facts, Outlay, TypeOK, Spends, Beyond
    <3>3. Quiet(r)
      BY <1>000, <1>12 DEF Persist, Quiet, account
    <3>4. Fate(r) = "open" /\ Fate(r)' = "answered" /\ Price(r)' = stream[r].spent
      BY <3>1 DEF Fate, Price
    <3>5. Answers(r)
      BY <3>1, <3>2, <3>3, <3>4 DEF Answers
    <3> QED BY <3>5 DEF Entry
  <2> QED BY <2>1, <2>2
<1>13. CASE Settle(r)
  BY <1>00, <1>13, SettleEntry DEF Entry
<1>14. CASE Finish(r)
  BY <1>0, <1>14, Closes, Silent DEF Finish
<1>15. CASE Raise(r)
  BY <1>0, <1>000, <1>15, Silent DEF Raise
<1>16. CASE ReadForFailure(r)
  <2>1. stream'[r].overtaken = stream[r].overtaken
    BY <1>0, <1>16 DEF ReadForFailure, TypeOK
  <2> QED BY <1>0, <1>16, <2>1, Silent DEF ReadForFailure
<1>17. CASE MarkFailed(r)
  <2>1. Quiet(r)
    BY <1>0, <1>17, Closes DEF MarkFailed, Quiet, account
  <2>2. /\ run[r] \in {"running"} \cup Terminal
        /\ run'[r] = IF run[r] = "cancelled" THEN "cancelled" ELSE "failed"
    BY <1>0, <1>17 DEF MarkFailed, Failed, At, Begun, TypeOK
  <2>3. CASE run[r] \in {"running", "completed"}
    <3>1. Fails(r)
      BY <2>1, <2>2, <2>3 DEF Fails, Fate, Price
    <3> QED BY <3>1 DEF Entry
  <2>4. CASE run[r] \in {"failed", "cancelled"}
    <3>1. Kept(r)
      BY <2>2, <2>4 DEF Kept, Fate, Price
    <3> QED BY <2>1, <3>1 DEF Entry
  <2> QED BY <2>2, <2>3, <2>4 DEF Terminal
<1>18. CASE Die(r)
  BY <1>0, <1>18, Closes, Silent DEF Die
<1> QED BY <1>1, <1>2, <1>3, <1>4, <1>5, <1>6, <1>7, <1>8, <1>9, <1>10, <1>11, <1>12, <1>13, <1>14, <1>15, <1>16, <1>17, <1>18 DEF Step, Request, Work

Fates == [r \in Runs |-> Fate(r)]
Prices == [r \in Runs |-> Price(r)]
Overtaken == {r \in Runs : stream[r].overtaken}

\* The books change at the run that makes a step only.
LEMMA BooksFollow ==
  ASSUME TypeOK, TypeOK', NEW r \in Runs, Step(r)
  PROVE  /\ Fates' = [Fates EXCEPT ![r] = Fate(r)']
         /\ Prices' = [Prices EXCEPT ![r] = Price(r)']
         /\ Tokens' = [Tokens EXCEPT ![r] = reservation'[r].tokens]
         /\ bill' = [bill EXCEPT ![r] = bill'[r]]
         /\ stream'[r].overtaken = stream[r].overtaken => Overtaken' = Overtaken
         /\ stream'[r].overtaken => Overtaken' = Overtaken \cup {r}
<1>1. \A q \in Runs \ {r} : Same(q)
  BY OthersStay
<1>2. \A q \in Runs \ {r} : Fate(q)' = Fate(q) /\ Price(q)' = Price(q)
  BY <1>1 DEF Same, Fate, Price
<1>3. Fates' = [Fates EXCEPT ![r] = Fate(r)'] /\ Prices' = [Prices EXCEPT ![r] = Price(r)']
  BY <1>2 DEF Fates, Prices
<1>4. Tokens' = [Tokens EXCEPT ![r] = reservation'[r].tokens]
  BY <1>1 DEF Same, Tokens
<1>5. bill' = [bill EXCEPT ![r] = bill'[r]]
  BY <1>1 DEF Same, TypeOK
<1>6. /\ stream'[r].overtaken = stream[r].overtaken => Overtaken' = Overtaken
      /\ stream'[r].overtaken => Overtaken' = Overtaken \cup {r}
  BY <1>1 DEF Same, Overtaken
<1> QED BY <1>3, <1>4, <1>5, <1>6

\* The books add up as the account does.
LEMMA SameSum ==
  ASSUME NEW v
  PROVE  Book!SumFunction(v) = SumFunction(v)
  BY Zenon DEF SumFunction, SumFunctionOnSet, FoldFunctionOnSet, MapThenFoldSet,
     Book!SumFunction, Book!SumFunctionOnSet, Book!FoldFunctionOnSet, Book!MapThenFoldSet

LEMMA SameCount ==
  ASSUME NEW S
  PROVE  Book!Cardinality(S) = Cardinality(S)
  BY Zenon DEF Cardinality, Book!Cardinality

\* What the key has committed itself to is the sum of its two aggregates.
LEMMA Commitment == AccountBalances => Book!Committed = reserved + used
<1>1. Book!Committed = Book!SumFunction([r \in Runs |-> reservation[r].tokens]) + Book!SumFunction(bill)
  BY DEF Book!Committed
<1> QED BY <1>1, SameSum DEF AccountBalances

LEMMA CommitmentNext == AccountBalances' => Book!Committed' = reserved' + used'
<1>1. Book!Committed' = Book!SumFunction([r \in Runs |-> reservation'[r].tokens]) + Book!SumFunction(bill')
  BY DEF Book!Committed
<1> QED BY <1>1, SameSum DEF AccountBalances

\* Giving a function the value it has leaves it as it is.
LEMMA SameValue ==
  ASSUME NEW S, NEW T, NEW f \in [S -> T], NEW x, NEW v, v = f[x]
  PROVE  [f EXCEPT ![x] = v] = f
  OBVIOUS

\* An entry of a run is a step of the books.
LEMMA EntryIsWritten ==
  ASSUME TypeOK, TypeOK', AccountBalances, AccountBalances', NEW r \in Runs, Step(r), Entry(r),
         UNCHANGED <<key, limit>>
  PROVE  [Book!Next]_Book!vars
<1>1. /\ Fates' = [Fates EXCEPT ![r] = Fate(r)']
      /\ Prices' = [Prices EXCEPT ![r] = Price(r)']
      /\ Tokens' = [Tokens EXCEPT ![r] = reservation'[r].tokens]
      /\ bill' = [bill EXCEPT ![r] = bill'[r]]
      /\ stream'[r].overtaken = stream[r].overtaken => Overtaken' = Overtaken
      /\ stream'[r].overtaken => Overtaken' = Overtaken \cup {r}
  BY BooksFollow
<1>2. Standing' = Standing
  BY DEF Standing
<1>3. /\ Fates \in [Runs -> {Fate(q) : q \in Runs}] /\ Fates[r] = Fate(r)
      /\ Prices \in [Runs -> {Price(q) : q \in Runs}] /\ Prices[r] = Price(r)
      /\ Tokens \in [Runs -> Spends] /\ Tokens[r] = reservation[r].tokens
      /\ bill \in [Runs -> Spends]
      /\ r \in Overtaken <=> stream[r].overtaken
  BY DEF TypeOK, Fates, Prices, Tokens, Overtaken
<1>4. ASSUME Quiet(r) PROVE Tokens' = Tokens /\ bill' = bill /\ Overtaken' = Overtaken
  BY <1>1, <1>3, <1>4, SameValue DEF Quiet
<1>5. ASSUME Kept(r) PROVE Fates' = Fates /\ Prices' = Prices
  BY <1>1, <1>3, <1>5, SameValue DEF Kept
<1>6. ASSUME Price(r)' = Price(r) PROVE Prices' = Prices
  BY <1>1, <1>3, <1>6, SameValue
<1>7. CASE Kept(r) /\ Quiet(r)
  <2>1. Book!question' = Book!question
    BY <1>4, <1>5, <1>7 DEF Book!question, Fates, Prices, Tokens, Overtaken
  <2> QED BY <1>2, <2>1 DEF Book!vars
<1>8. CASE Asks(r)
  <2>1. {k \in Runs : Fates[k] = "open"} = {q \in Runs : run[q] \in {"queued", "running"}}
    BY DEF Fate, Fates, TypeOK, Terminal
  <2>2. Fates[r] = "none" /\ Cardinality({k \in Runs : Fates[k] = "open"}) < MaxActive
    BY <1>3, <1>8, <2>1 DEF Asks
  <2>3. /\ Fates' = [Fates EXCEPT ![r] = "open"] /\ Prices' = Prices
        /\ Tokens' = Tokens /\ bill' = bill /\ Overtaken' = Overtaken
    BY <1>1, <1>4, <1>6, <1>8 DEF Asks
  <2>4. Book!Ask(r)
    BY <1>2, <2>2, <2>3, SameCount DEF Book!Ask, Book!Becomes, Fates, Prices, Tokens, Overtaken
  <2> QED BY <2>4 DEF Book!Next
<1>9. CASE Cancels(r)
  <2>1. Book!Cancel(r)
    BY <1>1, <1>2, <1>3, <1>4, <1>6, <1>9 DEF Cancels, Book!Cancel, Book!Becomes, Fates, Prices, Tokens, Overtaken
  <2> QED BY <2>1 DEF Book!Next
<1>10. CASE Answers(r)
  <2>1. Price(r)' <= Tokens[r] + Beyond(r) /\ (Price(r)' > 0 => Tokens[r] > 0)
    BY <1>3, <1>10 DEF Answers
  <2>2. Book!GiveAnswer(r, Price(r)')
    BY <1>1, <1>2, <1>3, <1>4, <1>10, <2>1
       DEF Answers, Book!GiveAnswer, Book!Becomes, Book!Cover, Book!Beyond, Beyond, Fates, Prices, Tokens, Overtaken
  <2> QED BY <1>10, <2>2 DEF Answers, Book!Next
<1>11. CASE Fails(r)
  <2>1. Book!Fail(r)
    BY <1>1, <1>2, <1>3, <1>4, <1>11 DEF Fails, Book!Fail, Book!Becomes, Fates, Prices, Tokens, Overtaken
  <2> QED BY <2>1 DEF Book!Next
<1>12. ASSUME NEW n \in Spends, Promises(r, n) PROVE Book!Next
  <2>0. Fates' = Fates /\ Prices' = Prices
    BY <1>5, <1>12 DEF Promises
  <2>1. bill' = bill /\ Overtaken' = Overtaken
    BY <1>1, <1>3, <1>12, SameValue DEF Promises
  <2>2. Tokens' = [Tokens EXCEPT ![r] = @ + n]
    BY <1>1, <1>3, <1>12 DEF Promises
  <2>3. Book!Committed' <= limit
    <3>1. AccountBalances' => Book!Committed' = reserved' + used'
      BY CommitmentNext
    <3>2. used' \in Nat /\ reserved' \in Nat /\ used' + reserved' <= limit
      BY <1>12 DEF TypeOK, Promises
    <3> QED BY <3>1, <3>2
  <2>4. /\ Standing = "open"
        /\ Fates[r] \in {"open", "cancelled"} \/ (Fates[r] = "failed" /\ r \in Overtaken)
        /\ n > 0
    BY <1>3, <1>12 DEF Promises, Standing
  <2>5. Book!Promise(r, n)
    BY <1>2, <2>0, <2>1, <2>2, <2>3, <2>4 DEF Book!Promise, Fates, Prices, Tokens, Overtaken
  <2> QED BY <2>5 DEF Book!Next
<1>13. ASSUME NEW n \in Spends, Settles(r, n) PROVE Book!Next
  <2>1. Overtaken' \in {Overtaken, Overtaken \cup {r}}
    BY <1>1, <1>13 DEF Settles
  <2>2. n <= Tokens[r] + Beyond(r) \/ r \in Overtaken'
    BY <1>1, <1>3, <1>13 DEF Settles
  <2>3. Fates' = Fates \/ (Fates[r] = "open" /\ Fates' = [Fates EXCEPT ![r] = "failed"])
    BY <1>1, <1>3, <1>13 DEF Settles
  <2>4. /\ Tokens' = [Tokens EXCEPT ![r] = 0]
        /\ bill' = [bill EXCEPT ![r] = @ + n]
        /\ Prices' = Prices
    BY <1>1, <1>3, <1>6, <1>13 DEF Settles
  <2>5. (n > 0 => bill[r] = 0) /\ (Fates[r] = "answered" => bill[r] + n = Prices[r])
    BY <1>3, <1>13 DEF Settles
  <2>6. Book!SettleUp(r, n)
    BY <1>2, <2>1, <2>2, <2>3, <2>4, <2>5
       DEF Book!SettleUp, Book!Becomes, Book!Cover, Book!Beyond, Beyond, Fates, Prices, Tokens, Overtaken
  <2> QED BY <2>6 DEF Book!Next
<1> QED BY <1>7, <1>8, <1>9, <1>10, <1>11, <1>12, <1>13 DEF Entry

\* What is done to the key itself is a step of the books.
LEMMA AdministersIsWritten ==
  ASSUME TypeOK, AccountBalances, Administers
  PROVE  [Book!Next]_Book!vars
<1>1. /\ Fates' = Fates /\ Prices' = Prices /\ Tokens' = Tokens /\ bill' = bill
      /\ Overtaken' = Overtaken
  BY AdministersStep DEF Fate, Price, Fates, Prices, Tokens, Overtaken
<1>2. UNCHANGED Book!question
  BY <1>1 DEF Book!question, Fates, Prices, Tokens, Overtaken
<1>3. ASSUME NEW n \in 1..MaxLimit, UpdateQuota(n) PROVE Book!Next
  <2>1. Book!Committed <= n
    <3>1. Book!Committed = reserved + used
      BY Commitment
    <3> QED BY <1>3, <3>1 DEF UpdateQuota, TypeOK
  <2>2. Standing' = Standing /\ limit' = n
    BY <1>3 DEF UpdateQuota, Standing
  <2>3. Book!SetLimit(n)
    BY <1>2, <2>1, <2>2 DEF Book!SetLimit
  <2> QED BY <2>3 DEF Book!Next
<1>4. CASE UpdateStatus("active") \/ UpdateStatus("disabled") \/ RevokeKey \/ DeleteKey
  <2>1. UNCHANGED limit
    BY <1>4 DEF UpdateStatus, RevokeKey, DeleteKey, KeyBecomes
  <2>2. \/ Standing' = Standing
        \/ Standing = "open" /\ Standing' = "suspended"
        \/ Standing = "suspended" /\ Standing' = "open"
        \/ Standing' = "closed"
    BY <1>4 DEF UpdateStatus, RevokeKey, DeleteKey, KeyBecomes, Standing
  <2>3. CASE Standing' = Standing
    BY <1>2, <2>1, <2>3 DEF Book!vars
  <2>4. CASE Standing = "open" /\ Standing' = "suspended"
    BY <1>2, <2>1, <2>4 DEF Book!Suspend, Book!Next
  <2>5. CASE Standing = "suspended" /\ Standing' = "open"
    BY <1>2, <2>1, <2>5 DEF Book!Resume, Book!Next
  <2>6. CASE Standing' = "closed"
    BY <1>2, <2>1, <2>6 DEF Book!Close, Book!Next
  <2> QED BY <2>2, <2>3, <2>4, <2>5, <2>6
<1>5. CASE UNCHANGED vars
  BY <1>2, <1>5 DEF vars, account, Standing, Book!vars
<1> QED BY <1>3, <1>4, <1>5 DEF Administers

\* The state of the account together with where its streams are.
Kempt == Balanced /\ AllBegun

LEMMA KemptAlways == Spec => []Kempt
<1>1. Init => AllBegun
  BY DEF Init, NewStream, AllBegun, Begun
<1>2. Kempt /\ [Next]_vars => Kempt'
  BY NextBalanced, NextBegun DEF Kempt, Balanced, IInv
<1> QED BY <1>1, <1>2, InitBalanced, PTL DEF Spec, Kempt

\* Streams, cancellations, failures and recoveries implement the books of Ledger, for
\* any number of runs and any amounts: no question is charged twice, or more than was
\* set aside for it (and the excess of the assistant's) unless its stream was
\* overtaken, an answer is covered when it is
\* given and charged its price, and only an open key within its limit promises tokens.
THEOREM LedgerIsKept == Spec => KeepsLedger
<1>1. Init => Book!Init
  <2> SUFFICES ASSUME Init PROVE Book!Init
    OBVIOUS
  <2>1. Fates = [r \in Runs |-> "none"] /\ Prices = [r \in Runs |-> 0]
    BY DEF Init, Fates, Fate, Prices, Price
  <2>2. Tokens = [r \in Runs |-> 0] /\ bill = [r \in Runs |-> 0] /\ Overtaken = {}
    BY DEF Init, NewStream, Tokens, NoReservation, Overtaken
  <2>3. Standing = "open" /\ limit \in 1..MaxLimit
    BY DEF Init, Standing
  <2> QED BY <2>1, <2>2, <2>3 DEF Book!Init, Fates, Prices, Tokens, Overtaken
<1>2. Kempt /\ Kempt' /\ [Next]_vars => [Book!Next]_Book!vars
  <2> SUFFICES ASSUME Kempt, Kempt', [Next]_vars PROVE [Book!Next]_Book!vars
    OBVIOUS
  <2>1. TypeOK /\ TypeOK' /\ AccountBalances /\ AccountBalances'
    BY DEF Kempt, Balanced, IInv
  <2>2. ASSUME NEW r \in Runs, Step(r) PROVE [Book!Next]_Book!vars
    <3>1. Entry(r)
      BY <2>2, StepEntry DEF Kempt, AllBegun
    <3>2. UNCHANGED <<key, limit>>
      BY <2>2, BalanceStep DEF Kempt
    <3> QED BY <2>1, <2>2, <3>1, <3>2, EntryIsWritten
  <2>3. CASE Administers
    BY <2>1, <2>3, AdministersIsWritten
  <2> QED BY <2>2, <2>3, Split
<1> QED BY <1>1, <1>2, KemptAlways, PTL DEF Spec, KeepsLedger, Book!Spec
=============================================================================
