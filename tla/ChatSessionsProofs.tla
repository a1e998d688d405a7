------------------------- MODULE ChatSessionsProofs -------------------------
(***************************************************************************)
(* The history of a chat session, for any number of turns and any cap.     *)
(***************************************************************************)
EXTENDS ChatSessions, Integers, SequenceTheorems, TLAPS

(***************************************************************************)
(* The messages after an append, in memory and in Redis.                   *)
(***************************************************************************)
LEMMA MessageOK ==
    ASSUME NEW t \in Turns, NEW who \in {"user", "assistant"}
    PROVE  /\ Message(t, who) \in Messages
           /\ Message(t, who).turn = t /\ Message(t, who).role = who
BY DEF Message, Messages

LEMMA MessageIs ==
    ASSUME NEW m \in Messages
    PROVE  m.turn \in Turns /\ m.role \in {"user", "assistant"} /\ m = Message(m.turn, m.role)
BY DEF Message, Messages

\* The elements of a sequence are what its places hold.
LEMMA Elements ==
    ASSUME NEW s \in Seq(Messages)
    PROVE  /\ ToSet(s) \subseteq Messages
           /\ \A i \in 1 .. Len(s) : s[i] \in ToSet(s) /\ s[i] \in Messages
           /\ \A m \in ToSet(s) : \E i \in 1 .. Len(s) : s[i] = m
BY LenProperties DEF ToSet

\* A list that is cut to its last n places keeps its end in order.
LEMMA LastOfKeeps ==
    ASSUME NEW s \in Seq(Messages), NEW n \in Nat
    PROVE  LET k == LastOf(s, n)
               d == Len(s) - Len(k)
           IN  /\ k \in Seq(Messages) /\ Len(k) \in 0 .. n /\ d \in Nat
               /\ \A i \in 1 .. Len(k) : i + d \in 1 .. Len(s) /\ k[i] = s[i + d]
               /\ Len(s) <= n => k = s
               /\ Len(s) > n => Len(k) = n
<1>0. Len(s) \in Nat /\ \A i \in 1 .. Len(s) : s[i] \in Messages
  BY LenProperties
<1>1. CASE Len(s) > n
  <2> DEFINE a == Len(s) - n + 1
  <2>1. a \in Int /\ Len(s) \in Int /\ a \in 1 .. Len(s) + 1 /\ \A i \in a .. Len(s) : s[i] \in Messages
    BY <1>0, <1>1
  <2>2. LastOf(s, n) = SubSeq(s, a, Len(s))
    BY <1>1 DEF LastOf
  <2>3. /\ SubSeq(s, a, Len(s)) \in Seq(Messages)
        /\ Len(SubSeq(s, a, Len(s))) = IF a <= Len(s) THEN Len(s) - a + 1 ELSE 0
        /\ \A i \in 1 .. Len(s) - a + 1 : SubSeq(s, a, Len(s))[i] = s[a + i - 1]
    BY <2>1, SubSeqProperties
  <2>4. Len(SubSeq(s, a, Len(s))) = n
    BY <1>0, <1>1, <2>3
  <2>5. \A i \in 1 .. n : i + (Len(s) - n) \in 1 .. Len(s) /\ SubSeq(s, a, Len(s))[i] = s[i + (Len(s) - n)]
    <3> TAKE i \in 1 .. n
    <3>1. i \in 1 .. Len(s) - a + 1 /\ a + i - 1 = i + (Len(s) - n)
      BY <1>0
    <3>2. i + (Len(s) - n) \in 1 .. Len(s)
      BY <1>0, <1>1
    <3> QED
      BY <2>3, <3>1, <3>2
  <2> QED
    BY <1>0, <1>1, <2>2, <2>3, <2>4, <2>5
<1>2. CASE ~(Len(s) > n)
  BY <1>0, <1>2 DEF LastOf
<1> QED
  BY <1>1, <1>2

\* An append pushes one message and drops as many of the oldest as the cap
\* demands; none is lost sight of.
LEMMA Pushed ==
    ASSUME TypeOK, NEW t \in Turns, Push(t)
    PROVE  LET m == Message(t, role[t])
               d == Len(messages) + 1 - Len(messages')
           IN  /\ messages' \in Seq(Messages) /\ Len(messages') \in 1 .. MaxMessages /\ d \in Nat
               /\ messages'[Len(messages')] = m
               /\ \A i \in 1 .. Len(messages') - 1 : i + d \in 1 .. Len(messages) /\ messages'[i] = messages[i + d]
               /\ trimmed' \subseteq Messages /\ trimmed \subseteq trimmed'
               /\ ToSet(messages) \cup {m} \subseteq ToSet(messages') \cup trimmed'
               /\ ToSet(messages') \subseteq ToSet(messages) \cup {m}
               /\ Len(messages) + 1 <= MaxMessages =>
                     /\ trimmed' = trimmed /\ messages' = Append(messages, m)
                     /\ Len(messages') = Len(messages) + 1
<1> DEFINE m == Message(t, role[t])
<1> DEFINE p == Append(messages, m)
<1>0. messages \in Seq(Messages) /\ Len(messages) \in Nat /\ trimmed \subseteq Messages /\ MaxMessages \in Nat
  BY LenProperties, MaxMessagesAssumption DEF TypeOK
<1>1. m \in Messages
  BY MessageOK DEF TypeOK
<1>2. /\ p \in Seq(Messages) /\ Len(p) = Len(messages) + 1
      /\ \A i \in 1 .. Len(messages) : p[i] = messages[i]
      /\ p[Len(messages) + 1] = m
  BY <1>0, <1>1, AppendProperties
<1>3. messages' = LastOf(p, MaxMessages) /\ trimmed' = trimmed \cup (ToSet(p) \ ToSet(messages'))
  BY DEF Push
<1> HIDE DEF m, p
<1> DEFINE d == Len(p) - Len(messages')
<1>4. /\ messages' \in Seq(Messages) /\ Len(messages') \in 0 .. MaxMessages /\ d \in Nat
      /\ \A i \in 1 .. Len(messages') : i + d \in 1 .. Len(p) /\ messages'[i] = p[i + d]
      /\ Len(p) <= MaxMessages => messages' = p
      /\ Len(p) > MaxMessages => Len(messages') = MaxMessages
  BY <1>0, <1>2, <1>3, LastOfKeeps
<1>5. Len(messages') \in 1 .. MaxMessages
  BY <1>0, <1>2, <1>4, MaxMessagesAssumption
<1>6. messages'[Len(messages')] = m
  BY <1>0, <1>2, <1>4, <1>5
<1>7. \A i \in 1 .. Len(messages') - 1 : i + d \in 1 .. Len(messages) /\ messages'[i] = messages[i + d]
  <2> TAKE i \in 1 .. Len(messages') - 1
  <2>1. i \in 1 .. Len(messages') /\ i + d \in 1 .. Len(messages)
    BY <1>0, <1>2, <1>4, <1>5
  <2> QED
    BY <1>2, <1>4, <2>1
<1>8. ToSet(p) \subseteq Messages /\ ToSet(messages) \cup {m} \subseteq ToSet(p)
  <2>1. m \in ToSet(p)
    BY <1>0, <1>2, Elements
  <2>2. \A x \in ToSet(messages) : x \in ToSet(p)
    BY <1>0, <1>2, Elements
  <2> QED
    BY <1>2, <2>1, <2>2, Elements
<1>9. Len(messages) + 1 <= MaxMessages =>
         /\ trimmed' = trimmed /\ messages' = p /\ Len(messages') = Len(messages) + 1
  BY <1>2, <1>3, <1>4
<1>10. /\ trimmed' \subseteq Messages /\ trimmed \subseteq trimmed'
       /\ ToSet(messages) \cup {m} \subseteq ToSet(messages') \cup trimmed'
  BY <1>0, <1>3, <1>8
<1>11. ASSUME NEW x \in ToSet(messages') PROVE x \in ToSet(messages) \cup {m}
  <2>1. PICK i \in 1 .. Len(messages') : messages'[i] = x
    BY <1>4, Elements
  <2>2. CASE i = Len(messages')
    BY <1>6, <2>1, <2>2
  <2>3. CASE i # Len(messages')
    <3>1. i \in 1 .. Len(messages') - 1
      BY <1>4, <2>3
    <3>2. i + d \in 1 .. Len(messages) /\ x = messages[i + d]
      BY <1>7, <2>1, <3>1
    <3> QED
      BY <1>0, <3>2, Elements
  <2> QED
    BY <2>2, <2>3
<1>12. ToSet(messages') \subseteq ToSet(messages) \cup {m}
  BY <1>11
<1> QED
  BY <1>0, <1>2, <1>4, <1>5, <1>6, <1>7, <1>9, <1>10, <1>12 DEF m, p

\* In memory an exchange is appended whole.
LEMMA Recorded ==
    ASSUME TypeOK, NEW t \in Turns, NEW answer \in {"text", "empty"},
           messages' = messages \o Exchange(t, answer)
    PROVE  /\ messages' \in Seq(Messages)
           /\ Len(messages') = Len(messages) + (IF answer = "text" THEN 2 ELSE 1)
           /\ \A i \in 1 .. Len(messages) : messages'[i] = messages[i]
           /\ messages'[Len(messages) + 1] = Message(t, "user")
           /\ answer = "text" => messages'[Len(messages) + 2] = Message(t, "assistant")
           /\ ToSet(messages') = ToSet(messages) \cup {Message(t, "user")}
                                   \cup (IF answer = "text" THEN {Message(t, "assistant")} ELSE {})
<1>0. messages \in Seq(Messages) /\ Len(messages) \in Nat
  BY LenProperties DEF TypeOK
<1> DEFINE e == Exchange(t, answer)
<1>1. /\ e \in Seq(Messages) /\ Len(e) = (IF answer = "text" THEN 2 ELSE 1)
      /\ e[1] = Message(t, "user")
      /\ answer = "text" => e[2] = Message(t, "assistant")
  <2> DEFINE u == Message(t, "user")
  <2> DEFINE a == Message(t, "assistant")
  <2> DEFINE rest == IF answer = "text" THEN <<a>> ELSE <<>>
  <2>1. u \in Messages /\ a \in Messages
    BY MessageOK
  <2> HIDE DEF u, a
  <2>2. <<u>> \in Seq(Messages) /\ Len(<<u>>) = 1 /\ <<u>>[1] = u
    BY <2>1
  <2>3. /\ rest \in Seq(Messages) /\ Len(rest) = (IF answer = "text" THEN 1 ELSE 0)
        /\ answer = "text" => rest[1] = a
    BY <2>1
  <2> HIDE DEF rest
  <2>4. /\ <<u>> \o rest \in Seq(Messages)
        /\ Len(<<u>> \o rest) = Len(<<u>>) + Len(rest)
        /\ \A i \in 1 .. Len(<<u>>) + Len(rest) :
               (<<u>> \o rest)[i] = IF i <= Len(<<u>>) THEN <<u>>[i] ELSE rest[i - Len(<<u>>)]
    BY <2>2, <2>3, ConcatProperties
  <2>5. e = <<u>> \o rest
    BY DEF Exchange, rest, u, a
  <2> HIDE DEF e
  <2>6. answer = "text" => 2 \in 1 .. Len(<<u>>) + Len(rest) /\ ~(2 <= Len(<<u>>)) /\ 2 - Len(<<u>>) = 1
    BY <2>2, <2>3
  <2>7. 1 \in 1 .. Len(<<u>>) + Len(rest) /\ 1 <= Len(<<u>>)
    BY <2>2, <2>3
  <2>8. e[1] = u /\ (answer = "text" => e[2] = a)
    BY <2>2, <2>3, <2>4, <2>5, <2>6, <2>7
  <2>9. Len(e) = (IF answer = "text" THEN 2 ELSE 1)
    BY <2>2, <2>3, <2>4, <2>5
  <2> QED
    BY <2>4, <2>5, <2>8, <2>9 DEF u, a
<1> HIDE DEF e
<1>2. messages' = messages \o e
  BY DEF e
<1>3. /\ messages' \in Seq(Messages) /\ Len(messages') = Len(messages) + Len(e)
      /\ \A i \in 1 .. Len(messages) + Len(e) :
             messages'[i] = IF i <= Len(messages) THEN messages[i] ELSE e[i - Len(messages)]
  <2>1. /\ messages \o e \in Seq(Messages) /\ Len(messages \o e) = Len(messages) + Len(e)
        /\ \A i \in 1 .. Len(messages) + Len(e) :
               (messages \o e)[i] = IF i <= Len(messages) THEN messages[i] ELSE e[i - Len(messages)]
    BY <1>0, <1>1, ConcatProperties
  <2> QED
    BY <1>2, <2>1
<1>4. /\ Len(messages) + 1 \in 1 .. Len(messages) + Len(e) /\ ~(Len(messages) + 1 <= Len(messages))
      /\ Len(messages) + 1 - Len(messages) = 1
  BY <1>0, <1>1
<1>5. answer = "text" =>
         /\ Len(messages) + 2 \in 1 .. Len(messages) + Len(e) /\ ~(Len(messages) + 2 <= Len(messages))
         /\ Len(messages) + 2 - Len(messages) = 2
  BY <1>0, <1>1
<1>6. \A i \in 1 .. Len(messages) : messages'[i] = messages[i]
  BY <1>0, <1>1, <1>3
<1>7. /\ messages' \in Seq(Messages)
      /\ Len(messages') = Len(messages) + (IF answer = "text" THEN 2 ELSE 1)
      /\ messages'[Len(messages) + 1] = Message(t, "user")
      /\ answer = "text" => messages'[Len(messages) + 2] = Message(t, "assistant")
  BY <1>1, <1>3, <1>4, <1>5
<1> DEFINE new == {Message(t, "user")} \cup (IF answer = "text" THEN {Message(t, "assistant")} ELSE {})
<1>8. ASSUME NEW x \in ToSet(messages') PROVE x \in ToSet(messages) \cup new
  <2>1. PICK i \in 1 .. Len(messages') : messages'[i] = x
    BY <1>7, Elements
  <2>2. i \in 1 .. Len(messages) \/ i = Len(messages) + 1 \/ (answer = "text" /\ i = Len(messages) + 2)
    BY <1>0, <1>7
  <2>3. CASE i \in 1 .. Len(messages)
    BY <1>0, <1>6, <2>1, <2>3, Elements
  <2>4. CASE i = Len(messages) + 1
    BY <1>7, <2>1, <2>4
  <2>5. CASE answer = "text" /\ i = Len(messages) + 2
    BY <1>7, <2>1, <2>5
  <2> QED
    BY <2>2, <2>3, <2>4, <2>5
<1>9. ASSUME NEW x \in ToSet(messages) \cup new PROVE x \in ToSet(messages')
  <2>1. CASE x \in ToSet(messages)
    <3>1. PICK i \in 1 .. Len(messages) : messages[i] = x
      BY <1>0, <2>1, Elements
    <3>2. i \in 1 .. Len(messages') /\ messages'[i] = x
      BY <1>0, <1>6, <1>7, <3>1
    <3> QED
      BY <1>7, <3>2, Elements
  <2>2. CASE x = Message(t, "user")
    <3>1. Len(messages) + 1 \in 1 .. Len(messages') /\ x = messages'[Len(messages) + 1]
      BY <1>0, <1>7, <2>2
    <3> QED
      BY <1>7, <3>1, Elements
  <2>3. CASE answer = "text" /\ x = Message(t, "assistant")
    <3>1. Len(messages) + 2 \in 1 .. Len(messages') /\ x = messages'[Len(messages) + 2]
      BY <1>0, <1>7, <2>3
    <3> QED
      BY <1>7, <3>1, Elements
  <2> QED
    BY <1>9, <2>1, <2>2, <2>3
<1>10. ToSet(messages') = ToSet(messages) \cup new
  BY <1>8, <1>9
<1> QED
  BY <1>6, <1>7, <1>10

-----------------------------------------------------------------------------
(***************************************************************************)
(* Every variable keeps its shape.                                         *)
(***************************************************************************)
Labels == Appending \cup {"idle", "asking", "require", "end"}

\* A turn goes on to l, or ends.
LEMMA StepOK ==
    ASSUME TypeOK, NEW t \in Turns
    PROVE  /\ \A l \in Labels : Goto(t, l) => pc' \in [Turns -> Labels]
           /\ \A how \in {"refused", "error", "raised", "done", "returned", "broken", "abandoned"} :
                 End(t, how) => /\ pc' \in [Turns -> Labels]
                                /\ out' \in [Turns -> {"open", "refused", "error", "raised", "done",
                                                       "returned", "broken", "abandoned"}]
<1>1. pc \in [Turns -> Labels] /\ "end" \in Labels
  BY DEF TypeOK, Labels
<1>2. ASSUME NEW l \in Labels, Goto(t, l) PROVE pc' \in [Turns -> Labels]
  BY <1>1, <1>2 DEF Goto
<1>3. ASSUME NEW how \in {"refused", "error", "raised", "done", "returned", "broken", "abandoned"},
             End(t, how)
      PROVE  /\ pc' \in [Turns -> Labels]
             /\ out' \in [Turns -> {"open", "refused", "error", "raised", "done",
                                    "returned", "broken", "abandoned"}]
  <2>1. pc' \in [Turns -> Labels]
    BY <1>1, <1>2, <1>3 DEF End
  <2>2. out' = [out EXCEPT ![t] = how]
    BY <1>3 DEF End
  <2> QED
    BY <2>1, <2>2 DEF TypeOK
<1> QED
  BY <1>2, <1>3

LEMMA RecordOK ==
    ASSUME TypeOK, NEW t \in Turns, NEW answer \in {"text", "empty"}, RecordInMemory(t, answer)
    PROVE  /\ messages' \in Seq(Messages) /\ count' \in Nat
           /\ pc' \in [Turns -> Labels]
           /\ out' \in [Turns -> {"open", "refused", "error", "raised", "done",
                                  "returned", "broken", "abandoned"}]
<1>1. messages' \in Seq(Messages) /\ count' \in Nat
  <2>1. CASE messages' = messages \o Exchange(t, answer) /\ count' = Len(messages')
    BY <2>1, Recorded, LenProperties
  <2>2. CASE UNCHANGED <<count, messages>>
    BY <2>2 DEF TypeOK
  <2> QED
    BY <2>1, <2>2 DEF RecordInMemory
<1>2. Finish(t) \/ Raise(t)
  BY DEF RecordInMemory
<1> QED
  BY <1>1, <1>2, StepOK DEF Finish, Raise

LEMMA TypeStep == TypeOK /\ [Next]_vars => TypeOK'
<1> SUFFICES ASSUME TypeOK, [Next]_vars PROVE TypeOK'
  OBVIOUS
<1> USE DEF session, turn, history
<1>l. {"asking", "require", "end"} \cup Appending \subseteq Labels
  BY DEF Labels
<1>p. pc \in [Turns -> Labels] <=> pc \in [Turns -> Appending \cup {"idle", "asking", "require", "end"}]
  BY DEF Labels
<1>n. messages \in Seq(Messages) /\ Len(messages) \in Nat /\ ToSet(messages) \subseteq Messages
  BY Elements, LenProperties DEF TypeOK
<1>m. <<>> \in Seq(Messages)
  BY EmptySeq
<1>1. ASSUME NEW t \in Turns, Arrive(t) PROVE TypeOK'
  BY <1>1, <1>l, StepOK DEF Arrive, TypeOK, Labels
<1>2. ASSUME NEW t \in Turns, AskFails(t) PROVE TypeOK'
  BY <1>2, <1>l, StepOK DEF AskFails, TypeOK, Labels
<1>3. ASSUME NEW t \in Turns, Answered(t) PROVE TypeOK'
  <2>1. PICK answer \in {"text", "empty"} :
           /\ text' = [text EXCEPT ![t] = answer]
           /\ \/ backend = "memory" /\ RecordInMemory(t, answer)
              \/ backend = "redis" /\ Goto(t, "require") /\ UNCHANGED <<count, messages, out>>
    BY <1>3 DEF Answered
  <2>2. /\ messages' \in Seq(Messages) /\ count' \in Nat
        /\ pc' \in [Turns -> Labels]
        /\ out' \in [Turns -> {"open", "refused", "error", "raised", "done",
                               "returned", "broken", "abandoned"}]
    BY <1>l, <2>1, RecordOK, StepOK DEF TypeOK
  <2> QED
    BY <1>3, <2>1, <2>2 DEF Answered, TypeOK, Labels
<1>4. ASSUME NEW t \in Turns, Require(t) PROVE TypeOK'
  BY <1>4, <1>l, StepOK DEF Require, Raise, TypeOK, Labels, Appending
<1>5. ASSUME NEW t \in Turns, Exists(t) PROVE TypeOK'
  BY <1>5, <1>l, StepOK DEF Exists, Raise, TypeOK, Labels, Appending
<1>6. ASSUME NEW t \in Turns, Push(t) PROVE TypeOK'
  <2>1. messages' \in Seq(Messages) /\ trimmed' \subseteq Messages
    BY <1>6, Pushed
  <2>2. pc' \in [Turns -> Labels]
    BY <1>6, <1>l, StepOK DEF Push, Appending
  <2> QED
    BY <1>6, <2>1, <2>2 DEF Push, TypeOK, Labels
<1>7. ASSUME NEW t \in Turns, Reread(t) PROVE TypeOK'
  BY <1>7, <1>l, StepOK DEF Reread, Raise, TypeOK, Labels, Appending
<1>8. ASSUME NEW t \in Turns, Llen(t) PROVE TypeOK'
  BY <1>8, <1>n DEF Llen, Goto, TypeOK, Appending
<1>9. ASSUME NEW t \in Turns, Write(t) PROVE TypeOK'
  BY <1>9, <1>l, StepOK DEF Write, Finish, TypeOK, Labels, Appending
<1>10. ASSUME NEW t \in Turns, RedisFails(t) PROVE TypeOK'
  BY <1>10, <1>l, StepOK DEF RedisFails, HalfDone, Raise, TypeOK, Labels, Appending
<1>11. ASSUME NEW t \in Turns, Disconnect(t) PROVE TypeOK'
  BY <1>11, <1>l, StepOK DEF Disconnect, HalfDone, TypeOK, Labels, Appending
<1>h. ASSUME LoseHeader PROVE header' \in BOOLEAN /\ count' \in Nat /\ unseen' \subseteq Turns /\ disturbed' \in BOOLEAN
  BY <1>h DEF LoseHeader, Overtakes, TypeOK
<1>i. ASSUME LoseMessages PROVE messages' \in Seq(Messages) /\ erased' \subseteq Messages
  BY <1>i, <1>n, <1>m DEF LoseMessages, TypeOK
<1>12. CASE Delete \/ ExpireInMemory
  BY <1>12, <1>h, <1>i DEF Delete, ExpireInMemory, TypeOK
<1>13. CASE ExpireList
  BY <1>13, <1>i DEF ExpireList, Overtakes, TypeOK
<1>14. CASE ExpireEntry
  BY <1>14, <1>h DEF ExpireEntry, TypeOK
<1>15. CASE UNCHANGED vars
  BY <1>15 DEF vars, TypeOK
<1> QED
  BY <1>1, <1>2, <1>3, <1>4, <1>5, <1>6, <1>7, <1>8, <1>9, <1>10, <1>11, <1>12, <1>13, <1>14, <1>15
  DEF Next, Serve

\* Every reachable state of a session and its turns has the shape TypeOK gives.
THEOREM TypeCorrect == Spec => []TypeOK
<1>1. Init => TypeOK
  <2> SUFFICES ASSUME Init PROVE TypeOK
    OBVIOUS
  <2>1. <<>> \in Seq(Messages)
    BY EmptySeq
  <2>2. messages \in Seq(Messages)
    BY <2>1 DEF Init
  <2>3. /\ pc \in [Turns -> Appending \cup {"idle", "asking", "require", "end"}]
        /\ role \in [Turns -> {"user", "assistant"}]
        /\ text \in [Turns -> {"none", "text", "empty"}]
        /\ counted \in [Turns -> Nat]
        /\ out \in [Turns -> {"open", "refused", "error", "raised", "done", "returned",
                              "broken", "abandoned"}]
    BY DEF Init
  <2>4. /\ backend \in {"memory", "redis"} /\ stream \in [Turns -> BOOLEAN]
        /\ header \in BOOLEAN /\ count \in Nat /\ newer \in {"header", "list"}
        /\ trimmed \subseteq Messages /\ erased \subseteq Messages
        /\ disturbed \in BOOLEAN /\ unseen \subseteq Turns
    BY DEF Init
  <2> QED
    BY <2>2, <2>3, <2>4 DEF TypeOK
<1> QED
  BY <1>1, TypeStep, PTL DEF Spec

-----------------------------------------------------------------------------
(***************************************************************************)
(* What the steps have in common.                                          *)
(***************************************************************************)
Turning(t) == Arrive(t) \/ Serve(t) \/ RedisFails(t) \/ Disconnect(t)
Losing == Delete \/ ExpireInMemory \/ ExpireList \/ ExpireEntry

LEMMA NextIs == [Next]_vars => (\E t \in Turns : Turning(t)) \/ Losing \/ UNCHANGED vars
BY DEF Next, Turning, Losing

\* A turn leaves the others alone.
LEMMA OthersStay ==
    ASSUME TypeOK, NEW t \in Turns, Turning(t), NEW q \in Turns \ {t}
    PROVE  /\ pc'[q] = pc[q] /\ role'[q] = role[q] /\ text'[q] = text[q]
           /\ counted'[q] = counted[q] /\ out'[q] = out[q]
BY DEF Turning, Arrive, Serve, AskFails, Answered, RecordInMemory, Require, Exists, Push, Reread, Llen,
   Write, RedisFails, Disconnect, Raise, Finish, End, Goto, turn, TypeOK

\* What a turn leaves alone that ends early or goes on without a word to the session.
Quiet == UNCHANGED <<backend, stream, session, role, trimmed, erased, unseen>>

\* A turn ends early.  It disturbs the session if it leaves an append half
\* done, unless it is that its answer is empty or that the session has gone.
Quits(t) ==
    /\ Quiet /\ pc'[t] = "end" /\ out'[t] \notin {"done", "returned"}
    /\ UNCHANGED <<text, counted>>
    /\ ~disturbed' => /\ ~disturbed
                      /\ \/ ~HalfDone(t)
                         \/ pc[t] = "exists" /\ (~header \/ text[t] = "empty")
                         \/ pc[t] = "reread" /\ ~header

\* A turn goes on.
Moves(t, from, to) ==
    /\ Quiet /\ pc[t] = from /\ pc'[t] = to /\ out'[t] = out[t]
    /\ UNCHANGED text

Passes(t) == Moves(t, "require", "exists") /\ header /\ Fits /\ UNCHANGED counted
             /\ (~disturbed' => ~disturbed /\ \A q \in Turns : pc[q] \notin Appending)

Measures(t) == Moves(t, "llen", "write") /\ counted' = [counted EXCEPT ![t] = Len(messages)]
               /\ UNCHANGED disturbed

Answers(t) ==
    /\ pc[t] = "asking" /\ UNCHANGED <<backend, stream, header, newer, role, counted, history>>
    /\ \E answer \in {"text", "empty"} :
          /\ text' = [text EXCEPT ![t] = answer]
          /\ \/ /\ backend = "redis" /\ pc'[t] = "require" /\ UNCHANGED <<count, messages, out>>
             \/ /\ backend = "memory" /\ pc'[t] = "end"
                /\ \/ /\ header /\ Fits
                      /\ messages' = messages \o Exchange(t, answer) /\ count' = Len(messages')
                      /\ out'[t] \in {"done", "returned"} => answer = "text"
                   \/ UNCHANGED <<count, messages>> /\ out'[t] \notin {"done", "returned"}

LEMMA TurnSteps ==
    ASSUME TypeOK, NEW t \in Turns, Turning(t)
    PROVE  \/ Quits(t)
           \/ Moves(t, "idle", "asking") /\ UNCHANGED <<counted, disturbed>>
           \/ Answers(t)
           \/ Passes(t)
           \/ Moves(t, "exists", "push") /\ UNCHANGED <<counted, disturbed>>
           \/ Push(t)
           \/ Moves(t, "reread", "llen") /\ UNCHANGED <<counted, disturbed>> /\ header
           \/ Measures(t)
           \/ Write(t)
<1> USE DEF Quiet, session, turn, history
<1>g. ASSUME NEW l, Goto(t, l) PROVE pc'[t] = l
  BY <1>g DEF Goto, TypeOK
<1>e. ASSUME NEW how, End(t, how) PROVE pc'[t] = "end" /\ out'[t] = how
  BY <1>e, <1>g DEF End, TypeOK
<1>r. ASSUME Raise(t) PROVE pc'[t] = "end" /\ out'[t] \notin {"done", "returned"}
  BY <1>r, <1>e DEF Raise
<1>f. ASSUME Finish(t) PROVE pc'[t] = "end"
  BY <1>f, <1>e DEF Finish
<1>1. ASSUME Arrive(t) PROVE Quits(t) \/ (Moves(t, "idle", "asking") /\ UNCHANGED <<counted, disturbed>>)
  BY <1>1, <1>g, <1>e DEF Arrive, Quits, Moves, HalfDone, Appending
<1>2. ASSUME AskFails(t) PROVE Quits(t)
  BY <1>2, <1>e DEF AskFails, Quits, HalfDone, Appending
<1>3. ASSUME Answered(t) PROVE Answers(t)
  <2>1. PICK answer \in {"text", "empty"} :
           /\ text' = [text EXCEPT ![t] = answer]
           /\ \/ backend = "memory" /\ RecordInMemory(t, answer)
              \/ backend = "redis" /\ Goto(t, "require") /\ UNCHANGED <<count, messages, out>>
    BY <1>3 DEF Answered
  <2>2. CASE backend = "memory" /\ RecordInMemory(t, answer)
    BY <1>3, <1>r, <1>f, <2>1, <2>2 DEF RecordInMemory, Answered, Answers
  <2>3. CASE backend = "redis" /\ Goto(t, "require") /\ UNCHANGED <<count, messages, out>>
    BY <1>3, <1>g, <2>1, <2>3 DEF Answered, Answers
  <2> QED
    BY <2>1, <2>2, <2>3
<1>4. ASSUME Require(t) PROVE Quits(t) \/ Passes(t)
  <2>1. CASE header /\ Fits
    BY <1>4, <1>g, <2>1 DEF Require, Passes, Moves
  <2>2. CASE ~(header /\ Fits)
    BY <1>4, <1>r, <2>2 DEF Require, Quits, HalfDone, Appending
  <2> QED
    BY <2>1, <2>2
<1>5. ASSUME Exists(t)
      PROVE  Quits(t) \/ (Moves(t, "exists", "push") /\ UNCHANGED <<counted, disturbed>>)
  BY <1>5, <1>g, <1>r DEF Exists, Quits, Moves
<1>6. ASSUME Reread(t)
      PROVE  Quits(t) \/ (Moves(t, "reread", "llen") /\ UNCHANGED <<counted, disturbed>> /\ header)
  BY <1>6, <1>g, <1>r DEF Reread, Quits, Moves
<1>7. ASSUME Llen(t) PROVE Measures(t)
  BY <1>7, <1>g DEF Llen, Measures, Moves
<1>8. ASSUME RedisFails(t) PROVE Quits(t)
  <2>1. Quiet /\ UNCHANGED <<text, counted>> /\ pc'[t] = "end" /\ out'[t] \notin {"done", "returned"}
    BY <1>8, <1>e, <1>r DEF RedisFails
  <2>2. disturbed' = (disturbed \/ HalfDone(t))
    BY <1>8 DEF RedisFails
  <2> QED
    BY <2>1, <2>2, Zenon DEF Quits
<1>9. ASSUME Disconnect(t) PROVE Quits(t)
  <2>1. Quiet /\ UNCHANGED <<text, counted>> /\ pc'[t] = "end" /\ out'[t] \notin {"done", "returned"}
    BY <1>9, <1>e DEF Disconnect
  <2>2. disturbed' = (disturbed \/ HalfDone(t))
    BY <1>9 DEF Disconnect
  <2> QED
    BY <2>1, <2>2, Zenon DEF Quits
<1> QED
  BY <1>1, <1>2, <1>3, <1>4, <1>5, <1>6, <1>7, <1>8, <1>9 DEF Turning, Serve

-----------------------------------------------------------------------------
(***************************************************************************)
(* Where a turn stands with the session.                                   *)
(***************************************************************************)
\* It has its question in the list and not its answer.
Half(t) ==
    \/ pc[t] \in {"exists", "push"} /\ role[t] = "assistant"
    \/ pc[t] \in {"reread", "llen", "write"} /\ role[t] = "user"

\* It has pushed the message of that role.
HasPushed(t, who) ==
    /\ pc[t] \in Appending
    /\ IF pc[t] \in {"exists", "push"} THEN who = "user" /\ role[t] = "assistant"
                                       ELSE who = "user" \/ role[t] = "assistant"

\* It may still store the message of that role.
MayStore(t, who) ==
    \/ pc[t] \in {"idle", "asking", "require"}
    \/ pc[t] \in Appending /\ ~HasPushed(t, who)

Quietly == \A t \in Turns : pc[t] \notin Appending

\* The bound of the history needs that of what the turns have read of it.
BoundInv ==
    /\ HistoryBounded
    /\ \A t \in Turns : counted[t] <= MaxMessages
    /\ backend = "memory" =>
          /\ count = Len(messages) /\ newer = "header"
          /\ \A t \in Turns : pc[t] \in {"idle", "asking", "end"}

\* A message is not stored while its turn may still store it, and an answer
\* follows its question.
OrderInv ==
    /\ \A t \in Turns :
          /\ pc[t] \in {"idle", "asking", "require"} => role[t] = "user"
          /\ pc[t] \in Appending \cup {"require"} => text[t] # "none"
    /\ \A t \in Turns : \A who \in {"user", "assistant"} :
          Message(t, who) \in ToSet(messages) => text[t] # "none" /\ ~MayStore(t, who)
    /\ \A i, j \in 1 .. Len(messages) :
          messages[i].turn = messages[j].turn /\ i < j =>
              messages[i].role = "user" /\ messages[j].role = "assistant"

\* Undisturbed, exchanges follow one another, and an answer finds its question
\* at the end of the list.
AloneInv ==
    ~disturbed =>
        /\ \A t, q \in Turns : pc[t] \in Appending /\ pc[q] \in Appending => t = q
        /\ \A t \in Turns : Half(t) => /\ messages # <<>>
                                       /\ messages[Len(messages)] = Message(t, "user")
        /\ \A i, j \in 1 .. Len(messages) :
              messages[i].turn = messages[j].turn /\ i < j => j = i + 1

\* What was pushed is in the list, or is known to have left it.
AckInv ==
    \A t \in Turns : \A who \in {"user", "assistant"} :
        out[t] \in {"done", "returned"} \/ HasPushed(t, who) =>
            Message(t, who) \in ToSet(messages) \cup trimmed \cup erased

\* Between two exchanges the list and its entry agree.
AtRest ==
    /\ header => count = Len(messages) \/ (backend = "redis" /\ messages = <<>>)
    /\ newer = "header" \/ messages = <<>>

\* A question that was answered has its answer in the list, or is about to.
Told(t) ==
    Message(t, "user") \in ToSet(messages) /\ text[t] = "text" =>
        Half(t) \/ Message(t, "assistant") \in ToSet(messages)

\* An exchange starts from a list at rest, with room for what it adds.
Room(t) ==
    /\ pc[t] \in {"exists", "push"} /\ role[t] = "user" =>
          AtRest /\ Len(messages) + 2 <= MaxMessages
    /\ pc[t] \in {"exists", "push"} /\ role[t] = "assistant" =>
          count = Len(messages) /\ newer = "header" /\ Len(messages) + 1 <= MaxMessages
    /\ pc[t] \in {"reread", "llen", "write"} /\ role[t] = "user" =>
          Len(messages) + 1 <= MaxMessages
    /\ pc[t] = "write" => counted[t] = Len(messages)

\* Undisturbed, exchanges find and leave the list and its entry in agreement.
ExactInv ==
    ~disturbed =>
        /\ trimmed = {}
        /\ ~header => messages = <<>> /\ Quietly
        /\ Quietly => AtRest
        /\ \A t \in Turns : Told(t) /\ Room(t)

\* A turn that would create the entry again had looked it up before it went.
ResurrectInv == ~header => \A t \in Turns : pc[t] \in {"llen", "write"} => t \in unseen

LEMMA InitHolds ==
    Init => BoundInv /\ OrderInv /\ AloneInv /\ AckInv /\ ExactInv /\ ResurrectInv
<1> SUFFICES ASSUME Init PROVE BoundInv /\ OrderInv /\ AloneInv /\ AckInv /\ ExactInv /\ ResurrectInv
  OBVIOUS
<1>1. /\ messages = <<>> /\ Len(messages) = 0 /\ ToSet(messages) = {}
      /\ header /\ count = 0 /\ newer = "header" /\ trimmed = {}
      /\ \A t \in Turns : pc[t] = "idle" /\ role[t] = "user" /\ text[t] = "none" /\ counted[t] = 0 /\ out[t] = "open"
  BY EmptySeq DEF Init, ToSet
<1>2. BoundInv
  BY <1>1, MaxMessagesAssumption DEF BoundInv, HistoryBounded
<1>3. OrderInv
  BY <1>1 DEF OrderInv, Appending
<1>4. AloneInv
  BY <1>1 DEF AloneInv, Appending, Half
<1>5. AckInv
  BY <1>1 DEF AckInv, HasPushed, Appending
<1>6. ExactInv
  BY <1>1 DEF ExactInv, AtRest, Told, Room, Quietly, Appending
<1>7. ResurrectInv
  BY <1>1 DEF ResurrectInv
<1> QED
  BY <1>2, <1>3, <1>4, <1>5, <1>6, <1>7

-----------------------------------------------------------------------------
(***************************************************************************)
(* The cap.                                                                *)
(***************************************************************************)
LEMMA BoundStep == TypeOK /\ BoundInv /\ [Next]_vars => BoundInv'
<1> SUFFICES ASSUME TypeOK, BoundInv, [Next]_vars PROVE BoundInv'
  OBVIOUS
<1>n. /\ MaxMessages \in Nat /\ MaxMessages >= 2 /\ count \in Nat
      /\ messages \in Seq(Messages) /\ Len(messages) \in Nat
      /\ \A t \in Turns : counted[t] \in Nat
  BY MaxMessagesAssumption, LenProperties DEF TypeOK
<1>1. ASSUME NEW t \in Turns, Turning(t) PROVE BoundInv'
  <2>o. \A q \in Turns \ {t} : pc'[q] = pc[q] /\ counted'[q] = counted[q]
    BY <1>1, OthersStay
  <2>1. ASSUME Quiet, counted'[t] <= MaxMessages,
               backend = "memory" => pc'[t] \in {"idle", "asking", "end"}
        PROVE  BoundInv'
    BY <1>n, <2>o, <2>1 DEF BoundInv, HistoryBounded, Quiet, session
  <2>2. CASE Quits(t)
    BY <2>1, <2>2 DEF Quits, BoundInv
  <2>3. CASE Moves(t, "idle", "asking") /\ UNCHANGED <<counted, disturbed>>
    BY <2>1, <2>3 DEF Moves, BoundInv
  <2>4. CASE Answers(t)
    <3>1. UNCHANGED <<backend, newer, counted>> /\ pc'[t] \in {"require", "end"} /\ (backend = "memory" => pc'[t] = "end")
      BY <2>4 DEF Answers
    <3>2. CASE UNCHANGED <<count, messages>>
      BY <2>o, <3>1, <3>2 DEF BoundInv, HistoryBounded
    <3>3. CASE ~UNCHANGED <<count, messages>>
      <4>1. PICK answer \in {"text", "empty"} :
               backend = "memory" /\ Fits /\ messages' = messages \o Exchange(t, answer) /\ count' = Len(messages')
        BY <2>4, <3>3 DEF Answers
      <4>2. Len(messages') <= Len(messages) + 2 /\ Len(messages') \in Nat
        <5>1. messages' = messages \o Exchange(t, answer)
          BY <4>1
        <5>2. /\ messages' \in Seq(Messages)
              /\ Len(messages') = Len(messages) + (IF answer = "text" THEN 2 ELSE 1)
          BY <5>1, Recorded
        <5> QED
          BY <1>n, <5>2, LenProperties
      <4>3. Len(messages') <= MaxMessages /\ count' <= MaxMessages /\ count' = Len(messages')
        BY <1>n, <4>1, <4>2 DEF Fits, BoundInv
      <4> QED
        BY <2>o, <3>1, <4>3 DEF BoundInv, HistoryBounded
    <3> QED
      BY <3>2, <3>3
  <2>5. CASE Passes(t)
    BY <2>1, <2>5 DEF Passes, Moves, BoundInv
  <2>6. CASE Moves(t, "exists", "push") /\ UNCHANGED <<counted, disturbed>>
    BY <2>1, <2>6 DEF Moves, BoundInv
  <2>7. CASE Push(t)
    <3>1. Len(messages') <= MaxMessages
      BY <1>n, <2>7, Pushed
    <3>2. UNCHANGED <<backend, count, counted>> /\ pc[t] = "push"
      BY <2>7 DEF Push
    <3> QED
      BY <3>1, <3>2 DEF BoundInv, HistoryBounded
  <2>8. CASE Moves(t, "reread", "llen") /\ UNCHANGED <<counted, disturbed>> /\ header
    BY <2>1, <2>8 DEF Moves, BoundInv
  <2>9. CASE Measures(t)
    <3>1. counted'[t] <= MaxMessages
      BY <2>9 DEF Measures, BoundInv, HistoryBounded, TypeOK
    <3> QED
      BY <2>1, <2>9, <3>1 DEF Measures, Moves, BoundInv
  <2>10. CASE Write(t)
    BY <1>n, <2>10 DEF Write, BoundInv, HistoryBounded
  <2> QED
    BY <1>1, <2>2, <2>3, <2>4, <2>5, <2>6, <2>7, <2>8, <2>9, <2>10, TurnSteps
<1>2. CASE Losing
  <2>1. UNCHANGED <<backend, newer, pc, counted>>
    BY <1>2 DEF Losing, Delete, ExpireInMemory, ExpireList, ExpireEntry, turn
  <2>2. /\ messages' = messages \/ messages' = <<>>
        /\ count' = count \/ count' = 0
        /\ backend = "memory" => messages' = <<>> /\ count' = 0
    BY <1>2 DEF Losing, Delete, ExpireInMemory, ExpireList, ExpireEntry, LoseHeader, LoseMessages
  <2>3. Len(<<>>) = 0
    OBVIOUS
  <2> QED
    BY <1>n, <2>1, <2>2, <2>3 DEF BoundInv, HistoryBounded
<1>3. CASE UNCHANGED vars
  BY <1>3 DEF vars, session, turn, history, BoundInv, HistoryBounded
<1> QED
  BY <1>1, <1>2, <1>3, NextIs

\* However turns race, neither the list nor its count outgrows the cap.
THEOREM HistoryStaysBounded == Spec => []HistoryBounded
<1>1. BoundInv => HistoryBounded
  BY DEF BoundInv
<1> QED
  BY <1>1, InitHolds, BoundStep, TypeCorrect, PTL DEF Spec

-----------------------------------------------------------------------------
(***************************************************************************)
(* The order of the messages.                                              *)
(***************************************************************************)
\* A turn stores each of its messages once, and knows what it has pushed.
LEMMA Stands ==
    ASSUME TypeOK, BoundInv, OrderInv, NEW t \in Turns, Turning(t), NEW who \in {"user", "assistant"}
    PROVE  /\ MayStore(t, who)' => MayStore(t, who)
           /\ Push(t) => MayStore(t, role[t]) /\ ~MayStore(t, role[t])'
           /\ HasPushed(t, who)' => HasPushed(t, who) \/ (Push(t) /\ who = role[t])
           /\ out'[t] \in {"done", "returned"} =>
                 \/ out[t] \in {"done", "returned"}
                 \/ Write(t) /\ HasPushed(t, who)
                 \/ Answers(t)
<1> USE DEF MayStore, HasPushed, Appending, Quiet
<1>0. role[t] \in {"user", "assistant"}
  BY DEF TypeOK
<1>1. CASE Quits(t)
  <2>1. ~Push(t)
    BY <1>1 DEF Quits, Push, Goto, TypeOK
  <2> QED
    BY <1>1, <2>1 DEF Quits
<1>2. CASE Moves(t, "idle", "asking")
  BY <1>2 DEF Moves, Push
<1>3. CASE Answers(t)
  BY <1>3 DEF Answers, Push
<1>4. CASE Passes(t)
  <2>1. role[t] = "user" /\ role' = role
    BY <1>4 DEF Passes, Moves, OrderInv
  <2> QED
    BY <1>4, <2>1 DEF Passes, Moves, Push
<1>5. CASE Moves(t, "exists", "push")
  BY <1>5 DEF Moves, Push
<1>6. CASE Push(t)
  <2>1. pc[t] = "push" /\ pc'[t] = "reread" /\ UNCHANGED <<role, out>>
    BY <1>6 DEF Push, Goto, TypeOK
  <2> QED
    BY <1>0, <1>6, <2>1
<1>7. CASE Moves(t, "reread", "llen")
  BY <1>7 DEF Moves, Push
<1>8. CASE Measures(t)
  BY <1>8 DEF Measures, Moves, Push
<1>9. CASE Write(t)
  <2>1. pc[t] = "write"
    BY <1>9 DEF Write
  <2>2. CASE role[t] = "user"
    <3>1. pc'[t] = "exists" /\ role'[t] = "assistant" /\ out' = out
      BY <1>9, <2>2 DEF Write, Goto, TypeOK
    <3> QED
      BY <1>9, <2>1, <2>2, <3>1 DEF Push
  <2>3. CASE role[t] = "assistant"
    <3>1. pc'[t] = "end"
      BY <1>9, <2>3 DEF Write, Finish, End, Goto, TypeOK
    <3> QED
      BY <1>9, <2>1, <2>3, <3>1 DEF Push
  <2> QED
    BY <1>0, <2>2, <2>3
<1> QED
  BY <1>1, <1>2, <1>3, <1>4, <1>5, <1>6, <1>7, <1>8, <1>9, TurnSteps

\* What a turn does to the list.
Stores(t, answer) ==
    /\ backend = "memory" /\ pc[t] = "asking" /\ pc'[t] = "end"
    /\ header /\ Fits
    /\ messages' = messages \o Exchange(t, answer) /\ count' = Len(messages')
    /\ text' = [text EXCEPT ![t] = answer]
    /\ out'[t] \in {"done", "returned"} => answer = "text"
    /\ UNCHANGED <<backend, stream, header, newer, role, counted, history>>

LEMMA TurnsList ==
    ASSUME TypeOK, NEW t \in Turns, Turning(t)
    PROVE  \/ UNCHANGED messages
           \/ Push(t)
           \/ \E answer \in {"text", "empty"} : Stores(t, answer)
<1>1. CASE Answers(t)
  BY <1>1 DEF Answers, Stores
<1>2. CASE ~Answers(t)
  BY <1>2, TurnSteps DEF Quits, Passes, Measures, Moves, Quiet, session, Write
<1> QED
  BY <1>1, <1>2

\* A text that was given stays given.
LEMMA TextStays ==
    ASSUME TypeOK, NEW t \in Turns, Turning(t)
    PROVE  /\ \A q \in Turns : text[q] # "none" => text'[q] # "none"
           /\ Answers(t) => text'[t] # "none"
           /\ ~Answers(t) => text' = text
<1>1. CASE Answers(t)
  BY <1>1 DEF Answers, TypeOK
<1>2. CASE ~Answers(t)
  BY <1>2, TurnSteps DEF Quits, Passes, Measures, Moves, Quiet, Push, Write
<1> QED
  BY <1>1, <1>2

\* The messages at two places are of one turn and in order.
InTurn(s, i, j) == s[i].turn = s[j].turn /\ i < j

LEMMA OrderStep == TypeOK /\ BoundInv /\ OrderInv /\ [Next]_vars => OrderInv'
<1> SUFFICES ASSUME TypeOK, BoundInv, OrderInv, [Next]_vars PROVE OrderInv'
  OBVIOUS
<1> DEFINE Roles == {"user", "assistant"}
<1> DEFINE Given == \A t \in Turns : \A who \in Roles :
                      Message(t, who) \in ToSet(messages) => text[t] # "none" /\ ~MayStore(t, who)
<1> DEFINE Sorted == \A i, j \in 1 .. Len(messages) :
                        InTurn(messages, i, j) => messages[i].role = "user" /\ messages[j].role = "assistant"
<1>n. messages \in Seq(Messages) /\ Len(messages) \in Nat
  BY LenProperties DEF TypeOK
<1>o. Given /\ Sorted
  BY DEF OrderInv, InTurn
<1>e. Len(<<>>) = 0 /\ ToSet(<<>>) = {}
  BY EmptySeq DEF ToSet
<1>1. ASSUME NEW t \in Turns, Turning(t) PROVE OrderInv'
  <2>1. \A q \in Turns : /\ pc'[q] \in {"idle", "asking", "require"} => role'[q] = "user"
                         /\ pc'[q] \in Appending \cup {"require"} => text'[q] # "none"
    <3> TAKE q \in Turns
    <3>1. CASE q # t
      BY <1>1, <3>1, OthersStay DEF OrderInv
    <3>2. CASE q = t
      <4>1. CASE Answers(t)
        BY <1>1, <3>2, <4>1, TextStays DEF Answers, OrderInv
      <4>2. CASE ~Answers(t)
        <5>1. text' = text
          BY <1>1, <4>2, TextStays
        <5>2. Push(t) => pc[t] = "push" /\ pc'[t] = "reread"
          BY DEF Push, Goto, TypeOK
        <5>3. Write(t) => pc[t] = "write" /\ pc'[t] \in {"exists", "end"}
          BY DEF Write, Goto, Finish, End, TypeOK
        <5> QED
          BY <1>1, <3>2, <4>2, <5>1, <5>2, <5>3, TurnSteps
          DEF Quits, Passes, Measures, Moves, Quiet, OrderInv, Appending
      <4> QED
        BY <4>1, <4>2
    <3> QED
      BY <3>1, <3>2
  <2>m. \A q \in Turns : \A who \in Roles : MayStore(q, who)' => MayStore(q, who)
    <3> TAKE q \in Turns
    <3> TAKE who \in Roles
    <3>1. CASE q = t
      BY <1>1, <3>1, Stands
    <3>2. CASE q # t
      BY <1>1, <3>2, OthersStay DEF MayStore, HasPushed
    <3> QED
      BY <3>1, <3>2
  <2>x. \A q \in Turns : text[q] # "none" => text'[q] # "none"
    BY <1>1, TextStays
  <2>2. ASSUME UNCHANGED messages PROVE OrderInv'
    <3>1. Sorted'
      BY <1>o, <2>2
    <3>2. Given'
      BY <1>o, <2>2, <2>m, <2>x
    <3> QED
      BY <2>1, <3>1, <3>2 DEF OrderInv, InTurn
  <2>3. ASSUME Push(t) PROVE OrderInv'
    <3> DEFINE m == Message(t, role[t])
    <3> DEFINE d == Len(messages) + 1 - Len(messages')
    <3>0. role[t] \in Roles /\ pc[t] = "push"
      BY <2>3 DEF Push, TypeOK
    <3>1. /\ messages' \in Seq(Messages) /\ Len(messages') \in Nat /\ d \in Nat
          /\ messages'[Len(messages')] = m
          /\ \A i \in 1 .. Len(messages') - 1 : i + d \in 1 .. Len(messages) /\ messages'[i] = messages[i + d]
          /\ ToSet(messages') \subseteq ToSet(messages) \cup {m}
      BY <2>3, Pushed, MaxMessagesAssumption
    <3>m. m.turn = t /\ m.role = role[t]
      BY <3>0, MessageOK
    <3>2. MayStore(t, role[t]) /\ ~MayStore(t, role[t])' /\ text'[t] # "none"
      <4>1. text[t] # "none"
        BY <3>0 DEF OrderInv, Appending
      <4> QED
        BY <1>1, <2>3, <2>x, <3>0, <4>1, Stands
    <3>3. Given'
      <4> SUFFICES ASSUME NEW q \in Turns, NEW who \in Roles, Message(q, who) \in ToSet(messages')
                   PROVE  text'[q] # "none" /\ ~MayStore(q, who)'
        OBVIOUS
      <4>1. CASE Message(q, who) \in ToSet(messages)
        BY <1>o, <2>m, <2>x, <4>1
      <4>2. CASE Message(q, who) = m
        <5>1. q = t /\ who = role[t] /\ role' = role
          BY <2>3, <3>0, <3>m, <4>2, MessageOK DEF Push
        <5> QED
          BY <3>2, <5>1
      <4> QED
        BY <3>1, <4>1, <4>2
    <3>4. \A i \in 1 .. Len(messages) :
             messages[i].turn = t => messages[i].role = "user" /\ role[t] = "assistant"
      <4> SUFFICES ASSUME NEW i \in 1 .. Len(messages), messages[i].turn = t
                   PROVE  messages[i].role = "user" /\ role[t] = "assistant"
        OBVIOUS
      <4>1. /\ messages[i] \in ToSet(messages) /\ messages[i].role \in Roles
            /\ messages[i] = Message(t, messages[i].role)
        BY <1>n, Elements, MessageIs
      <4>2. ~MayStore(t, messages[i].role)
        BY <1>o, <4>1
      <4> QED
        BY <3>0, <4>1, <4>2 DEF MayStore, HasPushed, Appending
    <3> HIDE DEF m
    <3>5. Sorted'
      <4> SUFFICES ASSUME NEW i \in 1 .. Len(messages'), NEW j \in 1 .. Len(messages'),
                          InTurn(messages', i, j)
                   PROVE  messages'[i].role = "user" /\ messages'[j].role = "assistant"
        OBVIOUS
      <4>1. /\ i \in 1 .. Len(messages') - 1 /\ i + d \in 1 .. Len(messages)
            /\ messages'[i] = messages[i + d] /\ i < j
        BY <3>1 DEF InTurn
      <4>2. CASE j = Len(messages')
        <5>1. messages[i + d].turn = t
          BY <3>1, <3>m, <4>1, <4>2 DEF InTurn
        <5> QED
          BY <3>1, <3>m, <3>4, <4>1, <4>2, <5>1
      <4>3. CASE j # Len(messages')
        <5>1. /\ j \in 1 .. Len(messages') - 1 /\ j + d \in 1 .. Len(messages)
              /\ messages'[j] = messages[j + d] /\ i + d < j + d
          BY <3>1, <4>1, <4>3
        <5>2. InTurn(messages, i + d, j + d)
          BY <4>1, <5>1 DEF InTurn
        <5> QED
          BY <1>o, <4>1, <5>1, <5>2
      <4> QED
        BY <4>2, <4>3
    <3> QED
      BY <2>1, <3>3, <3>5 DEF OrderInv, InTurn
  <2>4. ASSUME NEW answer \in {"text", "empty"}, Stores(t, answer) PROVE OrderInv'
    <3>0. pc[t] = "asking" /\ pc'[t] = "end" /\ messages' = messages \o Exchange(t, answer)
      BY <2>4 DEF Stores
    <3>1. /\ messages' \in Seq(Messages)
          /\ Len(messages') = Len(messages) + (IF answer = "text" THEN 2 ELSE 1)
          /\ \A i \in 1 .. Len(messages) : messages'[i] = messages[i]
          /\ messages'[Len(messages) + 1] = Message(t, "user")
          /\ answer = "text" => messages'[Len(messages) + 2] = Message(t, "assistant")
          /\ ToSet(messages') \subseteq ToSet(messages) \cup {Message(t, "user"), Message(t, "assistant")}
      BY <3>0, Recorded
    <3>2. text'[t] # "none" /\ \A who \in Roles : MayStore(t, who) /\ ~MayStore(t, who)'
      BY <2>4, <3>0 DEF Stores, TypeOK, MayStore, Appending
    <3>3. Given'
      <4> SUFFICES ASSUME NEW q \in Turns, NEW who \in Roles, Message(q, who) \in ToSet(messages')
                   PROVE  text'[q] # "none" /\ ~MayStore(q, who)'
        OBVIOUS
      <4>1. CASE Message(q, who) \in ToSet(messages)
        BY <1>o, <2>m, <2>x, <4>1
      <4>2. CASE Message(q, who) \in {Message(t, "user"), Message(t, "assistant")}
        <5>1. q = t
          BY <4>2, MessageOK
        <5> QED
          BY <3>2, <5>1
      <4> QED
        BY <3>1, <4>1, <4>2
    <3>4. \A i \in 1 .. Len(messages) : messages[i].turn # t
      <4> SUFFICES ASSUME NEW i \in 1 .. Len(messages), messages[i].turn = t PROVE FALSE
        OBVIOUS
      <4>1. /\ messages[i] \in ToSet(messages) /\ messages[i].role \in Roles
            /\ messages[i] = Message(t, messages[i].role)
        BY <1>n, Elements, MessageIs
      <4> QED
        BY <1>o, <3>2, <4>1
    <3>5. Message(t, "user").role = "user" /\ Message(t, "user").turn = t
          /\ Message(t, "assistant").role = "assistant" /\ Message(t, "assistant").turn = t
      BY MessageOK
    <3>6. Sorted'
      <4> SUFFICES ASSUME NEW i \in 1 .. Len(messages'), NEW j \in 1 .. Len(messages'),
                          InTurn(messages', i, j)
                   PROVE  messages'[i].role = "user" /\ messages'[j].role = "assistant"
        OBVIOUS
      <4>0. i < j /\ messages'[i].turn = messages'[j].turn
        BY DEF InTurn
      <4>1. CASE j \in 1 .. Len(messages)
        <5>1. i \in 1 .. Len(messages) /\ messages'[i] = messages[i] /\ messages'[j] = messages[j]
          BY <1>n, <3>1, <4>0, <4>1
        <5>2. InTurn(messages, i, j)
          BY <4>0, <5>1 DEF InTurn
        <5> QED
          BY <1>o, <4>1, <5>1, <5>2
      <4>2. CASE i \in 1 .. Len(messages) /\ j \notin 1 .. Len(messages)
        <5>1. j = Len(messages) + 1 \/ (answer = "text" /\ j = Len(messages) + 2)
          BY <1>n, <3>1, <4>2
        <5>2. messages'[j].turn = t
          BY <3>1, <3>5, <5>1
        <5> QED
          BY <3>1, <3>4, <4>0, <4>2, <5>2
      <4>3. CASE i \notin 1 .. Len(messages)
        <5>1. i = Len(messages) + 1 /\ answer = "text" /\ j = Len(messages) + 2
          BY <1>n, <3>1, <4>0, <4>3
        <5> QED
          BY <3>1, <3>5, <5>1
      <4> QED
        BY <4>1, <4>2, <4>3
    <3> QED
      BY <2>1, <3>3, <3>6 DEF OrderInv, InTurn
  <2> QED
    BY <1>1, <2>2, <2>3, <2>4, TurnsList
<1>2. CASE Losing
  <2>1. /\ UNCHANGED <<pc, role, text>>
        /\ messages' = messages \/ messages' = <<>>
    BY <1>2 DEF Losing, Delete, ExpireInMemory, ExpireList, ExpireEntry, turn, LoseMessages
  <2> QED
    BY <1>e, <2>1 DEF OrderInv, MayStore, HasPushed
<1>3. CASE UNCHANGED vars
  BY <1>3 DEF vars, session, turn, OrderInv, MayStore, HasPushed
<1> QED
  BY <1>1, <1>2, <1>3, NextIs

-----------------------------------------------------------------------------
(***************************************************************************)
(* Exchanges that follow one another.                                      *)
(***************************************************************************)
\* A disturbance is remembered, and an exchange starts undisturbed only where
\* no other is under way.
LEMMA Undisturbed ==
    ASSUME TypeOK, [Next]_vars, ~disturbed'
    PROVE  /\ ~disturbed
           /\ Losing => Quietly /\ Quietly'
           /\ \A t \in Turns : Turning(t) /\ pc'[t] \in Appending =>
                 pc[t] \in Appending \/ (Passes(t) /\ Quietly)
<1>0. disturbed \in BOOLEAN
  BY DEF TypeOK
<1>1. ASSUME NEW t \in Turns, Turning(t)
      PROVE  ~disturbed /\ (pc'[t] \in Appending => pc[t] \in Appending \/ (Passes(t) /\ Quietly))
  <2>1. CASE Quits(t)
    BY <2>1 DEF Quits, Appending
  <2>2. CASE Answers(t)
    BY <2>2 DEF Answers, history, Appending
  <2>3. CASE Passes(t)
    BY <2>3 DEF Passes, Quietly
  <2>4. CASE Push(t)
    BY <2>4 DEF Push, Appending
  <2>5. CASE Measures(t)
    BY <2>5 DEF Measures, Moves, Appending
  <2>6. CASE Write(t)
    BY <2>6 DEF Write, Appending
  <2>7. CASE Moves(t, "idle", "asking") /\ UNCHANGED <<counted, disturbed>>
    BY <2>7 DEF Moves, Appending
  <2>8. CASE Moves(t, "exists", "push") /\ UNCHANGED <<counted, disturbed>>
    BY <2>8 DEF Moves, Appending
  <2>9. CASE Moves(t, "reread", "llen") /\ UNCHANGED <<counted, disturbed>> /\ header
    BY <2>9 DEF Moves, Appending
  <2> QED
    BY <1>1, <2>1, <2>2, <2>3, <2>4, <2>5, <2>6, <2>7, <2>8, <2>9, TurnSteps
<1>2. ASSUME Losing PROVE ~disturbed /\ Quietly /\ Quietly'
  <2>1. Overtakes /\ UNCHANGED pc
    BY <1>2 DEF Losing, Delete, ExpireInMemory, ExpireList, ExpireEntry, LoseHeader, turn
  <2> QED
    BY <1>0, <2>1 DEF Overtakes, Quietly
<1>3. CASE UNCHANGED vars
  <2>1. ~disturbed
    BY <1>3 DEF vars, history
  <2> QED
    BY <1>1, <1>2, <2>1
<1> QED
  BY <1>1, <1>2, <1>3, NextIs

\* A turn gets to its answer through its question.
LEMMA HalfIs ==
    ASSUME TypeOK, OrderInv, NEW t \in Turns, Turning(t)
    PROVE  /\ Half(t)' => Half(t) \/ (Push(t) /\ role[t] = "user")
           /\ Push(t) => (Half(t)' <=> role[t] = "user") /\ (Half(t) <=> role[t] = "assistant")
           /\ Half(t) => pc[t] \in Appending
<1> USE DEF Half
<1>0. role[t] \in {"user", "assistant"} /\ (Half(t) => pc[t] \in Appending)
  BY DEF TypeOK, Appending
<1>1. CASE Quits(t)
  BY <1>0, <1>1 DEF Quits, Push, Goto, TypeOK
<1>2. CASE Moves(t, "idle", "asking")
  BY <1>0, <1>2 DEF Moves, Push
<1>3. CASE Answers(t)
  BY <1>0, <1>3 DEF Answers, Push
<1>4. CASE Passes(t)
  <2>1. role[t] = "user" /\ role' = role
    BY <1>4 DEF Passes, Moves, OrderInv, Quiet
  <2> QED
    BY <1>0, <1>4, <2>1 DEF Passes, Moves, Push
<1>5. CASE Moves(t, "exists", "push")
  BY <1>0, <1>5 DEF Moves, Push, Quiet
<1>6. CASE Push(t)
  <2>1. pc[t] = "push" /\ pc'[t] = "reread" /\ UNCHANGED <<role, out>>
    BY <1>6 DEF Push, Goto, TypeOK
  <2> QED
    BY <1>0, <1>6, <2>1
<1>7. CASE Moves(t, "reread", "llen")
  BY <1>0, <1>7 DEF Moves, Push, Quiet
<1>8. CASE Measures(t)
  BY <1>0, <1>8 DEF Measures, Moves, Push, Quiet
<1>9. CASE Write(t)
  <2>1. pc[t] = "write" /\ pc'[t] \in {"exists", "end"} /\ (pc'[t] = "exists" => role[t] = "user")
    BY <1>9 DEF Write, Goto, Finish, End, TypeOK
  <2> QED
    BY <1>0, <1>9, <2>1 DEF Push
<1> QED
  BY <1>1, <1>2, <1>3, <1>4, <1>5, <1>6, <1>7, <1>8, <1>9, TurnSteps

LEMMA AloneStep == TypeOK /\ BoundInv /\ OrderInv /\ AloneInv /\ [Next]_vars => AloneInv'
<1> SUFFICES ASSUME TypeOK, BoundInv, OrderInv, AloneInv, [Next]_vars, ~disturbed' PROVE AloneInv'
  BY DEF AloneInv
<1> DEFINE One == \A t, q \in Turns : pc[t] \in Appending /\ pc[q] \in Appending => t = q
<1> DEFINE Asked == \A t \in Turns : Half(t) => /\ messages # <<>>
                                                /\ messages[Len(messages)] = Message(t, "user")
<1> DEFINE Close == \A i, j \in 1 .. Len(messages) : InTurn(messages, i, j) => j = i + 1
<1>n. messages \in Seq(Messages) /\ Len(messages) \in Nat
  BY LenProperties DEF TypeOK
<1>e. Len(<<>>) = 0
  OBVIOUS
<1>o. One /\ Asked /\ Close
  BY Undisturbed DEF AloneInv, InTurn
<1>a. One' /\ Asked' /\ Close' => AloneInv'
  BY DEF AloneInv, InTurn
<1>1. ASSUME NEW t \in Turns, Turning(t) PROVE AloneInv'
  <2>o. \A q \in Turns \ {t} : pc'[q] = pc[q] /\ (Half(q)' <=> Half(q)) /\ (Half(q) => pc[q] \in Appending)
    BY <1>1, OthersStay DEF Half, Appending
  <2>h. /\ Half(t)' => Half(t) \/ (Push(t) /\ role[t] = "user")
        /\ Half(t) => pc[t] \in Appending
    BY <1>1, HalfIs
  <2>1. One'
    <3>1. pc'[t] \in Appending => pc[t] \in Appending \/ Quietly
      BY <1>1, Undisturbed
    <3>2. ASSUME NEW p \in Turns, NEW q \in Turns, pc'[p] \in Appending, pc'[q] \in Appending PROVE p = q
      BY <1>o, <2>o, <3>1, <3>2 DEF Quietly
    <3> QED
      BY <3>2
  <2>2. CASE UNCHANGED messages /\ ~Push(t)
    <3>1. Asked'
      <4> SUFFICES ASSUME NEW q \in Turns, Half(q)'
                   PROVE  messages' # <<>> /\ messages'[Len(messages')] = Message(q, "user")
        OBVIOUS
      <4>1. Half(q)
        BY <2>o, <2>h, <2>2
      <4> QED
        BY <1>o, <2>2, <4>1
    <3>2. Close'
      BY <1>o, <2>2
    <3> QED
      BY <1>a, <2>1, <3>1, <3>2
  <2>3. CASE Push(t)
    <3> DEFINE m == Message(t, role[t])
    <3> DEFINE d == Len(messages) + 1 - Len(messages')
    <3>0. role[t] \in {"user", "assistant"} /\ pc[t] = "push"
      BY <2>3 DEF Push, TypeOK
    <3>1. /\ messages' \in Seq(Messages) /\ Len(messages') \in Nat /\ Len(messages') >= 1 /\ d \in Nat
          /\ messages'[Len(messages')] = m
          /\ \A i \in 1 .. Len(messages') - 1 : i + d \in 1 .. Len(messages) /\ messages'[i] = messages[i + d]
      BY <2>3, Pushed, MaxMessagesAssumption
    <3>m. m.turn = t /\ m.role = role[t]
      BY <3>0, MessageOK
    <3>2. Push(t) => (Half(t)' <=> role[t] = "user") /\ (Half(t) <=> role[t] = "assistant")
      BY <1>1, HalfIs
    <3>3. \A q \in Turns \ {t} : ~Half(q)
      BY <1>o, <2>o, <3>0 DEF Appending
    <3>4. Asked'
      <4> SUFFICES ASSUME NEW q \in Turns, Half(q)'
                   PROVE  messages' # <<>> /\ messages'[Len(messages')] = Message(q, "user")
        OBVIOUS
      <4>1. q = t /\ role[t] = "user"
        BY <2>3, <2>o, <3>2, <3>3
      <4>2. messages' # <<>>
        BY <1>e, <3>1
      <4> QED
        BY <3>1, <4>1, <4>2
    <3>5. \A i \in 1 .. Len(messages) : messages[i].turn = t => i = Len(messages)
      <4> SUFFICES ASSUME NEW i \in 1 .. Len(messages), messages[i].turn = t, i # Len(messages) PROVE FALSE
        OBVIOUS
      <4>1. /\ messages[i] \in ToSet(messages) /\ messages[i].role \in {"user", "assistant"}
            /\ messages[i] = Message(t, messages[i].role)
        BY <1>n, Elements, MessageIs
      <4>2. ~MayStore(t, messages[i].role)
        BY <4>1 DEF OrderInv
      <4>3. role[t] = "assistant"
        BY <3>0, <4>1, <4>2 DEF MayStore, HasPushed, Appending
      <4>4. messages[Len(messages)] = Message(t, "user")
        BY <1>o, <2>3, <3>2, <4>3
      <4>5. /\ Len(messages) \in 1 .. Len(messages) /\ i < Len(messages)
            /\ messages[Len(messages)].turn = t /\ messages[Len(messages)].role = "user"
        BY <1>n, <4>4, MessageOK
      <4>6. messages[Len(messages)].role = "assistant"
        BY <4>5 DEF OrderInv
      <4> QED
        BY <4>5, <4>6
    <3> HIDE DEF m
    <3>6. Close'
      <4> SUFFICES ASSUME NEW i \in 1 .. Len(messages'), NEW j \in 1 .. Len(messages'),
                          InTurn(messages', i, j)
                   PROVE  j = i + 1
        OBVIOUS
      <4>1. /\ i \in 1 .. Len(messages') - 1 /\ i + d \in 1 .. Len(messages)
            /\ messages'[i] = messages[i + d] /\ i < j
        BY <3>1 DEF InTurn
      <4>2. CASE j = Len(messages')
        <5>1. messages[i + d].turn = t
          BY <3>1, <3>m, <4>1, <4>2 DEF InTurn
        <5>2. i + d = Len(messages)
          BY <3>5, <4>1, <5>1
        <5> QED
          BY <1>n, <3>1, <4>2, <5>2
      <4>3. CASE j # Len(messages')
        <5>1. /\ j \in 1 .. Len(messages') - 1 /\ j + d \in 1 .. Len(messages)
              /\ messages'[j] = messages[j + d] /\ i + d < j + d
          BY <3>1, <4>1, <4>3
        <5>2. InTurn(messages, i + d, j + d)
          BY <4>1, <5>1 DEF InTurn
        <5>3. j + d = i + d + 1
          BY <1>o, <4>1, <5>1, <5>2
        <5> QED
          BY <3>1, <5>3
      <4> QED
        BY <4>2, <4>3
    <3> QED
      BY <1>a, <2>1, <3>4, <3>6
  <2>4. ASSUME NEW answer \in {"text", "empty"}, Stores(t, answer) PROVE AloneInv'
    <3>0. pc[t] = "asking" /\ pc'[t] = "end" /\ messages' = messages \o Exchange(t, answer) /\ backend = "memory"
      BY <2>4 DEF Stores
    <3>1. /\ messages' \in Seq(Messages)
          /\ Len(messages') = Len(messages) + (IF answer = "text" THEN 2 ELSE 1)
          /\ \A i \in 1 .. Len(messages) : messages'[i] = messages[i]
          /\ messages'[Len(messages) + 1] = Message(t, "user")
          /\ answer = "text" => messages'[Len(messages) + 2] = Message(t, "assistant")
      BY <3>0, Recorded
    <3>2. \A q \in Turns : ~Half(q)'
      <4>1. ~Half(t)'
        BY <3>0 DEF Half
      <4>2. \A q \in Turns : pc[q] \notin Appending
        BY <3>0 DEF BoundInv, Appending
      <4> QED
        BY <2>o, <4>1, <4>2
    <3>3. \A i \in 1 .. Len(messages) : messages[i].turn # t
      <4> SUFFICES ASSUME NEW i \in 1 .. Len(messages), messages[i].turn = t PROVE FALSE
        OBVIOUS
      <4>1. /\ messages[i] \in ToSet(messages) /\ messages[i].role \in {"user", "assistant"}
            /\ messages[i] = Message(t, messages[i].role)
        BY <1>n, Elements, MessageIs
      <4> QED
        BY <3>0, <4>1 DEF OrderInv, MayStore
    <3>4. Message(t, "user").turn = t /\ Message(t, "assistant").turn = t
      BY MessageOK
    <3>5. Close'
      <4> SUFFICES ASSUME NEW i \in 1 .. Len(messages'), NEW j \in 1 .. Len(messages'),
                          InTurn(messages', i, j)
                   PROVE  j = i + 1
        OBVIOUS
      <4>0. i < j /\ messages'[i].turn = messages'[j].turn
        BY DEF InTurn
      <4>1. CASE j \in 1 .. Len(messages)
        <5>1. i \in 1 .. Len(messages) /\ messages'[i] = messages[i] /\ messages'[j] = messages[j]
          BY <1>n, <3>1, <4>0, <4>1
        <5>2. InTurn(messages, i, j)
          BY <4>0, <5>1 DEF InTurn
        <5> QED
          BY <1>o, <4>1, <5>1, <5>2
      <4>2. CASE i \in 1 .. Len(messages) /\ j \notin 1 .. Len(messages)
        <5>1. j = Len(messages) + 1 \/ (answer = "text" /\ j = Len(messages) + 2)
          BY <1>n, <3>1, <4>2
        <5>2. messages'[j].turn = t
          BY <3>1, <3>4, <5>1
        <5> QED
          BY <3>1, <3>3, <4>0, <4>2, <5>2
      <4>3. CASE i \notin 1 .. Len(messages)
        BY <1>n, <3>1, <4>0, <4>3
      <4> QED
        BY <4>1, <4>2, <4>3
    <3> QED
      BY <1>a, <2>1, <3>2, <3>5
  <2> QED
    BY <1>1, <2>2, <2>3, <2>4, TurnsList
<1>2. CASE Losing
  <2>1. /\ UNCHANGED <<pc, role>>
        /\ messages' = messages \/ messages' = <<>>
    BY <1>2 DEF Losing, Delete, ExpireInMemory, ExpireList, ExpireEntry, turn, LoseMessages
  <2>2. \A q \in Turns : ~Half(q)'
    BY <1>2, Undisturbed DEF Quietly, Half, Appending
  <2>3. Close'
    BY <1>e, <1>o, <2>1
  <2>4. One'
    BY <1>o, <2>1
  <2> QED
    BY <1>a, <2>2, <2>3, <2>4
<1>3. CASE UNCHANGED vars
  BY <1>3, <1>o, <1>a DEF vars, session, turn, Half
<1> QED
  BY <1>1, <1>2, <1>3, NextIs

\* A question comes before its answer, and directly unless exchanges overlapped
\* in Redis or one was cut short.
THEOREM ExchangesStayInOrder == Spec => []ExchangesInOrder
<1>1. TypeOK /\ OrderInv /\ AloneInv => ExchangesInOrder
  <2> SUFFICES ASSUME TypeOK, OrderInv, AloneInv PROVE ExchangesInOrder
    OBVIOUS
  <2>1. \A i \in 1 .. Len(messages) : text[messages[i].turn] # "none"
    <3> TAKE i \in 1 .. Len(messages)
    <3>1. /\ messages[i].turn \in Turns /\ messages[i].role \in {"user", "assistant"}
          /\ Message(messages[i].turn, messages[i].role) \in ToSet(messages)
      <4>1. messages[i] \in ToSet(messages) /\ messages[i] \in Messages
        BY Elements DEF TypeOK
      <4> QED
        BY <4>1, MessageIs
    <3> QED
      BY <3>1 DEF OrderInv
  <2>2. \A i, j \in 1 .. Len(messages) :
           messages[i].turn = messages[j].turn /\ i < j =>
              messages[i].role = "user" /\ messages[j].role = "assistant"
    BY DEF OrderInv
  <2>3. ~disturbed => \A i, j \in 1 .. Len(messages) :
                         messages[i].turn = messages[j].turn /\ i < j => j = i + 1
    BY DEF AloneInv
  <2> QED
    BY <2>1, <2>2, <2>3, Zenon DEF ExchangesInOrder
<1> QED
  BY <1>1, InitHolds, BoundStep, OrderStep, AloneStep, TypeCorrect, PTL DEF Spec

-----------------------------------------------------------------------------
(***************************************************************************)
(* What a client was told of is in the history, or known to have left it.  *)
(***************************************************************************)
LEMMA AckStep == TypeOK /\ BoundInv /\ OrderInv /\ AckInv /\ [Next]_vars => AckInv'
<1> SUFFICES ASSUME TypeOK, BoundInv, OrderInv, AckInv, [Next]_vars PROVE AckInv'
  OBVIOUS
<1> DEFINE Kept == ToSet(messages) \cup trimmed \cup erased
<1>n. messages \in Seq(Messages)
  BY DEF TypeOK
<1>1. ASSUME NEW t \in Turns, Turning(t) PROVE AckInv'
  <2>1. Kept \subseteq Kept'
    <3>1. CASE UNCHANGED messages
      <4>1. trimmed \subseteq trimmed' /\ erased \subseteq erased'
        BY <1>1, TurnSteps, Pushed DEF Quits, Answers, Passes, Measures, Moves, Quiet, history, Push, Write
      <4> QED
        BY <3>1, <4>1
    <3>2. CASE Push(t)
      <4>1. ToSet(messages) \subseteq ToSet(messages') \cup trimmed' /\ trimmed \subseteq trimmed' /\ erased' = erased
        BY <3>2, Pushed DEF Push
      <4> QED
        BY <4>1
    <3>3. ASSUME NEW answer \in {"text", "empty"}, Stores(t, answer) PROVE Kept \subseteq Kept'
      <4>1. messages' = messages \o Exchange(t, answer) /\ UNCHANGED history
        BY <3>3 DEF Stores
      <4>2. ToSet(messages) \subseteq ToSet(messages')
        BY <4>1, Recorded
      <4> QED
        BY <4>1, <4>2 DEF history
    <3> QED
      BY <1>1, <3>1, <3>2, <3>3, TurnsList
  <2> SUFFICES ASSUME NEW q \in Turns, NEW who \in {"user", "assistant"},
                      out'[q] \in {"done", "returned"} \/ HasPushed(q, who)'
               PROVE  Message(q, who) \in Kept'
    BY DEF AckInv
  <2>2. CASE out[q] \in {"done", "returned"} \/ HasPushed(q, who)
    BY <2>1, <2>2 DEF AckInv
  <2>3. CASE ~(out[q] \in {"done", "returned"} \/ HasPushed(q, who))
    <3>1. q = t
      BY <1>1, <2>3, OthersStay DEF HasPushed
    <3>2. (Push(t) /\ who = role[t]) \/ (Answers(t) /\ out'[t] \in {"done", "returned"})
      BY <1>1, <2>3, <3>1, Stands
    <3>3. CASE Push(t) /\ who = role[t]
      BY <3>1, <3>3, Pushed
    <3>4. CASE Answers(t) /\ out'[t] \in {"done", "returned"}
      <4>1. messages' = messages \o Exchange(t, "text")
        BY <2>3, <3>1, <3>4 DEF Answers
      <4> QED
        BY <3>1, <4>1, Recorded
    <3> QED
      BY <3>2, <3>3, <3>4
  <2> QED
    BY <2>2, <2>3
<1>2. CASE Losing
  <2>1. UNCHANGED <<pc, role, out, trimmed>>
    BY <1>2 DEF Losing, Delete, ExpireInMemory, ExpireList, ExpireEntry, turn
  <2>2. \/ UNCHANGED <<messages, erased>>
        \/ erased' = erased \cup ToSet(messages)
    BY <1>2 DEF Losing, Delete, ExpireInMemory, ExpireList, ExpireEntry, LoseMessages
  <2>3. Kept \subseteq Kept'
    BY <2>1, <2>2
  <2> HIDE DEF Kept
  <2>4. \A q \in Turns : \A who \in {"user", "assistant"} :
           out[q] \in {"done", "returned"} \/ HasPushed(q, who) => Message(q, who) \in Kept
    BY DEF AckInv, Kept
  <2>5. \A q \in Turns : \A who \in {"user", "assistant"} :
           out'[q] \in {"done", "returned"} \/ HasPushed(q, who)' => Message(q, who) \in Kept'
    BY <2>1, <2>3, <2>4 DEF HasPushed
  <2> QED
    BY <2>5 DEF AckInv, Kept
<1>3. CASE UNCHANGED vars
  BY <1>3 DEF vars, session, turn, history, AckInv, HasPushed
<1> QED
  BY <1>1, <1>2, <1>3, NextIs

\* Whoever was told that the turn is done has both its messages in the history,
\* unless the cap, a deletion or an expiry took them out.
THEOREM AcknowledgedStaysRecorded == Spec => []AcknowledgedRecorded
<1>1. AckInv => AcknowledgedRecorded
  BY DEF AckInv, AcknowledgedRecorded
<1> QED
  BY <1>1, InitHolds, BoundStep, OrderStep, AckStep, TypeCorrect, PTL DEF Spec

-----------------------------------------------------------------------------
(***************************************************************************)
(* A session that went comes back only through a turn that knew it.        *)
(***************************************************************************)
LEMMA ResurrectStep == TypeOK /\ ResurrectInv /\ [Next]_vars => ResurrectInv'
<1> SUFFICES ASSUME TypeOK, ResurrectInv, [Next]_vars, ~header' PROVE ResurrectInv'
  BY DEF ResurrectInv
<1>1. ASSUME NEW t \in Turns, Turning(t) PROVE ResurrectInv'
  <2>1. ~Write(t)
    BY DEF Write
  <2>2. ~header
    BY <1>1, <2>1, TurnSteps DEF Quits, Answers, Passes, Measures, Moves, Quiet, session, Push
  <2>3. unseen' = unseen
    BY <1>1, <2>1, TurnSteps DEF Quits, Answers, Passes, Measures, Moves, Quiet, session, history, Push
  <2>4. pc'[t] \in {"llen", "write"} => pc[t] \in {"llen", "write"}
    <3>1. Push(t) => pc'[t] = "reread"
      BY DEF Push, Goto, TypeOK
    <3> QED
      BY <1>1, <2>1, <2>2, <3>1, TurnSteps DEF Quits, Answers, Passes, Measures, Moves
  <2>5. \A q \in Turns \ {t} : pc'[q] = pc[q]
    BY <1>1, OthersStay
  <2> QED
    BY <2>2, <2>3, <2>4, <2>5 DEF ResurrectInv
<1>2. CASE Losing
  <2>1. UNCHANGED pc
    BY <1>2 DEF Losing, Delete, ExpireInMemory, ExpireList, ExpireEntry, turn
  <2>2. \/ unseen' = unseen /\ header' = header
        \/ unseen' = unseen \cup {t \in Turns : pc[t] \in {"llen", "write"}}
    BY <1>2 DEF Losing, Delete, ExpireInMemory, ExpireList, ExpireEntry, LoseHeader
  <2> QED
    BY <2>1, <2>2 DEF ResurrectInv
<1>3. CASE UNCHANGED vars
  BY <1>3 DEF vars, session, turn, history, ResurrectInv
<1> QED
  BY <1>1, <1>2, <1>3, NextIs

\* Only a turn that had already looked the session up again brings it back.
THEOREM NothingResurrected == Spec => NoResurrection
<1>1. TypeOK /\ ResurrectInv /\ [Next]_vars => [~header /\ header' => \E t \in unseen : pc[t] = "write"]_vars
  <2> SUFFICES ASSUME TypeOK, ResurrectInv, [Next]_vars, ~header, header'
               PROVE  \E t \in unseen : pc[t] = "write"
    OBVIOUS
  <2>1. ASSUME NEW t \in Turns, Turning(t) PROVE Write(t)
    BY <2>1, TurnSteps DEF Quits, Answers, Passes, Measures, Moves, Quiet, session, Push
  <2>2. ~Losing
    BY DEF Losing, Delete, ExpireInMemory, ExpireList, ExpireEntry, LoseHeader
  <2>3. header' # header
    OBVIOUS
  <2>4. PICK t \in Turns : Write(t)
    BY <2>1, <2>2, <2>3, NextIs DEF vars, session
  <2> QED
    BY <2>4 DEF Write, ResurrectInv
<1> QED
  BY <1>1, InitHolds, ResurrectStep, TypeCorrect, PTL DEF Spec, NoResurrection

-----------------------------------------------------------------------------
(***************************************************************************)
(* The list and its entry agree.                                           *)
(***************************************************************************)
\* What a turn outside an exchange knows of the session.
LEMMA Outside ==
    ASSUME TypeOK, NEW t \in Turns, pc[t] \notin Appending
    PROVE  ~Half(t) /\ Room(t)
BY DEF Half, Room, Appending

LEMMA ExactTurn ==
    ASSUME TypeOK, BoundInv, OrderInv, AloneInv, ExactInv, ~disturbed', ~disturbed,
           NEW t \in Turns, Turning(t)
    PROVE  ExactInv'
<1>n. /\ messages \in Seq(Messages) /\ Len(messages) \in Nat /\ count \in Nat
      /\ MaxMessages \in Nat /\ backend \in {"memory", "redis"}
      /\ role[t] \in {"user", "assistant"} /\ header \in BOOLEAN
  BY MaxMessagesAssumption, LenProperties DEF TypeOK
<1>e. Len(<<>>) = 0 /\ ToSet(<<>>) = {}
  BY EmptySeq DEF ToSet
<1>i. /\ trimmed = {}
      /\ ~header => messages = <<>> /\ Quietly
      /\ Quietly => AtRest
      /\ \A q \in Turns : Told(q) /\ Room(q)
  BY DEF ExactInv
<1>o. \A q \in Turns \ {t} :
         /\ pc'[q] = pc[q] /\ role'[q] = role[q] /\ text'[q] = text[q] /\ counted'[q] = counted[q]
         /\ Half(q)' <=> Half(q)
  BY OthersStay DEF Half
\* While the turn is in its exchange, the session is there and the others are not.
<1>p. pc[t] \in Appending => header /\ \A q \in Turns \ {t} : pc[q] \notin Appending /\ ~Half(q)
  BY <1>i, Outside DEF AloneInv, Quietly
<1>q. ASSUME pc[t] \in Appending PROVE \A q \in Turns \ {t} : Room(q)'
  BY <1>o, <1>p, <1>q DEF Room, Appending
\* A turn ends or goes on without a word to the session.
<1>s. ASSUME UNCHANGED <<backend, session, trimmed>>, pc[t] \notin Appending, pc'[t] \notin Appending
      PROVE  /\ Quietly' <=> Quietly
             /\ AtRest' <=> AtRest
             /\ \A q \in Turns : Room(q)'
             /\ \A q \in Turns \ {t} : Told(q)'
  <2>1. Quietly' <=> Quietly
    BY <1>o, <1>s DEF Quietly
  <2>2. AtRest' <=> AtRest
    BY <1>s DEF AtRest, session
  <2>3. \A q \in Turns \ {t} : Room(q)' /\ Told(q)'
    BY <1>i, <1>o, <1>s, <2>2 DEF Room, Told, session
  <2>4. Room(t)'
    BY <1>s DEF Room, Appending
  <2> QED
    BY <2>1, <2>2, <2>3, <2>4
<1>1. CASE Quits(t)
  <2>1. /\ UNCHANGED <<backend, session, trimmed, role, text, counted>> /\ pc'[t] = "end"
    BY <1>1 DEF Quits, Quiet
  <2>2. CASE pc[t] \notin Appending
    <3>1. pc'[t] \notin Appending
      BY <2>1 DEF Appending
    <3>2. Told(t)'
      BY <1>i, <2>1, <2>2, Outside DEF Told, session
    <3> QED
      BY <1>i, <1>s, <2>1, <2>2, <3>1, <3>2 DEF ExactInv, session
  <2>3. CASE pc[t] \in Appending
    <3>1. ~HalfDone(t) \/ (pc[t] = "exists" /\ text[t] = "empty")
      BY <1>1, <1>p, <2>3 DEF Quits
    <3>2. pc[t] \in {"exists", "push"} /\ (role[t] = "assistant" => text[t] = "empty")
      BY <1>n, <2>3, <3>1 DEF HalfDone, Appending
    <3>3. AtRest
      BY <1>i, <1>n, <3>2 DEF Room, AtRest
    <3>4. AtRest'
      BY <2>1, <3>3 DEF AtRest, session
    <3>5. Told(t)'
      BY <1>i, <2>1, <3>2 DEF Told, Half, session
    <3>6. \A q \in Turns \ {t} : Told(q)'
      BY <1>i, <1>o, <2>1 DEF Told, session
    <3>7. Room(t)'
      BY <2>1 DEF Room
    <3> QED
      BY <1>i, <1>p, <1>q, <2>1, <2>3, <3>4, <3>5, <3>6, <3>7 DEF ExactInv, session
  <2> QED
    BY <2>2, <2>3
<1>2. CASE Moves(t, "idle", "asking")
  <2>1. /\ UNCHANGED <<backend, session, trimmed, role, text>>
        /\ pc[t] \notin Appending /\ pc'[t] \notin Appending
    BY <1>2 DEF Moves, Quiet, Appending
  <2>2. Told(t)'
    BY <1>i, <2>1, Outside DEF Told, session
  <2> QED
    BY <1>i, <1>s, <2>1, <2>2 DEF ExactInv, session
<1>3. CASE Answers(t)
  <2>1. /\ pc[t] = "asking" /\ pc[t] \notin Appending /\ pc'[t] \notin Appending
        /\ UNCHANGED <<backend, header, newer, trimmed>>
    BY <1>3 DEF Answers, history, Appending
  <2>2. Message(t, "user") \notin ToSet(messages)
    BY <2>1 DEF OrderInv, MayStore
  <2>3. CASE UNCHANGED <<count, messages>>
    <3>1. Told(t)'
      BY <2>2, <2>3 DEF Told
    <3> QED
      BY <1>i, <1>s, <2>1, <2>3, <3>1 DEF ExactInv, session
  <2>4. CASE ~UNCHANGED <<count, messages>>
    <3>1. PICK answer \in {"text", "empty"} :
             /\ backend = "memory" /\ header /\ messages' = messages \o Exchange(t, answer)
             /\ count' = Len(messages') /\ text' = [text EXCEPT ![t] = answer]
      BY <1>3, <2>4 DEF Answers
    <3>2. Quietly /\ Quietly' /\ newer = "header"
      BY <1>o, <2>1, <3>1 DEF BoundInv, Quietly, Appending
    <3>3. AtRest'
      BY <2>1, <3>1, <3>2 DEF AtRest
    <3>4. \A q \in Turns : Room(q)'
      BY <3>2 DEF Quietly, Room, Appending
    <3>5. ToSet(messages') = ToSet(messages) \cup {Message(t, "user")}
                               \cup (IF answer = "text" THEN {Message(t, "assistant")} ELSE {})
      <4>1. messages' = messages \o Exchange(t, answer)
        BY <3>1
      <4> QED
        BY <4>1, Recorded
    <3>6. Told(t)'
      BY <3>1, <3>5 DEF Told, TypeOK
    <3>7. \A q \in Turns \ {t} : Told(q)'
      <4> TAKE q \in Turns \ {t}
      <4>1. Message(q, "user") \in ToSet(messages') => Message(q, "user") \in ToSet(messages)
        BY <3>5, MessageOK
      <4> QED
        BY <1>i, <1>o, <3>5, <4>1 DEF Told
    <3> QED
      BY <1>i, <2>1, <3>1, <3>2, <3>3, <3>4, <3>6, <3>7 DEF ExactInv
  <2> QED
    BY <2>3, <2>4
<1>4. CASE Passes(t)
  <2>1. /\ UNCHANGED <<backend, session, trimmed, role, text>> /\ header /\ Fits /\ Quietly
        /\ pc[t] = "require" /\ pc'[t] = "exists"
    BY <1>4 DEF Passes, Moves, Quiet, Quietly
  <2>2. role[t] = "user" /\ AtRest /\ AtRest'
    BY <1>i, <2>1 DEF OrderInv, AtRest, session
  <2>3. Len(messages) + 2 <= MaxMessages
    BY <1>n, <1>e, <2>1, <2>2, MaxMessagesAssumption DEF Fits, AtRest
  <2>4. Room(t)'
    BY <2>1, <2>2, <2>3 DEF Room, session
  <2>5. \A q \in Turns \ {t} : Room(q)' /\ Told(q)'
    BY <1>i, <1>o, <2>1, <2>2 DEF Room, Told, session
  <2>6. Told(t)' /\ ~Quietly'
    BY <1>i, <2>1 DEF Told, Half, Quietly, Appending, session
  <2> QED
    BY <1>i, <2>1, <2>4, <2>5, <2>6 DEF ExactInv, session
<1>5. ASSUME Moves(t, "exists", "push") \/ Moves(t, "reread", "llen"), UNCHANGED counted PROVE ExactInv'
  <2>1. /\ UNCHANGED <<backend, session, trimmed, role, text, counted>>
        /\ pc[t] \in Appending /\ pc'[t] \in Appending
        /\ (pc[t] = "exists" /\ pc'[t] = "push") \/ (pc[t] = "reread" /\ pc'[t] = "llen")
    BY <1>5 DEF Moves, Quiet, Appending
  <2>2. AtRest' <=> AtRest
    BY <2>1 DEF AtRest, session
  <2>3. Room(t)' /\ Told(t)'
    BY <1>i, <2>1, <2>2 DEF Room, Told, Half, session
  <2>4. \A q \in Turns \ {t} : Told(q)'
    BY <1>i, <1>o, <2>1 DEF Told, session
  <2> QED
    BY <1>i, <1>p, <1>q, <2>1, <2>3, <2>4 DEF ExactInv, Quietly, session
<1>6. CASE Push(t)
  <2>1. /\ UNCHANGED <<backend, header, count, role, text, counted>> /\ newer' = "list"
        /\ pc[t] = "push" /\ pc'[t] = "reread" /\ pc[t] \in Appending /\ pc'[t] \in Appending
    BY <1>6 DEF Push, Goto, Appending, TypeOK
  <2>2. Len(messages) + 1 <= MaxMessages /\ (role[t] = "user" => Len(messages) + 2 <= MaxMessages)
    BY <1>i, <1>n, <2>1 DEF Room
  <2>3. /\ trimmed' = trimmed /\ Len(messages') = Len(messages) + 1
        /\ ToSet(messages') \subseteq ToSet(messages) \cup {Message(t, role[t])}
        /\ ToSet(messages) \cup {Message(t, role[t])} \subseteq ToSet(messages')
    <3>1. /\ trimmed' = trimmed /\ Len(messages') = Len(messages) + 1
          /\ ToSet(messages') \subseteq ToSet(messages) \cup {Message(t, role[t])}
          /\ ToSet(messages) \cup {Message(t, role[t])} \subseteq ToSet(messages') \cup trimmed'
      BY <1>6, <2>2, Pushed
    <3> QED
      BY <1>i, <3>1
  <2>4. Room(t)'
    BY <1>n, <2>1, <2>2, <2>3 DEF Room
  <2>5. Told(t)'
    BY <1>n, <2>1, <2>3 DEF Told, Half
  <2>6. \A q \in Turns \ {t} : Told(q)'
    <3> TAKE q \in Turns \ {t}
    <3>1. Message(q, "user") \in ToSet(messages') => Message(q, "user") \in ToSet(messages)
      BY <1>n, <2>3, MessageOK
    <3> QED
      BY <1>i, <1>o, <2>3, <3>1 DEF Told
  <2> QED
    BY <1>i, <1>p, <1>q, <2>1, <2>3, <2>4, <2>5, <2>6 DEF ExactInv, Quietly
<1>7. CASE Measures(t)
  <2>1. /\ UNCHANGED <<backend, session, trimmed, role, text>>
        /\ pc[t] = "llen" /\ pc'[t] = "write" /\ counted'[t] = Len(messages)
        /\ pc[t] \in Appending /\ pc'[t] \in Appending
    BY <1>7 DEF Measures, Moves, Quiet, Appending, TypeOK
  <2>2. Room(t)' /\ Told(t)'
    BY <1>i, <2>1 DEF Room, Told, Half, session
  <2>3. \A q \in Turns \ {t} : Told(q)'
    BY <1>i, <1>o, <2>1 DEF Told, session
  <2> QED
    BY <1>i, <1>p, <1>q, <2>1, <2>2, <2>3 DEF ExactInv, Quietly, session
<1>8. CASE Write(t)
  <2>1. /\ UNCHANGED <<backend, messages, text, counted, trimmed>> /\ pc[t] = "write" /\ pc[t] \in Appending
        /\ header' = TRUE /\ count' = counted[t] /\ newer' = "header"
        /\ IF role[t] = "user" THEN pc'[t] = "exists" /\ role'[t] = "assistant" ELSE pc'[t] = "end"
    BY <1>8 DEF Write, Finish, End, Goto, Appending, TypeOK
  <2>2. count' = Len(messages) /\ (role[t] = "user" => Len(messages) + 1 <= MaxMessages)
    BY <1>i, <2>1 DEF Room
  <2>3. AtRest'
    BY <2>1, <2>2 DEF AtRest
  <2>4. Room(t)'
    BY <2>1, <2>2 DEF Room
  <2>5. Told(t)'
    BY <1>i, <1>n, <2>1 DEF Told, Half
  <2>6. \A q \in Turns \ {t} : Told(q)'
    BY <1>i, <1>o, <2>1 DEF Told
  <2> QED
    BY <1>i, <1>q, <2>1, <2>3, <2>4, <2>5, <2>6 DEF ExactInv
<1> QED
  BY <1>1, <1>2, <1>3, <1>4, <1>5, <1>6, <1>7, <1>8, TurnSteps

LEMMA ExactStep == TypeOK /\ BoundInv /\ OrderInv /\ AloneInv /\ ExactInv /\ [Next]_vars => ExactInv'
<1> SUFFICES ASSUME TypeOK, BoundInv, OrderInv, AloneInv, ExactInv, [Next]_vars, ~disturbed' PROVE ExactInv'
  BY DEF ExactInv
<1>0. ~disturbed
  BY Undisturbed
<1>i. /\ trimmed = {}
      /\ Quietly => AtRest
      /\ ~header => messages = <<>> /\ Quietly
      /\ \A q \in Turns : Told(q) /\ Room(q)
  BY <1>0 DEF ExactInv
<1>e. ToSet(<<>>) = {}
  BY EmptySeq DEF ToSet
<1>1. ASSUME NEW t \in Turns, Turning(t) PROVE ExactInv'
  BY <1>0, <1>1, ExactTurn
<1>2. CASE Losing
  <2>1. Quietly /\ Quietly' /\ AtRest
    BY <1>2, <1>i, Undisturbed
  <2>2. UNCHANGED <<backend, newer, trimmed, pc, role, text>>
    BY <1>2 DEF Losing, Delete, ExpireInMemory, ExpireList, ExpireEntry, turn
  <2>3. messages' = <<>>
    BY <1>2, <2>1 DEF Losing, Delete, ExpireInMemory, ExpireList, ExpireEntry, LoseMessages, AtRest
  <2>4. header' => backend = "redis"
    BY <1>2 DEF Losing, Delete, ExpireInMemory, ExpireList, ExpireEntry, LoseHeader
  <2>5. AtRest'
    BY <2>2, <2>3, <2>4 DEF AtRest
  <2>6. \A q \in Turns : Told(q)' /\ Room(q)'
    BY <1>e, <2>1, <2>3 DEF Told, Room, Quietly, Appending
  <2> QED
    BY <1>i, <2>1, <2>2, <2>3, <2>5, <2>6 DEF ExactInv
<1>3. CASE UNCHANGED vars
  BY <1>3, <1>i DEF vars, session, turn, history, ExactInv, AtRest, Quietly, Told, Room, Half
<1> QED
  BY <1>1, <1>2, <1>3, NextIs

\* Between exchanges that were not disturbed the count is the length of the
\* list, the cap dropped nothing, nothing is left of a session that went, and
\* every question that was answered has its answer.
THEOREM UndisturbedStaysExact == Spec => []UndisturbedExact
<1>1. TypeOK /\ OrderInv /\ ExactInv => UndisturbedExact
  <2> SUFFICES ASSUME TypeOK, OrderInv, ExactInv, ~disturbed, \A t \in Turns : pc[t] \notin Appending
               PROVE  /\ header => count = Len(messages) \/ (backend = "redis" /\ messages = <<>>)
                      /\ trimmed = {}
                      /\ ~header => messages = <<>>
                      /\ \A t \in Turns :
                            text[t] # "empty" /\ Message(t, "user") \in ToSet(messages)
                                => Message(t, "assistant") \in ToSet(messages)
    BY DEF UndisturbedExact
  <2>1. AtRest /\ trimmed = {} /\ (~header => messages = <<>>) /\ \A t \in Turns : Told(t)
    BY DEF ExactInv, Quietly
  <2>2. ASSUME NEW t \in Turns, text[t] # "empty", Message(t, "user") \in ToSet(messages)
        PROVE  Message(t, "assistant") \in ToSet(messages)
    <3>1. text[t] = "text"
      BY <2>2 DEF OrderInv, TypeOK
    <3>2. ~Half(t)
      BY Outside
    <3> QED
      BY <2>1, <2>2, <3>1, <3>2 DEF Told
  <2> QED
    BY <2>1, <2>2 DEF AtRest
<1> QED
  BY <1>1, InitHolds, BoundStep, OrderStep, AloneStep, ExactStep, TypeCorrect, PTL DEF Spec
=============================================================================
