----------------------------- MODULE LoRaProofs -----------------------------
(***************************************************************************)
(* Proofs about LoRaDriver, for every size of ring and buffer, every list  *)
(* of RF settings, and any number of commands, payloads and packets.       *)
(***************************************************************************)
EXTENDS LoRaDriver, FiniteSetTheorems, TLAPS

-----------------------------------------------------------------------------
(* Packets in a sequence of tokens. *)

LEMMA HeldIs ==
  ASSUME NEW s \in Seq(Tokens)
  PROVE  IsFiniteSet(Places(s)) /\ Held(s) \in Nat
  <1>1. Len(s) \in Nat
    OBVIOUS
  <1>2. IsFiniteSet(1 .. Len(s))
    BY <1>1, FS_Interval
  <1>3. Places(s) \in SUBSET (1 .. Len(s))
    BY DEF Places
  <1>4. IsFiniteSet(Places(s))
    BY <1>2, <1>3, FS_Subset
  <1> QED BY <1>4, FS_CardinalityType DEF Held

LEMMA HeldNone ==
  ASSUME NEW s \in Seq(Tokens), \A k \in 1 .. Len(s) : s[k] # "fields"
  PROVE  Held(s) = 0
  <1>1. Places(s) = {}
    BY DEF Places
  <1> QED BY <1>1, FS_EmptySet DEF Held

LEMMA HeldSome ==
  ASSUME NEW s \in Seq(Tokens), NEW k \in 1 .. Len(s), s[k] = "fields"
  PROVE  Held(s) >= 1
  <1>1. Places(s) # {}
    BY DEF Places
  <1>2. Held(s) # 0
    BY <1>1, HeldIs, FS_EmptySet DEF Held
  <1> QED BY <1>2, HeldIs

LEMMA HeldAppend ==
  ASSUME NEW s \in Seq(Tokens), NEW e \in Tokens
  PROVE  Held(Append(s, e)) = Held(s) + (IF e = "fields" THEN 1 ELSE 0)
  <1>1. /\ Len(Append(s, e)) = Len(s) + 1 /\ Len(s) \in Nat
        /\ Append(s, e)[Len(s) + 1] = e
        /\ \A k \in 1 .. Len(s) : Append(s, e)[k] = s[k]
    OBVIOUS
  <1>2. Places(Append(s, e)) = IF e = "fields" THEN Places(s) \cup {Len(s) + 1} ELSE Places(s)
    BY <1>1 DEF Places
  <1>3. Len(s) + 1 \notin Places(s)
    BY <1>1 DEF Places
  <1>4. Cardinality(Places(s) \cup {Len(s) + 1}) = Cardinality(Places(s)) + 1
    BY <1>3, HeldIs, FS_AddElement
  <1>5. CASE e = "fields"
    BY <1>2, <1>4, <1>5 DEF Held
  <1>6. CASE e # "fields"
    BY <1>2, <1>6, HeldIs DEF Held
  <1> QED BY <1>5, <1>6

LEMMA HeldTail ==
  ASSUME NEW s \in Seq(Tokens), s # <<>>
  PROVE  Held(Tail(s)) + (IF Head(s) = "fields" THEN 1 ELSE 0) <= Held(s)
  <1>1. /\ Tail(s) \in Seq(Tokens) /\ Len(Tail(s)) = Len(s) - 1 /\ Len(s) \in Nat \ {0}
        /\ Head(s) = s[1]
        /\ \A k \in 1 .. Len(Tail(s)) : Tail(s)[k] = s[k + 1]
    OBVIOUS
  <1> DEFINE rest == Places(s) \ {1}
             next == [k \in Places(Tail(s)) |-> k + 1]
  <1>2. \A k \in Places(Tail(s)) : k \in Nat \ {0} /\ k + 1 \in rest
    BY <1>1 DEF Places
  <1>3. next \in Injection(Places(Tail(s)), rest)
    BY <1>2 DEF Injection, IsInjective
  <1>4. IsFiniteSet(rest) /\ Cardinality(rest) = IF 1 \in Places(s) THEN Held(s) - 1 ELSE Held(s)
    BY HeldIs, FS_RemoveElement DEF Held
  <1>5. Held(Tail(s)) <= Cardinality(rest)
    <2> HIDE DEF next, rest
    <2> QED BY <1>3, <1>4, FS_Injection DEF Held
  <1>6. 1 \in Places(s) <=> Head(s) = "fields"
    BY <1>1 DEF Places
  <1> HIDE DEF rest
  <1>7. Held(s) \in Nat /\ Held(Tail(s)) \in Nat
    BY <1>1, HeldIs
  <1> QED BY <1>4, <1>5, <1>6, <1>7

-----------------------------------------------------------------------------
LEMMA InitIInv == Init => IInv
  <1> SUFFICES ASSUME Init PROVE IInv
    OBVIOUS
  <1>1. TypeOK
    <2>1. job \in [kind : {"none", "init", "cmd", "data"}, todo : Seq(Commands),
                   tries : 0 .. Retries]
      BY CapacityAssumption DEF Init, NoJob
    <2>2. /\ <<>> \in Seq(Tokens \ {"LF"}) /\ <<>> \in Seq(Tokens) /\ <<>> \in Seq(Commands)
          /\ Len(<<>>) = 0
      OBVIOUS
    <2>3. /\ m_atBuf \in Seq(Tokens \ {"LF"}) /\ Len(m_atBuf) <= AtBufCapacity
          /\ rx \in Seq(Tokens) /\ Len(rx) <= RingCapacity /\ line \in Seq(Tokens)
          /\ pend \in Seq(Commands) /\ Len(pend) <= MaxPending /\ air \in Seq(Tokens)
      BY <2>2, CapacityAssumption DEF Init
    <2>4. garbled \in BOOLEAN /\ synced \in BOOLEAN /\ quiet \in BOOLEAN
      BY DEF Init
    <2>5. /\ m_state \in {"UNINIT", "READY", "ERROR"}
          /\ m_txCount \in Nat /\ m_txErrors \in Nat /\ m_rxCount \in Nat
          /\ pc \in {"idle", "send", "wait", "poll"} /\ drained \in 0 .. DrainLimit
          /\ radio \subseteq Setting
          /\ result \in {"none", "ok", "fail"} /\ verdict \in {"none", "OK", "ERR"}
          /\ calls \in Nat /\ accepted \in Nat /\ downlinks \in Nat /\ packets \in Nat
      BY CapacityAssumption DEF Init
    <2> QED BY <2>1, <2>3, <2>4, <2>5, Zenon DEF TypeOK
  <1>2. JobInv /\ EveryPayloadCountedOnce
    <2>1. job.kind = "none" /\ pc = "idle" /\ m_txCount = 0 /\ m_txErrors = 0 /\ accepted = 0
      BY DEF Init, NoJob
    <2> QED BY <2>1 DEF JobInv, EveryPayloadCountedOnce
  <1>3. m_atBuf \in Seq(Tokens) /\ rx \in Seq(Tokens) /\ air \in Seq(Tokens)
    BY DEF Init
  <1>4. Held(m_atBuf) = 0 /\ Held(rx) = 0 /\ Held(air) = 0
    <2>1. Held(<<>>) = 0
      <3>1. <<>> \in Seq(Tokens) /\ \A k \in 1 .. Len(<<>>) : <<>>[k] # "fields"
        OBVIOUS
      <3> QED BY <3>1, HeldNone
    <2> QED BY <2>1 DEF Init
  <1>5. PacketInv
    BY <1>4 DEF Init, PacketInv
  <1>6. SyncedAckIsHonest /\ SyncInv
    BY DEF Init, SyncedAckIsHonest, SyncInv
  <1> QED BY <1>1, <1>2, <1>5, <1>6 DEF IInv

(* The types the steps below use again and again. *)
LEMMA Types ==
  ASSUME TypeOK
  PROVE  /\ m_atBuf \in Seq(Tokens) /\ rx \in Seq(Tokens) /\ air \in Seq(Tokens)
         /\ Held(m_atBuf) \in Nat /\ Held(rx) \in Nat /\ Held(air) \in Nat
         /\ m_rxCount \in Nat /\ packets \in Nat
         /\ RingCapacity \in Nat \ {0} /\ AtBufCapacity \in Nat \ {0}
  <1>1. \A s : s \in Seq(Tokens \ {"LF"}) => s \in Seq(Tokens)
    OBVIOUS
  <1>2. m_atBuf \in Seq(Tokens) /\ rx \in Seq(Tokens) /\ air \in Seq(Tokens)
    BY <1>1 DEF TypeOK
  <1> QED BY <1>2, HeldIs, CapacityAssumption DEF TypeOK

(* What PacketInv says, with the numbers in it. *)
LEMMA PacketSum ==
  ASSUME IInv
  PROVE  /\ m_rxCount + Held(m_atBuf) + Held(rx) + Held(air) <= packets
         /\ Held(m_atBuf) \in Nat /\ Held(rx) \in Nat /\ Held(air) \in Nat
         /\ m_rxCount \in Nat /\ packets \in Nat
  BY Types DEF IInv, PacketInv

LEMMA CommandsAre ==
  /\ "AT" \in Commands /\ "RESET" \in Commands /\ "SEND" \in Commands
  /\ "GARBAGE" \in Commands /\ InitCommands \in Seq(Commands) /\ InitCommands # <<>>
  /\ UserCommands \subseteq Commands
  <1>1. /\ "AT" \in Commands /\ "RESET" \in Commands /\ "SEND" \in Commands
        /\ "GARBAGE" \in Commands /\ UserCommands \subseteq Commands
    BY CapacityAssumption DEF Commands
  <1>2. RfSettings \in Seq(Commands)
    <2>1. \A i \in 1 .. Len(RfSettings) : RfSettings[i] \in Commands
      BY DEF Commands, Setting
    <2> QED BY <2>1, CapacityAssumption
  <1>3. <<"AT", "RESET">> \in Seq(Commands) /\ Len(<<"AT", "RESET">>) = 2
    BY <1>1
  <1>4. InitCommands \in Seq(Commands) /\ Len(InitCommands) = 2 + Len(RfSettings)
        /\ Len(RfSettings) \in Nat
    BY <1>2, <1>3 DEF InitCommands
  <1> QED BY <1>1, <1>4

(* An exchange that ends leaves the handler with another one, or with none *)
(* and its payload counted.                                                *)
LEMMA ConcludeStep ==
  ASSUME TypeOK, JobInv, EveryPayloadCountedOnce,
         pc \in {"send", "wait"}, NEW ok \in BOOLEAN, Conclude(ok), accepted' = accepted
  PROVE  /\ m_state' \in {"UNINIT", "READY", "ERROR"}
         /\ m_txCount' \in Nat /\ m_txErrors' \in Nat
         /\ pc' \in {"idle", "send", "wait", "poll"}
         /\ job' \in [kind : {"none", "init", "cmd", "data"}, todo : Seq(Commands),
                      tries : 0 .. Retries]
         /\ result' \in {"none", "ok", "fail"}
         /\ JobInv' /\ EveryPayloadCountedOnce'
  <1> DEFINE more == job.kind = "init" /\ ok /\ Len(job.todo) > 1
             again == job.kind = "init" /\ ~ ok /\ Head(job.todo) = "AT" /\ job.tries > 1
             Jobs == [kind : {"none", "init", "cmd", "data"}, todo : Seq(Commands),
                      tries : 0 .. Retries]
  <1>1. /\ job \in Jobs /\ job.kind \in {"init", "cmd", "data"} /\ job.todo # <<>>
        /\ Retries \in Nat /\ ~ (more /\ again)
    BY CapacityAssumption DEF TypeOK, JobInv
  <1>2. /\ pc' = IF more \/ again THEN "send" ELSE "idle"
        /\ job' = CASE more  -> [job EXCEPT !.todo = Tail(@)]
                    [] again -> [job EXCEPT !.tries = @ - 1]
                    [] OTHER -> NoJob
    BY DEF Conclude
  <1>3. /\ m_txCount' = m_txCount + (IF job.kind = "data" /\ ok THEN 1 ELSE 0)
        /\ m_txErrors' = m_txErrors + (IF job.kind = "data" /\ ~ ok THEN 1 ELSE 0)
        /\ m_txCount \in Nat /\ m_txErrors \in Nat /\ accepted \in Nat
    BY DEF Conclude, TypeOK
  <1>4. /\ m_state' \in {"UNINIT", "READY", "ERROR"} /\ result' \in {"ok", "fail"}
        /\ m_txCount' \in Nat /\ m_txErrors' \in Nat
    <2>1. m_txCount' \in Nat /\ m_txErrors' \in Nat
      BY ONLY <1>3
    <2>2. m_state \in {"UNINIT", "READY", "ERROR"}
      BY DEF TypeOK
    <2>3. m_state' \in {"UNINIT", "READY", "ERROR"} /\ result' \in {"ok", "fail"}
      BY <2>2 DEF Conclude
    <2> QED BY <2>1, <2>3
  <1>5. CASE more
    <2>1. job' = [job EXCEPT !.todo = Tail(@)] /\ pc' = "send"
      BY <1>1, <1>2, <1>5
    <2>2. Tail(job.todo) \in Seq(Commands) /\ Tail(job.todo) # <<>>
      BY <1>1, <1>5
    <2>3. job' \in Jobs /\ job'.kind = "init" /\ job'.todo # <<>>
      BY <1>1, <1>5, <2>1, <2>2
    <2> QED BY <1>3, <1>4, <1>5, <2>1, <2>3 DEF JobInv, EveryPayloadCountedOnce
  <1>6. CASE again
    <2>1. job' = [job EXCEPT !.tries = @ - 1] /\ pc' = "send"
      BY <1>1, <1>2, <1>6
    <2>2. job.tries - 1 \in 0 .. Retries
      BY <1>1, <1>6
    <2>3. job' \in Jobs /\ job'.kind = "init" /\ job'.todo # <<>>
      BY <1>1, <1>6, <2>1, <2>2
    <2> QED BY <1>3, <1>4, <1>6, <2>1, <2>3 DEF JobInv, EveryPayloadCountedOnce
  <1>7. CASE ~ more /\ ~ again
    <2>1. job' = NoJob /\ pc' = "idle"
      BY <1>2, <1>7
    <2>2. job' \in Jobs /\ job'.kind = "none"
      BY <1>1, <2>1 DEF NoJob
    <2>3. m_txCount' + m_txErrors' = accepted'
      BY <1>3 DEF EveryPayloadCountedOnce
    <2> QED BY <1>4, <2>1, <2>2, <2>3, <1>3 DEF JobInv, EveryPayloadCountedOnce
  <1> QED BY <1>5, <1>6, <1>7
-----------------------------------------------------------------------------
(* The module and the line from it. *)

(* A sequence of tokens without the fields of a packet. *)
Silent(s) == s \in Seq(Tokens) /\ \A k \in 1 .. Len(s) : s[k] # "fields"

LEMMA AnswerSilent ==
  ASSUME NEW e \in Answers
  PROVE  Silent(Lf(<<e>>))
  <1>1. e \in Tokens /\ "LF" \in Tokens /\ e # "fields"
    BY DEF Tokens, Answers
  <1>2. /\ <<e>> \in Seq(Tokens) /\ Len(<<e>>) = 1 /\ <<e>>[1] = e
    BY <1>1
  <1>3. Append(<<e>>, "LF") \in Seq(Tokens) /\ Len(Append(<<e>>, "LF")) = 2
        /\ Append(<<e>>, "LF")[1] = e /\ Append(<<e>>, "LF")[2] = "LF"
    BY <1>1, <1>2
  <1>4. \A k \in 1 .. 2 : k = 1 \/ k = 2
    OBVIOUS
  <1> QED BY <1>1, <1>3, <1>4 DEF Lf, Silent

LEMMA RefusalIs == Refusal(Lf(<<"ERR">>))
  <1>1. <<"ERR">> \in Seq({"ERR"}) /\ Len(<<"ERR">>) = 1 /\ <<"ERR">>[1] = "ERR"
    OBVIOUS
  <1>2. /\ Len(Append(<<"ERR">>, "LF")) = 2
        /\ Append(<<"ERR">>, "LF")[1] = "ERR" /\ Append(<<"ERR">>, "LF")[2] = "LF"
    BY <1>1
  <1> QED BY <1>1, <1>2 DEF Lf, Refusal

LEMMA BothSilent ==
  ASSUME NEW s, NEW t, Silent(s), Silent(t)
  PROVE  Silent(s \o t)
  <1>1. s \o t \in Seq(Tokens) /\ Len(s \o t) = Len(s) + Len(t)
        /\ Len(s) \in Nat /\ Len(t) \in Nat
    BY DEF Silent
  <1>2. \A k \in 1 .. Len(s) + Len(t) :
          (s \o t)[k] = IF k <= Len(s) THEN s[k] ELSE t[k - Len(s)]
    BY <1>1 DEF Silent
  <1> QED BY <1>1, <1>2 DEF Silent

LEMMA ModuleAnswersStep ==
  ASSUME IInv, NEW ok \in BOOLEAN, ModuleAnswers(ok)
  PROVE  IInv'
  <1> USE DEF ModuleAnswers, driverVars, countVars
  <1>1. pend \in Seq(Commands) /\ pend # <<>> /\ Len(pend) <= MaxPending /\ MaxPending \in Nat
    BY CapacityAssumption DEF IInv, TypeOK
  <1>2. pend' \in Seq(Commands) /\ Len(pend') <= MaxPending /\ Head(pend) \in Commands
    BY <1>1
  <1>3. pend' = Tail(pend)
    OBVIOUS
  <1>4. air' \in Seq(Tokens) /\ \A k \in 1 .. Len(air') : air'[k] # "fields"
    <2>1. \/ air' = Lf(<<"ERR">>) \/ air' = Lf(<<"OK">>)
          \/ air' = Lf(<<"RESET">>) \o Lf(<<"READY">>)
      OBVIOUS
    <2>2. "ERR" \in Answers /\ "OK" \in Answers /\ "RESET" \in Answers /\ "READY" \in Answers
      BY DEF Answers
    <2>3. /\ Silent(Lf(<<"ERR">>)) /\ Silent(Lf(<<"OK">>))
          /\ Silent(Lf(<<"RESET">>)) /\ Silent(Lf(<<"READY">>))
      BY <2>2, AnswerSilent
    <2>4. Silent(Lf(<<"RESET">>) \o Lf(<<"READY">>))
      BY <2>3, BothSilent
    <2>5. Silent(air')
      BY <2>1, <2>3, <2>4
    <2> QED BY <2>5 DEF Silent
  <1>5. radio' \subseteq Setting
    BY DEF IInv, TypeOK
  <1>6. TypeOK'
    BY <1>2, <1>4, <1>5 DEF IInv, TypeOK
  <1>7. Held(air') = 0
    BY <1>4, HeldNone
  <1>8. PacketInv'
    BY <1>7, Types DEF IInv, PacketInv
  <1>u. UNCHANGED <<pc, m_atBuf, rx, result, synced>>
    OBVIOUS
  <1>e. Len(<<>>) <= 1
    OBVIOUS
  <1> HIDE DEF ModuleAnswers, driverVars, countVars
  <1>9. SyncInv' /\ SyncedAckIsHonest'
    <2> SUFFICES ASSUME synced
                 PROVE  /\ pend' = <<>> /\ result # "ok"
                        /\ verdict' # "none"
                        /\ pc = "wait" /\ verdict' = "ERR"
                             => Refusal(m_atBuf) /\ Refusal(rx) /\ Refusal(air')
      BY <1>u, <1>e, Zenon DEF SyncInv, SyncedAckIsHonest
    <2>1. Len(pend) <= 1 /\ verdict = "none"
      BY <1>1 DEF IInv, SyncInv
    <2>2. pend' = <<>>
      BY <1>1, <1>3, <2>1
    <2>3. result # "ok"
      BY <2>1 DEF IInv, SyncedAckIsHonest
    <2>4. CASE ~ ok
      <3>1. verdict' = "ERR" /\ air' = Lf(<<"ERR">>)
        BY <2>4 DEF ModuleAnswers
      <3>2. Refusal(air')
        BY <3>1, RefusalIs
      <3>3. pc = "wait" => Refusal(m_atBuf) /\ Refusal(rx)
        BY <2>1 DEF IInv, SyncInv, Refusal
      <3> QED BY <2>2, <2>3, <3>1, <3>2, <3>3
    <2>5. CASE ok
      <3>1. verdict' = "OK"
        BY <2>5 DEF ModuleAnswers
      <3>2. verdict' # "none" /\ verdict' # "ERR"
        BY ONLY <3>1
      <3> QED BY <2>2, <2>3, <3>2, Zenon
    <2> QED BY <2>4, <2>5
  <1>10. JobInv' /\ EveryPayloadCountedOnce'
    BY DEF IInv, JobInv, EveryPayloadCountedOnce, ModuleAnswers, driverVars, countVars
  <1> QED BY <1>6, <1>8, <1>9, <1>10 DEF IInv

LEMMA ModuleIgnoresStep ==
  ASSUME IInv, ModuleIgnores
  PROVE  IInv'
  <1> USE DEF ModuleIgnores, driverVars, countVars, historyVars
  <1>1. pend \in Seq(Commands) /\ pend # <<>> /\ Len(pend) <= MaxPending /\ MaxPending \in Nat
    BY CapacityAssumption DEF IInv, TypeOK
  <1>2. pend' \in Seq(Commands) /\ Len(pend') <= MaxPending
    BY <1>1
  <1>3. TypeOK'
    BY <1>2 DEF IInv, TypeOK
  <1>4. SyncInv'
    <2>1. Len(pend) <= 1 => pend' = <<>>
      BY <1>1
    <2>2. Len(<<>>) = 0
      OBVIOUS
    <2> QED BY <1>1, <2>1, <2>2 DEF IInv, SyncInv
  <1> QED BY <1>3, <1>4 DEF IInv, JobInv, EveryPayloadCountedOnce, PacketInv, SyncedAckIsHonest

LEMMA ModuleReceivesStep ==
  ASSUME IInv, NEW fields \in {"fields", "badfields"}, ModuleReceives(fields)
  PROVE  IInv'
  <1> USE DEF ModuleReceives, driverVars
  <1>1. {"+RCV=", fields, "LF"} \subseteq Tokens
    BY DEF Tokens
  <1>2. /\ <<>> \in Seq(Tokens) /\ <<"+RCV=">> \in Seq(Tokens)
        /\ <<"+RCV=">> = Append(<<>>, "+RCV=")
        /\ <<"+RCV=", fields>> \in Seq(Tokens)
        /\ <<"+RCV=", fields>> = Append(<<"+RCV=">>, fields)
    BY <1>1
  <1>3. air' = Append(<<"+RCV=", fields>>, "LF") /\ air' \in Seq(Tokens)
    BY <1>1, <1>2 DEF Lf
  <1>4. Held(<<>>) = 0 /\ Held(<<"+RCV=">>) = Held(<<>>)
        /\ Held(<<"+RCV=", fields>>) = Held(<<"+RCV=">>) + (IF fields = "fields" THEN 1 ELSE 0)
        /\ Held(air') = Held(<<"+RCV=", fields>>)
    <2>1. Held(<<>>) = 0
      <3>1. \A k \in 1 .. Len(<<>>) : <<>>[k] # "fields"
        OBVIOUS
      <3> QED BY <1>2, <3>1, HeldNone
    <2>2. "+RCV=" \in Tokens /\ fields \in Tokens /\ "LF" \in Tokens
      BY <1>1
    <2>3. Held(Append(<<>>, "+RCV=")) = Held(<<>>) + (IF "+RCV=" = "fields" THEN 1 ELSE 0)
      BY <1>2, <2>2, HeldAppend
    <2>4. Held(Append(<<"+RCV=">>, fields))
            = Held(<<"+RCV=">>) + (IF fields = "fields" THEN 1 ELSE 0)
      BY <1>2, <2>2, HeldAppend
    <2>5. Held(Append(<<"+RCV=", fields>>, "LF"))
            = Held(<<"+RCV=", fields>>) + (IF "LF" = "fields" THEN 1 ELSE 0)
      BY <1>2, <2>2, HeldAppend
    <2>6. Held(<<>>) \in Nat /\ Held(<<"+RCV=">>) \in Nat /\ Held(<<"+RCV=", fields>>) \in Nat
      BY <1>2, HeldIs
    <2>7. Held(<<"+RCV=">>) = 0
      BY <1>2, <2>1, <2>3
    <2>8. Held(<<"+RCV=", fields>>) = Held(<<"+RCV=">>) + (IF fields = "fields" THEN 1 ELSE 0)
      BY <1>2, <2>4
    <2>9. Held(air') = Held(<<"+RCV=", fields>>)
      <3>1. Held(Append(<<"+RCV=", fields>>, "LF")) = Held(<<"+RCV=", fields>>)
        BY <2>5, <2>6
      <3> QED BY <1>3, <3>1, Zenon
    <2> QED BY <2>1, <2>7, <2>8, <2>9
  <1>5. Held(air') = IF fields = "fields" THEN 1 ELSE 0
    BY <1>4
  <1>6. packets' = packets + Held(air')
    BY <1>5
  <1>7. TypeOK'
    <2>1. synced' \in BOOLEAN
      BY Zenon
    <2>2. packets' \in Nat /\ downlinks' \in Nat
      BY <1>5, <1>6 DEF IInv, TypeOK
    <2> QED BY <1>3, <2>1, <2>2 DEF IInv, TypeOK
  <1>8. Held(air) \in Nat /\ Held(air') \in Nat
    BY <1>3, HeldIs, Types DEF IInv
  <1>9. PacketInv'
    <2>1. m_rxCount' = m_rxCount /\ m_atBuf' = m_atBuf /\ rx' = rx
      OBVIOUS
    <2> QED BY ONLY IInv, <1>6, <1>8, <2>1, PacketSum DEF PacketInv
  <1> QED BY <1>7, <1>9 DEF IInv, JobInv, EveryPayloadCountedOnce, SyncInv, SyncedAckIsHonest

(* A token that is taken off the line or out of the ring. *)
LEMMA TakeFirst ==
  ASSUME NEW s \in Seq(Tokens), s # <<>>
  PROVE  /\ Head(s) \in Tokens /\ Tail(s) \in Seq(Tokens)
         /\ Len(s) \in Nat /\ Len(Tail(s)) = Len(s) - 1
         /\ Held(Tail(s)) \in Nat
         /\ Held(Tail(s)) <= Held(s)
         /\ Head(s) = "fields" => Held(Tail(s)) + 1 <= Held(s)
  <1>1. /\ Head(s) \in Tokens /\ Tail(s) \in Seq(Tokens)
        /\ Len(s) \in Nat /\ Len(Tail(s)) = Len(s) - 1
    OBVIOUS
  <1>2. Held(s) \in Nat /\ Held(Tail(s)) \in Nat
    BY <1>1, HeldIs
  <1> QED BY <1>1, <1>2, HeldTail

LEMMA RefusalTail ==
  ASSUME NEW s \in Seq(Tokens), s # <<>>, Refusal(s)
  PROVE  Refusal(Tail(s)) /\ Head(s) \in {"ERR", "LF"}
  <1>1. /\ Head(s) = s[1] /\ 1 \in 1 .. Len(s)
        /\ \A k \in 1 .. Len(Tail(s)) : k + 1 \in 1 .. Len(s) /\ Tail(s)[k] = s[k + 1]
    OBVIOUS
  <1> QED BY <1>1 DEF Refusal

LEMMA RefusalAppend ==
  ASSUME NEW s \in Seq(Tokens), NEW e \in {"ERR", "LF"}, Refusal(s)
  PROVE  Refusal(Append(s, e))
  <1>1. \A k \in 1 .. Len(Append(s, e)) :
          (Append(s, e)[k] = e) \/ (k \in 1 .. Len(s) /\ Append(s, e)[k] = s[k])
    OBVIOUS
  <1> QED BY <1>1 DEF Refusal

LEMMA RxIrqStep ==
  ASSUME IInv, RxIrq
  PROVE  IInv'
  <1> USE DEF RxIrq, driverVars, historyVars, countVars
  <1> DEFINE t == Head(air)
  <1>1. air \in Seq(Tokens) /\ rx \in Seq(Tokens) /\ air # <<>> /\ air' = Tail(air)
    BY DEF IInv, TypeOK
  <1>2. /\ t \in Tokens /\ air' \in Seq(Tokens) /\ Held(air') \in Nat /\ Held(air') <= Held(air)
        /\ t = "fields" => Held(air') + 1 <= Held(air)
    BY <1>1, TakeFirst
  <1>3. \/ rx' = rx
        \/ rx' = Append(rx, t) /\ Len(rx) < RingCapacity
    OBVIOUS
  <1> HIDE DEF t
  <1>4. rx' \in Seq(Tokens) /\ Len(rx') <= RingCapacity
    <2>1. Len(rx) <= RingCapacity /\ RingCapacity \in Nat
      BY CapacityAssumption DEF IInv, TypeOK
    <2>2. CASE rx' = rx
      BY ONLY <1>1, <2>1, <2>2
    <2>3. CASE rx' = Append(rx, t) /\ Len(rx) < RingCapacity
      <3>1. Append(rx, t) \in Seq(Tokens) /\ Len(Append(rx, t)) = Len(rx) + 1
            /\ Len(rx) \in Nat
        BY ONLY <1>1, <1>2
      <3> QED BY ONLY <2>1, <2>3, <3>1
    <2> QED BY <1>3, <2>2, <2>3
  <1>5. Held(rx') + Held(air') <= Held(rx) + Held(air)
    <2>1. CASE rx' = rx
      BY <1>2, <2>1, Types DEF IInv
    <2>2. CASE rx' = Append(rx, t)
      <3>1. Held(rx') = Held(rx) + (IF t = "fields" THEN 1 ELSE 0)
        BY <1>1, <1>2, <2>2, HeldAppend
      <3>2. Held(rx) \in Nat /\ Held(air) \in Nat
        BY Types DEF IInv
      <3> QED BY ONLY <1>2, <3>1, <3>2
    <2> QED BY <1>3, <2>1, <2>2
  <1>6. Held(rx') \in Nat
    BY <1>4, HeldIs
  <1>7. TypeOK'
    <2>1. TypeOK
      BY DEF IInv
    <2>2. UNCHANGED <<pc, m_state, m_txCount, m_txErrors, m_rxCount, m_atBuf, job, result,
                      line, drained, pend, garbled, radio, verdict, synced, quiet, calls,
                      accepted, downlinks, packets>>
      OBVIOUS
    <2> QED BY ONLY <1>2, <1>4, <2>1, <2>2 DEF TypeOK
  <1>8. PacketInv'
    <2>1. m_rxCount' = m_rxCount /\ m_atBuf' = m_atBuf /\ packets' = packets
      OBVIOUS
    <2> QED BY ONLY IInv, <1>2, <1>5, <1>6, <2>1, PacketSum DEF PacketInv
  <1>9. SyncInv'
    <2>1. ASSUME Refusal(rx), Refusal(air) PROVE Refusal(rx') /\ Refusal(air')
      <3>1. t \in {"ERR", "LF"} /\ Refusal(Tail(air))
        BY <1>1, <2>1, RefusalTail DEF t
      <3>2. Refusal(Append(rx, t))
        BY <1>1, <1>2, <2>1, <3>1, RefusalAppend
      <3> QED BY <1>1, <1>3, <2>1, <3>1, <3>2
    <2> QED BY <1>1, <2>1 DEF IInv, SyncInv
  <1> QED BY <1>7, <1>8, <1>9 DEF IInv, JobInv, EveryPayloadCountedOnce, SyncedAckIsHonest
-----------------------------------------------------------------------------
(* The exchanges. *)

(* A token that leaves the ring while a handler runs. *)
LEMMA Drained ==
  ASSUME IInv, rx # <<>>, rx' = Tail(rx)
  PROVE  /\ Head(rx) \in Tokens /\ rx' \in Seq(Tokens) /\ Len(rx') <= RingCapacity
         /\ Held(rx') \in Nat /\ Held(rx') <= Held(rx)
         /\ Head(rx) = "fields" => Held(rx') + 1 <= Held(rx)
         /\ Refusal(rx) => Refusal(rx') /\ Head(rx) \in {"ERR", "LF"}
  <1>1. rx \in Seq(Tokens) /\ Len(rx) <= RingCapacity /\ RingCapacity \in Nat
    BY CapacityAssumption DEF IInv, TypeOK
  <1> QED BY <1>1, TakeFirst, RefusalTail

(* An exchange that has begun is not disturbed by what ends it. *)
LEMMA TransmitStep ==
  ASSUME IInv, Transmit
  PROVE  IInv'
  <1> USE DEF Transmit, countVars
  <1> DEFINE cmd == IF garbled THEN "GARBAGE" ELSE Head(job.todo)
  <1>1. cmd \in Commands
    <2>1. job.todo \in Seq(Commands) /\ job.todo # <<>>
      BY DEF IInv, TypeOK, JobInv
    <2>2. Head(job.todo) \in Commands
      BY <2>1
    <2> QED BY <2>2, CommandsAre
  <1>2. pend' = IF Len(pend) < MaxPending THEN Append(pend, cmd) ELSE pend
    OBVIOUS
  <1> HIDE DEF cmd
  <1>3. /\ pend \in Seq(Commands) /\ Len(pend) <= MaxPending /\ MaxPending \in Nat \ {0}
    BY CapacityAssumption DEF IInv, TypeOK
  <1>4. pend' \in Seq(Commands) /\ Len(pend') <= MaxPending
    BY <1>1, <1>2, <1>3
  <1>5. m_atBuf' = <<>> /\ m_atBuf' \in Seq(Tokens \ {"LF"}) /\ Len(m_atBuf') <= AtBufCapacity
    BY CapacityAssumption
  <1>6. synced' \in BOOLEAN /\ garbled' \in BOOLEAN /\ quiet' \in BOOLEAN
    OBVIOUS
  <1>7. TypeOK'
    BY <1>4, <1>5, <1>6 DEF IInv, TypeOK
  <1>8. JobInv' /\ EveryPayloadCountedOnce'
    BY DEF IInv, JobInv, EveryPayloadCountedOnce
  <1>9. PacketInv'
    <2>1. Held(m_atBuf') = 0
      <3>1. m_atBuf' \in Seq(Tokens) /\ \A k \in 1 .. Len(m_atBuf') : m_atBuf'[k] # "fields"
        BY <1>5
      <3> QED BY <3>1, HeldNone
    <2> QED BY <2>1, Types DEF IInv, PacketInv
  <1>10. SyncInv' /\ SyncedAckIsHonest'
    <2>1. pend = <<>> => Len(pend') <= 1
      BY <1>1, <1>2, <1>3
    <2> QED BY <1>5, <2>1 DEF SyncInv, SyncedAckIsHonest
  <1> QED BY <1>7, <1>8, <1>9, <1>10 DEF IInv

LEMMA TransmitFailsStep ==
  ASSUME IInv, NEW partial \in BOOLEAN, TransmitFails(partial)
  PROVE  IInv'
  <1> USE DEF TransmitFails, countVars
  <1>1. garbled' \in BOOLEAN
    BY Zenon DEF IInv, TypeOK
  <1>2. /\ m_state' \in {"UNINIT", "READY", "ERROR"}
        /\ m_txCount' \in Nat /\ m_txErrors' \in Nat
        /\ pc' \in {"idle", "send", "wait", "poll"}
        /\ job' \in [kind : {"none", "init", "cmd", "data"}, todo : Seq(Commands),
                     tries : 0 .. Retries]
        /\ result' \in {"none", "ok", "fail"}
        /\ JobInv' /\ EveryPayloadCountedOnce'
    BY ConcludeStep DEF IInv
  <1>3. synced' \in BOOLEAN /\ ~ synced'
    BY Zenon
  <1>4. TypeOK'
    BY <1>1, <1>2, <1>3 DEF IInv, TypeOK
  <1>5. PacketInv'
    BY DEF IInv, PacketInv
  <1> QED BY <1>2, <1>3, <1>4, <1>5 DEF IInv, SyncInv, SyncedAckIsHonest

(* Success means, in an undisturbed exchange, that the module accepted.    *)
LEMMA SuccessIsHonest ==
  ASSUME IInv, pc = "wait", synced, Success(job.kind, m_atBuf)
  PROVE  verdict = "OK" /\ pend = <<>>
  <1>1. m_atBuf \in Seq(Tokens \ {"LF"}) /\ m_atBuf # <<>>
        /\ verdict \in {"none", "OK", "ERR"}
    BY DEF IInv, TypeOK, Success
  <1>2. 1 \in 1 .. Len(m_atBuf) /\ m_atBuf[1] # "LF"
    BY <1>1
  <1>3. verdict # "none"
    BY <1>1 DEF IInv, SyncInv
  <1>4. m_atBuf[1] # "ERR"
    BY DEF Success
  <1>5. verdict # "ERR"
    BY <1>2, <1>4 DEF IInv, SyncInv, Refusal
  <1> QED BY <1>1, <1>3, <1>5 DEF IInv, SyncInv

(* A wait that ends, with success or without. *)
LEMMA WaitEnds ==
  ASSUME IInv, pc = "wait", NEW ok \in BOOLEAN, Conclude(ok),
         ok => Success(job.kind, m_atBuf),
         UNCHANGED <<m_rxCount, drained, moduleVars, verdict, synced, quiet, countVars>>,
         rx' = rx \/ (rx # <<>> /\ rx' = Tail(rx)),
         m_atBuf' = m_atBuf \/ m_atBuf' = <<>>,
         line' \in Seq(Tokens)
  PROVE  IInv'
  <1> USE DEF moduleVars, countVars
  <1>1. /\ m_state' \in {"UNINIT", "READY", "ERROR"}
        /\ m_txCount' \in Nat /\ m_txErrors' \in Nat
        /\ pc' \in {"idle", "send", "wait", "poll"}
        /\ job' \in [kind : {"none", "init", "cmd", "data"}, todo : Seq(Commands),
                     tries : 0 .. Retries]
        /\ result' \in {"none", "ok", "fail"}
        /\ JobInv' /\ EveryPayloadCountedOnce'
    BY ConcludeStep DEF IInv
  <1>2. rx' \in Seq(Tokens) /\ Len(rx') <= RingCapacity /\ Held(rx') <= Held(rx)
        /\ Held(rx') \in Nat
    <2>1. CASE rx' = rx
      <3>1. Held(rx') = Held(rx)
        BY <2>1, Zenon
      <3>2. rx \in Seq(Tokens) /\ Len(rx) <= RingCapacity /\ Held(rx) \in Nat
        BY Types DEF IInv, TypeOK
      <3>3. Held(rx') <= Held(rx) /\ Held(rx') \in Nat
        BY <3>1, <3>2
      <3> QED BY <2>1, <3>2, <3>3
    <2>2. CASE rx # <<>> /\ rx' = Tail(rx)
      BY <2>2, Drained
    <2> QED BY <2>1, <2>2
  <1>3. /\ m_atBuf' \in Seq(Tokens \ {"LF"}) /\ Len(m_atBuf') <= AtBufCapacity
        /\ Held(m_atBuf') \in Nat /\ Held(m_atBuf') <= Held(m_atBuf)
    <2>1. CASE m_atBuf' = m_atBuf
      BY <2>1, Types DEF IInv, TypeOK
    <2>2. CASE m_atBuf' = <<>>
      <3>1. /\ m_atBuf' \in Seq(Tokens \ {"LF"}) /\ Len(m_atBuf') = 0 /\ m_atBuf' \in Seq(Tokens)
            /\ \A k \in 1 .. Len(m_atBuf') : m_atBuf'[k] # "fields"
        BY <2>2
      <3>2. Held(m_atBuf') = 0
        BY <3>1, HeldNone
      <3> QED BY <3>1, <3>2, Types DEF IInv
    <2> QED BY <2>1, <2>2
  <1>4. TypeOK'
    BY <1>1, <1>2, <1>3 DEF IInv, TypeOK
  <1>5. PacketInv'
    <2>1. m_rxCount' = m_rxCount /\ air' = air /\ packets' = packets
      OBVIOUS
    <2>2. Held(air') = Held(air)
      BY ONLY <2>1, Zenon
    <2>3. /\ m_rxCount + Held(m_atBuf) + Held(rx) + Held(air) <= packets
          /\ Held(m_atBuf) \in Nat /\ Held(rx) \in Nat /\ Held(air) \in Nat
          /\ m_rxCount \in Nat /\ packets \in Nat
      BY ONLY IInv, PacketSum, Zenon
    <2> HIDE DEF Held
    <2> QED BY ONLY <1>2, <1>3, <2>1, <2>2, <2>3 DEF PacketInv
  <1>6. pc' # "wait"
    BY DEF Conclude
  <1>7. SyncInv'
    BY <1>6 DEF IInv, SyncInv
  <1>8. SyncedAckIsHonest'
    <2>1. ok => result' = "ok"
      BY DEF Conclude
    <2>2. ~ ok => result' = "fail"
      BY DEF Conclude
    <2>3. ok /\ synced => verdict = "OK"
      BY SuccessIsHonest
    <2> QED BY <2>1, <2>2, <2>3 DEF SyncedAckIsHonest
  <1> QED BY <1>1, <1>4, <1>5, <1>7, <1>8 DEF IInv

LEMMA WaitStep ==
  ASSUME IInv, WaitLf \/ WaitOverrun \/ Timeout
  PROVE  IInv'
  <1>1. line \in Seq(Tokens) /\ rx \in Seq(Tokens)
    BY DEF IInv, TypeOK
  <1>2. CASE Timeout
    <2>1. PICK ok \in BOOLEAN : ok = FALSE
      OBVIOUS
    <2>2. Conclude(ok) /\ pc = "wait" /\ (ok => Success(job.kind, m_atBuf))
      BY <1>2, <2>1 DEF Timeout
    <2>3. line' \in Seq(Tokens)
      BY <1>1, <1>2 DEF Timeout
    <2>4. /\ UNCHANGED <<m_rxCount, drained, moduleVars, verdict, synced, quiet, countVars>>
          /\ rx' = rx /\ m_atBuf' = m_atBuf
      BY <1>2 DEF Timeout
    <2> QED BY <2>2, <2>3, <2>4, WaitEnds
  <1>3. CASE WaitOverrun
    <2>1. PICK ok \in BOOLEAN : ok = FALSE
      OBVIOUS
    <2>2. Conclude(ok) /\ pc = "wait" /\ (ok => Success(job.kind, m_atBuf))
      BY <1>3, <2>1 DEF WaitOverrun
    <2>3. line' = Append(line, Head(rx)) /\ rx # <<>>
      BY <1>3 DEF WaitOverrun
    <2>4. line' \in Seq(Tokens)
      BY <1>1, <2>3
    <2> QED BY <1>3, <2>2, <2>4, WaitEnds DEF WaitOverrun
  <1>4. CASE WaitLf
    <2>1. PICK ok \in BOOLEAN : ok = Success(job.kind, m_atBuf)
      BY DEF Success
    <2>2. Conclude(ok) /\ pc = "wait"
      BY <1>4, <2>1 DEF WaitLf
    <2>3. line' \in Seq(Tokens)
      BY <1>4 DEF WaitLf
    <2> QED BY <1>4, <2>1, <2>2, <2>3, WaitEnds DEF WaitLf
  <1> QED BY <1>2, <1>3, <1>4

(* A token that goes from the ring to the buffer, or is lost. *)
LEMMA Stored ==
  ASSUME IInv, rx # <<>>, Head(rx) # "LF", rx' = Tail(rx), line' = Append(line, Head(rx)),
         \/ m_atBuf' = <<>>
         \/ Len(m_atBuf) < AtBufCapacity /\ m_atBuf' = Append(m_atBuf, Head(rx))
  PROVE  /\ m_atBuf' \in Seq(Tokens \ {"LF"}) /\ Len(m_atBuf') <= AtBufCapacity
         /\ Held(m_atBuf') + Held(rx') <= Held(m_atBuf) + Held(rx)
         /\ Held(m_atBuf') \in Nat /\ line' \in Seq(Tokens)
  <1>1. /\ m_atBuf \in Seq(Tokens \ {"LF"}) /\ m_atBuf \in Seq(Tokens) /\ line \in Seq(Tokens)
        /\ Head(rx) \in Tokens /\ Len(m_atBuf) \in Nat /\ AtBufCapacity \in Nat
    BY Drained, Types DEF IInv, TypeOK
  <1>2. line' \in Seq(Tokens)
    <2>1. line \in Seq(Tokens) /\ Head(rx) \in Tokens
      BY <1>1
    <2> QED BY ONLY <2>1, line' = Append(line, Head(rx))
  <1>3. /\ Held(rx') \in Nat /\ Held(rx') <= Held(rx) /\ Held(rx) \in Nat
        /\ Held(m_atBuf) \in Nat
        /\ Head(rx) = "fields" => Held(rx') + 1 <= Held(rx)
    BY Drained, Types DEF IInv
  <1>4. CASE m_atBuf' = <<>>
    <2>1. /\ m_atBuf' \in Seq(Tokens \ {"LF"}) /\ Len(m_atBuf') = 0 /\ m_atBuf' \in Seq(Tokens)
          /\ \A k \in 1 .. Len(m_atBuf') : m_atBuf'[k] # "fields"
      BY <1>4
    <2>2. Held(m_atBuf') = 0
      BY <2>1, HeldNone
    <2> QED BY <1>1, <1>2, <1>3, <2>1, <2>2
  <1>5. CASE Len(m_atBuf) < AtBufCapacity /\ m_atBuf' = Append(m_atBuf, Head(rx))
    <2>1. m_atBuf' \in Seq(Tokens \ {"LF"}) /\ Len(m_atBuf') <= AtBufCapacity
      BY <1>1, <1>5
    <2>2. Held(m_atBuf') = Held(m_atBuf) + (IF Head(rx) = "fields" THEN 1 ELSE 0)
      BY <1>1, <1>5, HeldAppend
    <2> QED BY <1>2, <1>3, <2>1, <2>2
  <1> QED BY <1>4, <1>5

LEMMA WaitByteStep ==
  ASSUME IInv, WaitByte
  PROVE  IInv'
  <1> USE DEF WaitByte, moduleVars, countVars
  <1>1. /\ m_atBuf' \in Seq(Tokens \ {"LF"}) /\ Len(m_atBuf') <= AtBufCapacity
        /\ Held(m_atBuf') + Held(rx') <= Held(m_atBuf) + Held(rx)
        /\ Held(m_atBuf') \in Nat /\ line' \in Seq(Tokens)
    BY Stored
  <1>2. rx' \in Seq(Tokens) /\ Len(rx') <= RingCapacity /\ Held(rx') \in Nat
    BY Drained
  <1>3. TypeOK'
    BY <1>1, <1>2 DEF IInv, TypeOK
  <1>4. PacketInv'
    <2>1. m_rxCount + Held(m_atBuf) + Held(rx) + Held(air) <= packets
      BY DEF IInv, PacketInv
    <2>2. air' = air /\ packets' = packets /\ m_rxCount' = m_rxCount
      OBVIOUS
    <2> HIDE DEF WaitByte
    <2>3. Held(m_atBuf') + Held(rx') <= Held(m_atBuf) + Held(rx)
      BY <1>1
    <2>4. /\ Held(m_atBuf') \in Nat /\ Held(rx') \in Nat
          /\ Held(m_atBuf) \in Nat /\ Held(rx) \in Nat /\ Held(air) \in Nat
          /\ m_rxCount \in Nat /\ packets \in Nat
      BY <1>1, <1>2, Types DEF IInv
    <2>5. m_rxCount + Held(m_atBuf') + Held(rx') + Held(air) <= packets
      BY <2>1, <2>3, <2>4
    <2> QED BY <2>2, <2>5 DEF PacketInv
  <1>5. ASSUME Refusal(m_atBuf), Refusal(rx)
        PROVE  Refusal(m_atBuf') /\ Refusal(rx')
    <2>1. Refusal(rx') /\ Head(rx) \in {"ERR", "LF"}
      BY <1>5, Drained
    <2>2. m_atBuf \in Seq(Tokens)
      BY Types DEF IInv
    <2>3. Refusal(Append(m_atBuf, Head(rx)))
      BY <1>5, <2>1, <2>2, RefusalAppend
    <2> QED BY <2>1, <2>3
  <1>6. SyncInv'
    BY <1>5 DEF IInv, SyncInv
  <1> QED BY <1>3, <1>4, <1>6 DEF IInv, JobInv, EveryPayloadCountedOnce, SyncedAckIsHonest
-----------------------------------------------------------------------------
(* The polls. *)

(* A line that parseRcv accepts holds a packet. *)
LEMMA ParsedHeld ==
  ASSUME NEW l \in Seq(Tokens), TRUE \in ParseRcv(l)
  PROVE  Held(l) >= 1
  <1>1. Len(l) \in Nat
    OBVIOUS
  <1>2. \/ Len(l) >= 2 /\ l[2] = "fields"
        \/ Len(l) >= 3 /\ l[3] = "fields"
    BY DEF ParseRcv
  <1>3. CASE Len(l) >= 2 /\ l[2] = "fields"
    <2>1. 2 \in 1 .. Len(l)
      BY <1>1, <1>3
    <2> QED BY <1>3, <2>1, HeldSome
  <1>4. CASE Len(l) >= 3 /\ l[3] = "fields"
    <2>1. 3 \in 1 .. Len(l)
      BY <1>1, <1>4
    <2> QED BY <1>4, <2>1, HeldSome
  <1> QED BY <1>2, <1>3, <1>4

LEMMA PollLfStep ==
  ASSUME IInv, PollLf
  PROVE  IInv'
  <1> USE DEF PollLf, moduleVars, countVars
  <1>1. rx' \in Seq(Tokens) /\ Len(rx') <= RingCapacity /\ Held(rx') \in Nat /\ Held(rx') <= Held(rx)
    BY Drained
  <1>2. PICK parsed \in ParseRcv(m_atBuf) : m_rxCount' = m_rxCount + (IF parsed THEN 1 ELSE 0)
    OBVIOUS
  <1>3. m_rxCount' \in Nat /\ m_rxCount' <= m_rxCount + Held(m_atBuf)
    <2>1. CASE m_rxCount' = m_rxCount
      BY <2>1, Types DEF IInv
    <2>2. CASE m_rxCount' # m_rxCount
      <3>1. parsed \in BOOLEAN
        BY DEF ParseRcv
      <3>2. m_rxCount + 0 = m_rxCount
        BY Types DEF IInv
      <3>3. parsed = TRUE
        BY <1>2, <2>2, <3>1, <3>2
      <3>4. m_rxCount' = m_rxCount + 1
        BY <1>2, <3>3
      <3>5. TRUE \in ParseRcv(m_atBuf)
        BY <3>3
      <3>6. Held(m_atBuf) >= 1
        BY <3>5, ParsedHeld, Types DEF IInv
      <3> QED BY ONLY IInv, <3>4, <3>6, PacketSum
    <2> QED BY <2>1, <2>2
  <1>4. /\ m_atBuf' \in Seq(Tokens \ {"LF"}) /\ Len(m_atBuf') = 0 /\ m_atBuf' \in Seq(Tokens)
        /\ \A k \in 1 .. Len(m_atBuf') : m_atBuf'[k] # "fields"
    OBVIOUS
  <1>5. Held(m_atBuf') = 0
    BY <1>4, HeldNone
  <1>6. TypeOK'
    <2>1. drained' \in 0 .. DrainLimit /\ line' \in Seq(Tokens) /\ Len(m_atBuf') <= AtBufCapacity
      BY <1>4, CapacityAssumption DEF IInv, TypeOK
    <2>2. quiet' \in BOOLEAN
      BY Zenon
    <2> QED BY <1>1, <1>3, <1>4, <2>1, <2>2 DEF IInv, TypeOK
  <1>7. PacketInv'
    <2>1. air' = air /\ packets' = packets
      OBVIOUS
    <2> QED BY ONLY IInv, <1>1, <1>3, <1>5, <2>1, PacketSum DEF PacketInv
  <1> QED BY <1>6, <1>7 DEF IInv, JobInv, EveryPayloadCountedOnce, SyncedAckIsHonest, SyncInv

LEMMA PollByteStep ==
  ASSUME IInv, PollByte
  PROVE  IInv'
  <1> USE DEF PollByte, moduleVars, countVars
  <1>1. \/ m_atBuf' = <<>>
        \/ Len(m_atBuf) < AtBufCapacity /\ m_atBuf' = Append(m_atBuf, Head(rx))
    OBVIOUS
  <1>2. /\ m_atBuf' \in Seq(Tokens \ {"LF"}) /\ Len(m_atBuf') <= AtBufCapacity
        /\ Held(m_atBuf') + Held(rx') <= Held(m_atBuf) + Held(rx)
        /\ Held(m_atBuf') \in Nat /\ line' \in Seq(Tokens)
    BY <1>1, Stored
  <1>3. rx' \in Seq(Tokens) /\ Len(rx') <= RingCapacity /\ Held(rx') \in Nat
    BY Drained
  <1>4. TypeOK'
    <2>1. drained' \in 0 .. DrainLimit
      BY CapacityAssumption DEF IInv, TypeOK
    <2> QED BY <1>2, <1>3, <2>1 DEF IInv, TypeOK
  <1>5. PacketInv'
    <2>1. air' = air /\ packets' = packets /\ m_rxCount' = m_rxCount
      OBVIOUS
    <2>2. /\ Held(m_atBuf') + Held(rx') <= Held(m_atBuf) + Held(rx)
          /\ Held(m_atBuf') \in Nat /\ Held(rx') \in Nat
      BY ONLY <1>2, <1>3
    <2> QED BY ONLY IInv, <2>1, <2>2, PacketSum DEF PacketInv
  <1> QED BY <1>4, <1>5 DEF IInv, JobInv, EveryPayloadCountedOnce, SyncedAckIsHonest, SyncInv

LEMMA PollEdgeStep ==
  ASSUME IInv, PollEnd \/ SchedIn
  PROVE  IInv'
  <1>1. /\ pc \in {"idle", "poll"} /\ pc' \in {"idle", "poll"} /\ drained' = 0
        /\ UNCHANGED <<m_state, m_atBuf, m_txCount, m_txErrors, m_rxCount, job,
                       rx, moduleVars, historyVars, countVars>>
    BY DEF PollEnd, SchedIn
  <1>2. TypeOK'
    <2>1. drained' \in 0 .. DrainLimit
      BY <1>1, CapacityAssumption
    <2> QED BY <1>1, <2>1 DEF IInv, TypeOK, moduleVars, historyVars, countVars
  <1>3. JobInv' /\ EveryPayloadCountedOnce' /\ PacketInv' /\ SyncedAckIsHonest' /\ SyncInv'
    BY <1>1 DEF IInv, JobInv, EveryPayloadCountedOnce, PacketInv, SyncedAckIsHonest, SyncInv,
                moduleVars, historyVars, countVars
  <1> QED BY <1>2, <1>3 DEF IInv
-----------------------------------------------------------------------------
(* The handlers that begin an exchange. *)

LEMMA StartStep ==
  ASSUME IInv, NEW kind \in {"init", "cmd", "data"}, NEW todo \in Seq(Commands), todo # <<>>,
         Start(kind, todo),
         UNCHANGED <<m_state, m_atBuf, m_txCount, m_txErrors, m_rxCount, drained,
                     rx, moduleVars, historyVars, downlinks, packets>>,
         calls' \in Nat,
         accepted' = accepted + (IF kind = "data" THEN 1 ELSE 0)
  PROVE  IInv'
  <1> USE DEF Start, moduleVars, historyVars
  <1>1. /\ job' = [kind |-> kind, todo |-> todo, tries |-> Retries]
        /\ pc = "idle" /\ pc' = "send"
    OBVIOUS
  <1>2. job' \in [kind : {"none", "init", "cmd", "data"}, todo : Seq(Commands),
                  tries : 0 .. Retries]
        /\ job'.kind = kind /\ job'.todo = todo
    BY <1>1, CapacityAssumption
  <1>3. accepted' \in Nat
    BY DEF IInv, TypeOK
  <1>4. TypeOK'
    BY <1>1, <1>2, <1>3 DEF IInv, TypeOK
  <1>5. JobInv'
    BY <1>1, <1>2 DEF JobInv
  <1>6. EveryPayloadCountedOnce'
    <2>1. m_txCount + m_txErrors = accepted
      BY <1>1 DEF IInv, JobInv, EveryPayloadCountedOnce, TypeOK
    <2> QED BY <1>2, <2>1 DEF EveryPayloadCountedOnce, IInv, TypeOK
  <1>7. PacketInv' /\ SyncedAckIsHonest' /\ SyncInv'
    BY <1>1 DEF IInv, PacketInv, SyncedAckIsHonest, SyncInv
  <1> QED BY <1>4, <1>5, <1>6, <1>7 DEF IInv

LEMMA CallStep ==
  ASSUME IInv, Preamble \/ CmdReset \/ DataIn \/ (\E c \in UserCommands : CmdSend(c))
  PROVE  IInv'
  <1>1. calls \in Nat /\ accepted \in Nat
    BY DEF IInv, TypeOK
  <1>2. CASE Preamble
    BY <1>1, <1>2, CommandsAre, StartStep DEF Preamble, countVars
  <1>3. CASE CmdReset
    BY <1>1, <1>3, CommandsAre, StartStep DEF CmdReset
  <1>4. CASE DataIn
    <2>1. <<"SEND">> \in Seq(Commands) /\ <<"SEND">> # <<>>
      BY CommandsAre
    <2> QED BY <1>1, <1>4, <2>1, StartStep DEF DataIn
  <1>5. CASE \E c \in UserCommands : CmdSend(c)
    <2>1. PICK c \in UserCommands : CmdSend(c)
      BY <1>5
    <2>2. <<c>> \in Seq(Commands) /\ <<c>> # <<>>
      BY CommandsAre
    <2>3. /\ Start("cmd", <<c>>) /\ calls' \in Nat /\ accepted' = accepted
          /\ UNCHANGED <<m_state, m_atBuf, m_txCount, m_txErrors, m_rxCount, drained,
                         rx, moduleVars, historyVars, downlinks, packets>>
      BY <1>1, <2>1 DEF CmdSend
    <2>4. accepted' = accepted + (IF "cmd" = "data" THEN 1 ELSE 0)
      BY <1>1, <2>3
    <2> HIDE DEF Start
    <2> QED BY <2>2, <2>3, <2>4, StartStep
  <1> QED BY <1>2, <1>3, <1>4, <1>5

LEMMA NextIInv == IInv /\ [Next]_vars => IInv'
  <1> SUFFICES ASSUME IInv, [Next]_vars PROVE IInv'
    OBVIOUS
  <1>1. CASE UNCHANGED vars
    <2> USE <1>1 DEF vars, driverVars, moduleVars, historyVars, countVars, IInv
    <2>1. TypeOK'
      BY DEF TypeOK
    <2> QED BY <2>1 DEF JobInv, EveryPayloadCountedOnce, PacketInv, SyncedAckIsHonest, SyncInv
  <1>2. CASE Driver
    BY <1>2, TransmitStep, TransmitFailsStep, WaitStep, WaitByteStep, PollLfStep, PollByteStep,
       PollEdgeStep DEF Driver
  <1>3. CASE Module
    BY <1>3, ModuleAnswersStep, ModuleIgnoresStep, ModuleReceivesStep, RxIrqStep DEF Module
  <1>4. CASE Calls
    BY <1>4, CallStep, PollEdgeStep DEF Calls
  <1> QED BY <1>1, <1>2, <1>3, <1>4 DEF Next
-----------------------------------------------------------------------------
(* The inductive invariant holds in every reachable state. *)
THEOREM LoRaInvariant == Spec => []IInv
  BY InitIInv, NextIInv, PTL DEF Spec

(* The members of LoRaDriver keep their types, and the ring and m_atBuf    *)
(* their bounds.                                                           *)
THEOREM LoRaTypeCorrect == Spec => []TypeOK
  <1>1. IInv => TypeOK
    BY DEF IInv
  <1> QED BY <1>1, LoRaInvariant, PTL

(* An exchange that nothing disturbed reports success only if the module   *)
(* accepted its command.                                                   *)
THEOREM AckHonest == Spec => []SyncedAckIsHonest
  <1>1. IInv => SyncedAckIsHonest
    BY DEF IInv
  <1> QED BY <1>1, LoRaInvariant, PTL

(* Every payload dataIn takes is counted once, as sent or as failed.       *)
THEOREM PayloadCounted == Spec => []EveryPayloadCountedOnce
  <1>1. IInv => EveryPayloadCountedOnce
    BY DEF IInv
  <1> QED BY <1>1, LoRaInvariant, PTL

(* m_rxCount never exceeds the packets the module reported, however lines  *)
(* are cut, glued or lost.                                                 *)
THEOREM NoPacketInvented == Spec => []RxNeverOvercounts
  <1>1. IInv => RxNeverOvercounts
    <2> SUFFICES ASSUME IInv PROVE RxNeverOvercounts
      OBVIOUS
    <2> QED BY Types DEF IInv, PacketInv, RxNeverOvercounts
  <1> QED BY <1>1, LoRaInvariant, PTL

-----------------------------------------------------------------------------
(* The end of an exchange is the end of waiting. *)
LEMMA ConcludeLeavesWait ==
  ASSUME NEW ok \in BOOLEAN, Conclude(ok)
  PROVE  pc' # "wait"
  BY DEF Conclude

(* Every step of the driver keeps the buffer in step with the line, or     *)
(* happens in an exchange, which is not quiet.                             *)
LEMMA QuietFollows == TypeOK /\ QuietInv /\ [Next]_vars => QuietInv'
  <1> SUFFICES ASSUME TypeOK, QuietInv, [Next]_vars PROVE QuietInv'
    OBVIOUS
  <1>1. CASE UNCHANGED <<m_atBuf, line, quiet>> /\ pc' # "wait"
    BY <1>1 DEF QuietInv
  <1>2. CASE pc = "wait" /\ quiet' = quiet
    BY <1>2 DEF QuietInv
  <1>3. CASE UNCHANGED <<m_atBuf, line, quiet, pc>>
    BY <1>3 DEF QuietInv
  <1>4. CASE PollByte
    <2>1. /\ rx # <<>> /\ Head(rx) # "LF" /\ line' = Append(line, Head(rx))
          /\ m_atBuf' = IF Len(m_atBuf) < AtBufCapacity
                        THEN Append(m_atBuf, Head(rx)) ELSE <<>>
          /\ quiet' = quiet /\ pc' = "poll"
      BY <1>4 DEF PollByte
    <2>2. line \in Seq(Tokens) /\ AtBufCapacity \in Nat /\ Len(line) \in Nat
      BY CapacityAssumption DEF TypeOK
    <2>3. Len(line') = Len(line) + 1
      BY ONLY <2>1, <2>2
    <2>4. CASE Len(line) < AtBufCapacity
      BY <2>1, <2>2, <2>4 DEF QuietInv
    <2>5. CASE ~ (Len(line) < AtBufCapacity)
      BY ONLY <2>1, <2>2, <2>3, <2>5 DEF QuietInv
    <2> QED BY <2>4, <2>5
  <1>5. CASE PollLf
    BY <1>5 DEF PollLf, QuietInv
  <1>6. CASE Transmit
    BY <1>6 DEF Transmit, QuietInv
  <1>7. CASE \E partial \in BOOLEAN : TransmitFails(partial)
    BY <1>1, <1>7, ConcludeLeavesWait DEF TransmitFails
  <1>8. CASE WaitLf \/ WaitByte \/ WaitOverrun \/ Timeout
    BY <1>2, <1>8 DEF WaitLf, WaitByte, WaitOverrun, Timeout
  <1>9. CASE PollEnd \/ Calls
    BY <1>1, <1>9 DEF PollEnd, Calls, Preamble, CmdReset, CmdSend, DataIn, SchedIn, Start,
                      historyVars
  <1>10. CASE Module
    BY <1>3, <1>10 DEF Module, ModuleAnswers, ModuleIgnores, ModuleReceives, RxIrq,
                       driverVars, historyVars
  <1>11. CASE UNCHANGED vars
    BY <1>3, <1>11 DEF vars, driverVars, historyVars
  <1> QED BY <1>4, <1>5, <1>6, <1>7, <1>8, <1>9, <1>10, <1>11 DEF Next, Driver

(* A quiet line that fits the buffer is in the buffer, all of it.          *)
THEOREM LineBuffered == Spec => []QuietInv
  <1>1. Init => QuietInv
    BY DEF Init, QuietInv
  <1> QED BY <1>1, QuietFollows, LoRaTypeCorrect, PTL DEF Spec

(* A well-formed packet whose line only polls have touched is counted.     *)
THEOREM QuietPacketsCount == Spec => QuietPacketCounted
  <1> DEFINE Finished == pc = "poll" /\ quiet /\ rx # rx'
                         /\ line = <<"+RCV=", "fields">> /\ line' = <<>>
             Counted == m_rxCount' = m_rxCount + 1
  <1>1. TypeOK /\ QuietInv /\ [Next]_vars => [Finished => Counted]_vars
    <2> SUFFICES ASSUME TypeOK, QuietInv, [Next]_vars, Finished PROVE Counted
      OBVIOUS
    <2>1. line # line' /\ rx # rx' /\ pc = "poll"
      OBVIOUS
    <2>2. PollLf \/ PollByte
      <3>1. ~ Module
        BY <2>1 DEF Module, ModuleAnswers, ModuleIgnores, ModuleReceives, RxIrq, historyVars
      <3>2. ~ Calls
        BY <2>1 DEF Calls, Preamble, CmdReset, CmdSend, DataIn, SchedIn, Start
      <3>3. Driver
        BY <2>1, <3>1, <3>2 DEF Next, vars
      <3> QED BY <2>1, <3>3 DEF Driver, Transmit, TransmitFails, WaitLf, WaitByte,
                                WaitOverrun, Timeout, PollEnd
    <2>3. CASE PollByte
      <3>1. line \in Seq(Tokens) /\ line' = Append(line, Head(rx))
        BY <2>3 DEF PollByte, TypeOK
      <3> QED BY <3>1
    <2>4. CASE PollLf
      <3>1. m_atBuf = <<"+RCV=", "fields">>
        BY CapacityAssumption DEF QuietInv
      <3>2. ParseRcv(m_atBuf) = {TRUE}
        BY <3>1 DEF ParseRcv
      <3>3. PICK parsed \in ParseRcv(m_atBuf) :
               m_rxCount' = m_rxCount + (IF parsed THEN 1 ELSE 0)
        BY <2>4 DEF PollLf
      <3> QED BY <3>2, <3>3
    <2> QED BY <2>2, <2>3, <2>4
  <1> QED BY <1>1, LineBuffered, LoRaTypeCorrect, PTL DEF Spec, QuietPacketCounted
=============================================================================
