----------------------------- MODULE LoRaDriver -----------------------------
(***************************************************************************)
(* Components/LoRaDriver: the driver of the LoRa module that hangs on      *)
(* UART0 and is spoken to in lines of AT commands.  One handler of the     *)
(* component runs at a time, to its end; while it runs, the module goes on *)
(* sending and the receive interrupt goes on filling the ring.             *)
(*                                                                         *)
(* A line is a sequence of tokens.  The module's answers are one token and *)
(* LF; a received packet is "+RCV=", its fields, and LF, so that a packet  *)
(* can be cut in two by the end of a poll.  The ring is RxFifo's queue,    *)
(* which UartRing implements.  Time is abstracted: a wait may end by its   *)
(* timeout at any moment, and the settling delays of initModule are the    *)
(* moments in which the module acts between two steps of the driver.       *)
(***************************************************************************)
EXTENDS Integers, Sequences, FiniteSets

CONSTANTS RingCapacity,  \* tokens the UART0 ring can hold
          AtBufCapacity, \* LORA_AT_BUF_SIZE - 1, in tokens
          Retries,       \* LORA_INIT_RETRIES
          RfSettings,    \* the settings initModule makes, in its order: BAND,
                         \* PARAMETER, ADDRESS, NETWORKID, CRFOP
          DrainLimit,    \* drain_limit of pollRx, in tokens
          MaxPending,    \* commands the module remembers before it drops one
          UserCommands,  \* AT commands the operator's commands may send
          MaxCalls,      \* bound: operator commands in a behaviour
          MaxPayloads,   \* bound: payloads accepted by dataIn
          MaxDownlinks   \* bound: packets the module reports

Setting == {RfSettings[i] : i \in 1 .. Len(RfSettings)}
InitCommands == <<"AT", "RESET">> \o RfSettings
(* BADPARAMETER is what LORA_SET_SF sends for the spreading factors 10 to  *)
(* 12: '0' + sf is not a digit any more.  GARBAGE is a command glued to    *)
(* the remains of one whose transmission was cut short.                    *)
Commands == Setting \cup {"AT", "RESET", "SEND", "BADPARAMETER", "GARBAGE"}
Answers == {"OK", "ERR", "RESET", "READY"}
Tokens == Answers \cup {"+RCV=", "fields", "badfields", "LF"}

ASSUME CapacityAssumption ==
    /\ RingCapacity \in Nat \ {0} /\ AtBufCapacity \in Nat \ {0, 1}
    /\ RfSettings \in Seq(STRING) /\ RfSettings # <<>>
    /\ Retries \in Nat \ {0} /\ DrainLimit \in Nat \ {0}
    /\ MaxPending \in Nat \ {0}
    /\ UserCommands \subseteq Commands \ {"GARBAGE"}
    /\ MaxCalls \in Nat /\ MaxPayloads \in Nat /\ MaxDownlinks \in Nat

(* The operators whose names end in _Bug are plausible mistakes in the     *)
(* definition they precede; nothing uses them.                             *)

VARIABLES
    \* members of LoRaDriver
    m_state, m_atBuf, m_txCount, m_txErrors, m_rxCount,
    \* UART0's receive ring
    rx,
    \* the handler that is running: where it stands, what it is sending, and
    \* the bytes its poll has drained
    pc, job, drained,
    \* the LoRa module: commands it has yet to answer, tokens it is sending,
    \* whether its input holds the start of a command, accepted RF settings
    pend, air, garbled, radio,
    \* history: what the last exchange returned, what the module answered
    \* since it was sent, and whether nothing else was under way with it
    result, verdict, synced,
    \* history: the tokens taken from the ring since the last LF, and whether
    \* that LF was taken by a poll
    line, quiet,
    \* history: counters, also used as bounds
    calls, accepted, downlinks, packets

driverVars == <<m_state, m_atBuf, m_txCount, m_txErrors, m_rxCount, pc, job, drained>>
moduleVars == <<pend, air, garbled, radio>>
countVars == <<calls, accepted, downlinks, packets>>
historyVars == <<result, verdict, synced, line, quiet>>
vars == <<driverVars, rx, moduleVars, historyVars, countVars>>

NoJob == [kind |-> "none", todo |-> <<>>, tries |-> 0]

Init == /\ m_state = "UNINIT"
        /\ m_atBuf = <<>>
        /\ m_txCount = 0 /\ m_txErrors = 0 /\ m_rxCount = 0
        /\ rx = <<>>
        /\ pc = "idle" /\ job = NoJob /\ drained = 0
        /\ pend = <<>> /\ air = <<>> /\ garbled = FALSE /\ radio = {}
        /\ result = "none" /\ verdict = "none" /\ synced = FALSE
        /\ line = <<>> /\ quiet = FALSE
        /\ calls = 0 /\ accepted = 0 /\ downlinks = 0 /\ packets = 0

-----------------------------------------------------------------------------
(* The module and the line from it.                                        *)

Lf(body) == Append(body, "LF")

(* The module carries out the oldest command and answers it.  After a      *)
(* reset it reports twice, +RESET and then +READY, and has lost what it    *)
(* had been told.                                                          *)
ModuleAnswers(ok) ==
    /\ pend # <<>> /\ air = <<>>
    /\ Head(pend) \in {"BADPARAMETER", "GARBAGE"} => ~ ok
    /\ pend' = Tail(pend)
    /\ verdict' = IF ok THEN "OK" ELSE "ERR"
    /\ air' = IF ~ ok THEN Lf(<<"ERR">>)
              ELSE IF Head(pend) = "RESET" THEN Lf(<<"RESET">>) \o Lf(<<"READY">>)
              ELSE Lf(<<"OK">>)
    /\ radio' = IF ~ ok THEN radio
                ELSE IF Head(pend) = "RESET" THEN {}
                ELSE radio \cup ({Head(pend)} \cap Setting)
    /\ UNCHANGED <<driverVars, rx, garbled, result, synced, line, quiet, countVars>>

(* The module does not answer a command. *)
ModuleIgnores ==
    /\ pend # <<>>
    /\ pend' = Tail(pend)
    /\ UNCHANGED <<driverVars, rx, air, garbled, radio, historyVars, countVars>>

(* The module reports a packet from the air.  parseRcv can make nothing of *)
(* badfields: data with a comma and no number behind it, for one.  (With a *)
(* number there the packet is counted, with wrong values: see AtNumbers.)  *)
ModuleReceives(fields) ==
    /\ air = <<>> /\ downlinks < MaxDownlinks
    /\ air' = Lf(<<"+RCV=", fields>>)
    /\ downlinks' = downlinks + 1
    /\ packets' = packets + (IF fields = "fields" THEN 1 ELSE 0)
    /\ synced' = FALSE
    /\ UNCHANGED <<driverVars, rx, pend, garbled, radio, result, verdict, line, quiet,
                   calls, accepted>>

(* The receive interrupt puts a token into the ring; a full ring drops it. *)
RxIrq ==
    /\ air # <<>>
    /\ air' = Tail(air)
    /\ rx' = IF Len(rx) < RingCapacity THEN Append(rx, Head(air)) ELSE rx
    /\ UNCHANGED <<driverVars, pend, garbled, radio, historyVars, countVars>>

-----------------------------------------------------------------------------
(* AT exchanges: sendAT, and the exchange of the same shape in dataIn.     *)

Start(kind, todo) ==
    /\ pc = "idle"
    /\ pc' = "send"
    /\ job' = [kind |-> kind, todo |-> todo, tries |-> Retries]

(* The first command is tried again without end. *)
Conclude_Bug(ok) ==
    LET more == job.kind = "init" /\ ok /\ Len(job.todo) > 1
        again == job.kind = "init" /\ ~ ok /\ Head(job.todo) = "AT"
    IN  /\ result' = IF ok THEN "ok" ELSE "fail"
        /\ pc' = IF more \/ again THEN "send" ELSE "idle"
        /\ job' = CASE more  -> [job EXCEPT !.todo = Tail(@)]
                    [] again -> [job EXCEPT !.tries = @ - 1]
                    [] OTHER -> NoJob
        /\ m_state' = IF job.kind = "init" /\ ~ more /\ ~ again
                      THEN IF ok THEN "READY" ELSE "ERROR"
                      ELSE m_state
        /\ m_txCount' = m_txCount + (IF job.kind = "data" /\ ok THEN 1 ELSE 0)
        /\ m_txErrors' = m_txErrors + (IF job.kind = "data" /\ ~ ok THEN 1 ELSE 0)

(* The end of a handler that exchanged commands with the module.  Only the *)
(* first command of initModule is tried again.                             *)
Conclude(ok) ==
    LET more == job.kind = "init" /\ ok /\ Len(job.todo) > 1
        again == job.kind = "init" /\ ~ ok /\ Head(job.todo) = "AT" /\ job.tries > 1
    IN  /\ result' = IF ok THEN "ok" ELSE "fail"
        /\ pc' = IF more \/ again THEN "send" ELSE "idle"
        /\ job' = CASE more  -> [job EXCEPT !.todo = Tail(@)]
                    [] again -> [job EXCEPT !.tries = @ - 1]
                    [] OTHER -> NoJob
        /\ m_state' = IF job.kind = "init" /\ ~ more /\ ~ again
                      THEN IF ok THEN "READY" ELSE "ERROR"
                      ELSE m_state
        /\ m_txCount' = m_txCount + (IF job.kind = "data" /\ ok THEN 1 ELSE 0)
        /\ m_txErrors' = m_txErrors + (IF job.kind = "data" /\ ~ ok THEN 1 ELSE 0)

(* The command and CR LF go out, and readATLine begins with an empty       *)
(* buffer.                                                                 *)
Transmit ==
    LET sent == IF garbled THEN "GARBAGE" ELSE Head(job.todo)
    IN  /\ pc = "send"
        /\ pc' = "wait"
        /\ m_atBuf' = <<>>
        /\ pend' = IF Len(pend) < MaxPending THEN Append(pend, sent) ELSE pend
        /\ garbled' = FALSE
        /\ result' = "none"
        /\ verdict' = "none"
        /\ synced' = (pend = <<>> /\ air = <<>> /\ rx = <<>>)
        /\ quiet' = FALSE
        /\ UNCHANGED <<m_state, m_txCount, m_txErrors, m_rxCount, rx, job, drained,
                       air, radio, line, countVars>>

(* A failed write returns without counting. *)
TransmitFails_Bug(partial) ==
    /\ pc = "send"
    /\ garbled' = (garbled \/ partial)
    /\ verdict' = "none"
    /\ synced' = FALSE
    /\ result' = "fail" /\ pc' = "idle" /\ job' = NoJob
    /\ UNCHANGED <<m_state, m_atBuf, m_txCount, m_txErrors, m_rxCount, rx, drained,
                   pend, air, radio, line, quiet, countVars>>

(* hal_uart_write gives up at its deadline; what it had written stays in   *)
(* the module's input.                                                     *)
TransmitFails(partial) ==
    /\ pc = "send"
    /\ garbled' = (garbled \/ partial)
    /\ verdict' = "none"
    /\ synced' = FALSE
    /\ Conclude(FALSE)
    /\ UNCHANGED <<m_atBuf, m_rxCount, rx, drained, pend, air, radio, line, quiet, countVars>>

(* Any line of the module's is taken for success. *)
Success_Bug(kind, answer) == answer # <<>> /\ answer[1] \in Answers

(* What the caller of readATLine makes of the line in m_atBuf. *)
Success(kind, answer) ==
    /\ answer # <<>>
    /\ IF kind = "data" THEN answer[1] # "ERR"
       ELSE answer[1] \in {"OK", "RESET", "READY", "+RCV="}

(* readATLine takes a token.  At LF it returns, and leaves m_atBufLen      *)
(* where it is; a line too long for the buffer is given up.                *)
WaitLf == /\ pc = "wait" /\ rx # <<>> /\ Head(rx) = "LF"
          /\ rx' = Tail(rx)
          /\ line' = <<>>
          /\ Conclude(Success(job.kind, m_atBuf))
          /\ UNCHANGED <<m_atBuf, m_rxCount, drained, moduleVars, verdict, synced,
                         quiet, countVars>>

WaitByte == /\ pc = "wait" /\ rx # <<>> /\ Head(rx) # "LF"
            /\ Len(m_atBuf) < AtBufCapacity
            /\ rx' = Tail(rx)
            /\ m_atBuf' = Append(m_atBuf, Head(rx))
            /\ line' = Append(line, Head(rx))
            /\ UNCHANGED <<m_state, m_txCount, m_txErrors, m_rxCount, pc, job, drained,
                           moduleVars, result, verdict, synced, quiet, countVars>>

WaitOverrun == /\ pc = "wait" /\ rx # <<>> /\ Head(rx) # "LF"
               /\ Len(m_atBuf) = AtBufCapacity
               /\ rx' = Tail(rx)
               /\ m_atBuf' = <<>>
               /\ line' = Append(line, Head(rx))
               /\ Conclude(FALSE)
               /\ UNCHANGED <<m_rxCount, drained, moduleVars, verdict, synced, quiet,
                              countVars>>

(* The deadline is not looked at once a line has begun. *)
Timeout_Bug ==
    /\ pc = "wait" /\ m_atBuf = <<>>
    /\ Conclude(FALSE)
    /\ UNCHANGED <<m_atBuf, m_rxCount, rx, drained, moduleVars, verdict, synced, line,
                   quiet, countVars>>

(* readATLine reaches its deadline. *)
Timeout ==
    /\ pc = "wait"
    /\ Conclude(FALSE)
    /\ UNCHANGED <<m_atBuf, m_rxCount, rx, drained, moduleVars, verdict, synced, line,
                   quiet, countVars>>

-----------------------------------------------------------------------------
(* The handlers.                                                           *)

Preamble == /\ m_state = "UNINIT"
            /\ Start("init", InitCommands)
            /\ UNCHANGED <<m_state, m_atBuf, m_txCount, m_txErrors, m_rxCount, drained,
                           rx, moduleVars, historyVars, countVars>>

(* LORA_RESET. *)
CmdReset == /\ m_state # "UNINIT" /\ calls < MaxCalls
            /\ Start("init", InitCommands)
            /\ calls' = calls + 1
            /\ UNCHANGED <<m_state, m_atBuf, m_txCount, m_txErrors, m_rxCount, drained,
                           rx, moduleVars, historyVars, accepted, downlinks, packets>>

(* LORA_SEND_AT, LORA_SET_FREQ, LORA_SET_SF and LORA_SET_POWER, which do   *)
(* not look at m_state.  A command whose argument is refused does nothing. *)
CmdSend(c) == /\ m_state # "UNINIT" /\ calls < MaxCalls
              /\ Start("cmd", <<c>>)
              /\ calls' = calls + 1
              /\ UNCHANGED <<m_state, m_atBuf, m_txCount, m_txErrors, m_rxCount, drained,
                             rx, moduleVars, historyVars, accepted, downlinks, packets>>

(* dataIn with a payload of at most LORA_PAYLOAD_MAX bytes; a longer one,  *)
(* and any while the module is not ready, is dropped.                      *)
DataIn == /\ m_state = "READY" /\ accepted < MaxPayloads
          /\ Start("data", <<"SEND">>)
          /\ accepted' = accepted + 1
          /\ UNCHANGED <<m_state, m_atBuf, m_txCount, m_txErrors, m_rxCount, drained,
                         rx, moduleVars, historyVars, calls, downlinks, packets>>

(* Every poll starts with an empty buffer. *)
SchedIn_Bug == /\ pc = "idle" /\ m_state = "READY"
               /\ pc' = "poll"
               /\ drained' = 0
               /\ m_atBuf' = <<>>
               /\ UNCHANGED <<m_state, m_txCount, m_txErrors, m_rxCount, job,
                              rx, moduleVars, historyVars, countVars>>

(* schedIn: poll the ring, unless the module is not ready. *)
SchedIn == /\ pc = "idle" /\ m_state = "READY"
           /\ pc' = "poll"
           /\ drained' = 0
           /\ UNCHANGED <<m_state, m_atBuf, m_txCount, m_txErrors, m_rxCount, job,
                          rx, moduleVars, historyVars, countVars>>

(* What parseRcv may answer for a line: it reads the fields that follow    *)
(* the first "+RCV="; where an overrun has glued two lines together, that  *)
(* depends on the length of the first field.                               *)
ParseRcv(l) ==
    IF Len(l) >= 2 /\ l[1] = "+RCV=" /\ l[2] = "fields" THEN {TRUE}
    ELSE IF Len(l) >= 3 /\ l[1] = "+RCV=" /\ l[2] = "+RCV=" /\ l[3] = "fields" THEN BOOLEAN
    ELSE {FALSE}

(* The buffer is not reset at the end of a line. *)
PollLf_Bug == /\ pc = "poll" /\ drained < DrainLimit /\ rx # <<>> /\ Head(rx) = "LF"
              /\ rx' = Tail(rx)
              /\ drained' = drained + 1
              /\ \E parsed \in ParseRcv(m_atBuf) :
                    m_rxCount' = m_rxCount + (IF parsed THEN 1 ELSE 0)
              /\ line' = <<>>
              /\ quiet' = TRUE
              /\ UNCHANGED <<m_state, m_atBuf, m_txCount, m_txErrors, pc, job, moduleVars,
                             result, verdict, synced, countVars>>

(* pollRx takes a token; the first that overruns the buffer empties it.   *)
PollLf == /\ pc = "poll" /\ drained < DrainLimit /\ rx # <<>> /\ Head(rx) = "LF"
          /\ rx' = Tail(rx)
          /\ drained' = drained + 1
          /\ \E parsed \in ParseRcv(m_atBuf) :
                m_rxCount' = m_rxCount + (IF parsed THEN 1 ELSE 0)
          /\ m_atBuf' = <<>>
          /\ line' = <<>>
          /\ quiet' = TRUE
          /\ UNCHANGED <<m_state, m_txCount, m_txErrors, pc, job, moduleVars, result,
                         verdict, synced, countVars>>

PollByte == /\ pc = "poll" /\ drained < DrainLimit /\ rx # <<>> /\ Head(rx) # "LF"
            /\ rx' = Tail(rx)
            /\ drained' = drained + 1
            /\ m_atBuf' = IF Len(m_atBuf) < AtBufCapacity
                          THEN Append(m_atBuf, Head(rx)) ELSE <<>>
            /\ line' = Append(line, Head(rx))
            /\ UNCHANGED <<m_state, m_txCount, m_txErrors, m_rxCount, pc, job,
                           moduleVars, result, verdict, synced, quiet, countVars>>

PollEnd == /\ pc = "poll"
           /\ drained = DrainLimit \/ rx = <<>>
           /\ pc' = "idle"
           /\ drained' = 0
           /\ UNCHANGED <<m_state, m_atBuf, m_txCount, m_txErrors, m_rxCount, job,
                          rx, moduleVars, historyVars, countVars>>

-----------------------------------------------------------------------------
Driver == \/ Transmit
          \/ \E partial \in BOOLEAN : TransmitFails(partial)
          \/ WaitLf \/ WaitByte \/ WaitOverrun \/ Timeout
          \/ PollLf \/ PollByte \/ PollEnd

Module == \/ \E ok \in BOOLEAN : ModuleAnswers(ok)
          \/ ModuleIgnores
          \/ \E fields \in {"fields", "badfields"} : ModuleReceives(fields)
          \/ RxIrq

Calls == \/ Preamble \/ CmdReset \/ DataIn \/ SchedIn
         \/ \E c \in UserCommands : CmdSend(c)

Next == Driver \/ Module \/ Calls

Spec == Init /\ [][Next]_vars

(* A handler that has begun goes on: in particular hal_time_us passes the  *)
(* deadline of every wait.  Nothing is asked of the module.                *)
FairSpec == Spec /\ WF_vars(Driver)

-----------------------------------------------------------------------------
(* The type invariant. *)
TypeOK == /\ m_state \in {"UNINIT", "READY", "ERROR"}
          /\ m_atBuf \in Seq(Tokens \ {"LF"}) /\ Len(m_atBuf) <= AtBufCapacity
          /\ m_txCount \in Nat /\ m_txErrors \in Nat /\ m_rxCount \in Nat
          /\ rx \in Seq(Tokens) /\ Len(rx) <= RingCapacity
          /\ pc \in {"idle", "send", "wait", "poll"}
          /\ job \in [kind : {"none", "init", "cmd", "data"}, todo : Seq(Commands),
                      tries : 0 .. Retries]
          /\ drained \in 0 .. DrainLimit
          /\ pend \in Seq(Commands) /\ Len(pend) <= MaxPending
          /\ air \in Seq(Tokens) /\ garbled \in BOOLEAN /\ radio \subseteq Setting
          /\ result \in {"none", "ok", "fail"} /\ verdict \in {"none", "OK", "ERR"}
          /\ synced \in BOOLEAN /\ quiet \in BOOLEAN /\ line \in Seq(Tokens)
          /\ calls \in Nat /\ accepted \in Nat /\ downlinks \in Nat /\ packets \in Nat

(* An exchange that began with nothing under way between driver and module *)
(* and was not disturbed by a packet reports success only if the module    *)
(* accepted this very command: sendAT's test of two characters, and        *)
(* dataIn's test of one, are enough then.                                  *)
SyncedAckIsHonest == result = "ok" /\ synced => verdict = "OK"

(* Every payload dataIn takes is counted once, as sent or as failed,       *)
(* whichever of its five exits the handler leaves by; one that is being    *)
(* sent is not counted yet.                                                *)
EveryPayloadCountedOnce ==
    m_txCount + m_txErrors = accepted - (IF job.kind = "data" THEN 1 ELSE 0)

(* However lines are cut, glued or lost, m_rxCount never exceeds the       *)
(* number of well-formed packets the module reported.                      *)
RxNeverOvercounts == m_rxCount <= packets

(* A handler exchanges commands with the module exactly while it has one   *)
(* to send.                                                                *)
JobInv == /\ pc \in {"send", "wait"} <=> job.kind # "none"
          /\ job.kind # "none" => job.todo # <<>>

(* The well-formed packets in a sequence of tokens.                        *)
Places(s) == {k \in 1 .. Len(s) : s[k] = "fields"}
Held(s) == Cardinality(Places(s))

(* A packet is counted, or in the buffer, the ring or on the line, or lost *)
(* for ever: never in two of these.                                        *)
PacketInv == m_rxCount + Held(m_atBuf) + Held(rx) + Held(air) <= packets

(* An undisturbed exchange has at most its own command outstanding; until  *)
(* the module answers, nothing is on its way to the driver, and after a    *)
(* refusal nothing but the refusal.                                        *)
Refusal(s) == \A k \in 1 .. Len(s) : s[k] \in {"ERR", "LF"}
SyncInv ==
    synced => /\ Len(pend) <= 1
              /\ verdict # "none" => pend = <<>>
              /\ pc = "wait" /\ verdict = "none" => m_atBuf = <<>> /\ rx = <<>> /\ air = <<>>
              /\ pc = "wait" /\ verdict = "ERR" => Refusal(m_atBuf) /\ Refusal(rx) /\ Refusal(air)

(* The inductive invariant. *)
IInv == TypeOK /\ JobInv /\ EveryPayloadCountedOnce /\ PacketInv /\ SyncedAckIsHonest /\ SyncInv

(* A well-formed packet that the polls alone took from the ring, with no   *)
(* AT exchange since the line before it, is counted: cutting a line at the *)
(* end of a poll loses nothing.                                            *)
QuietPacketCounted ==
    [][ (pc = "poll" /\ quiet /\ rx # rx' /\ line = <<"+RCV=", "fields">> /\ line' = <<>>)
          => m_rxCount' = m_rxCount + 1 ]_vars

(* While only polls take tokens, the buffer holds the line that is being   *)
(* received, as long as it fits; an exchange makes an end of that.         *)
QuietInv == /\ pc = "wait" => ~ quiet
            /\ quiet /\ Len(line) <= AtBufCapacity => m_atBuf = line

(* A handler that has begun returns, even if the module is silent or never *)
(* stops sending: the driver never holds the only thread for ever.         *)
HandlerReturns == (pc # "idle") ~> (pc = "idle")

-----------------------------------------------------------------------------
(* Claims of the documentation that the code does not keep.                *)

(* README and fpp: RxPacketCount is the number of downlink packets         *)
(* received.  A well-formed line that pollRx takes whole from the ring     *)
(* would then be counted.                                                  *)
RcvLineCounted ==
    [][ (pc = "poll" /\ rx # rx' /\ line = <<"+RCV=", "fields">> /\ line' = <<>>)
          => m_rxCount' = m_rxCount + 1 ]_vars

(* fpp: ModuleReady is sent when the module is initialised and its RF      *)
(* parameters are confirmed.                                               *)
ReadyMeansConfigured ==
    [][ (m_state # "READY" /\ m_state' = "READY") => radio = Setting ]_vars
=============================================================================
