------------------------------- MODULE SdCard -------------------------------
(***************************************************************************)
(* sd_init() and sdInit() of kern/sd.c: how the card is brought from       *)
(* power-on to the state in which sd_start() may use it, and the driver    *)
(* (SdDriver) after that.                                                  *)
(*                                                                         *)
(* A step is one exchange with the card, sdSendCommandP().  An exchange    *)
(* may go wrong in the ways the code looks at: the controller is busy, the *)
(* command or its answer is lost (a timeout), the answer is damaged.  The  *)
(* card is the state machine of the SD specification, as far as the        *)
(* commands of sdInit() go; a command that is illegal in its state is not  *)
(* answered.  Registers that are only printed, and voltages, are left out. *)
(***************************************************************************)
EXTENDS SdDriver

CONSTANTS Cards,   \* cards at power-on: what they are, and how often they answer busy
          Retries  \* the repetitions of ACMD41 in sdAppSendOpCond(): 6

ASSUME RetriesAssumption == Retries \in Nat
ASSUME CardsAssumption == Cards \subseteq [kind : {"hc", "sc2", "v1"}, bus4 : BOOLEAN, busy : Nat]

VARIABLES
    card,   \* the card
    sd,     \* sdCard, the driver's idea of it, and the bus width of *EMMC_CONTROL0
    boot,   \* where sd_init() is
    hcs,    \* the argument of sdAppSendOpCond(): ACMD41_ARG_HC or ACMD41_ARG_SC
    count,  \* the repetitions sdAppSendOpCond() has left
    fault   \* an exchange has gone wrong (history)

cardVars == <<card, sd, boot, hcs, count, fault>>
sdVars   == <<vars, cardVars>>

PowerOn(c) == [kind |-> c.kind, bus4 |-> c.bus4, busy |-> c.busy,
               state |-> "idle", app |-> FALSE, rca |-> 0, bus |-> 1]

\* What sdResetCard() leaves in sdCard.
Cleared == [init |-> FALSE, type |-> "unknown", rca |-> 0, ocr |-> "none", bus |-> 1]

CardInit ==
    /\ \E c \in Cards : card = PowerOn(c)
    /\ sd = Cleared
    /\ boot = "clock"
    /\ hcs = FALSE /\ count = 0 /\ fault = FALSE

-----------------------------------------------------------------------------
(* The card.                                                               *)

NoResponse == {"GO_IDLE_STATE", "APP_CMD"}

\* The commands the card accepts now, ST_APP_CMD and its address included.
Legal(cmd) ==
    CASE cmd = "GO_IDLE_STATE" -> TRUE
      [] cmd = "SEND_IF_COND"  -> card.state = "idle" /\ card.kind # "v1"
      [] cmd = "APP_CMD"       -> card.state = "idle"
      [] cmd = "SEND_OP_COND"  -> card.state = "idle" /\ card.app
      [] cmd = "ALL_SEND_CID"  -> card.state = "ready"
      [] cmd = "SEND_REL_ADDR" -> card.state \in {"ident", "stby"}
      [] cmd \in {"SEND_CSD", "CARD_SELECT"} -> card.state = "stby" /\ card.rca = sd.rca
      [] cmd = "APP_CMD_RCA"   -> card.state \in {"stby", "tran"} /\ card.rca = sd.rca
      [] cmd \in {"SEND_SCR", "SET_BUS_WIDTH"} -> card.state = "tran" /\ card.app
      [] cmd = "SET_BLOCKLEN"  -> card.state = "tran"

\* A high-capacity card that is not told of HCS stays busy.
PoweredUp == card.busy = 0 /\ (card.kind = "hc" => hcs)

\* The card after a command it accepts.  ST_APP_CMD lasts for one command.
Accept(cmd) ==
    LET c == [card EXCEPT !.app = FALSE] IN
    CASE cmd = "GO_IDLE_STATE" -> [c EXCEPT !.state = "idle", !.rca = 0, !.bus = 1]
      [] cmd \in {"APP_CMD", "APP_CMD_RCA"} -> [c EXCEPT !.app = TRUE]
      [] cmd = "SEND_OP_COND"  -> IF PoweredUp THEN [c EXCEPT !.state = "ready"]
                                  ELSE [c EXCEPT !.busy = IF @ > 0 THEN @ - 1 ELSE 0]
      [] cmd = "ALL_SEND_CID"  -> [c EXCEPT !.state = "ident"]
      [] cmd = "SEND_REL_ADDR" -> [c EXCEPT !.state = "stby", !.rca = 1]
      [] cmd = "CARD_SELECT"   -> [c EXCEPT !.state = "tran"]
      [] cmd = "SET_BUS_WIDTH" -> [c EXCEPT !.bus = 4]
      [] OTHER -> c

Heard(cmd) == IF Legal(cmd) THEN Accept(cmd) ELSE [card EXCEPT !.app = FALSE]

\* sdSendCommandP(): sdWaitForCommand() gives up (SD_BUSY), or the command is
\* sent and sdWaitForInterrupt(INT_CMD_DONE) or the status bits say how it went.
\* A command without a response is done when it is sent, whoever heard it.
Exchanges(cmd) ==
    [res : {"busy"}, card : {card}, fault : {TRUE}]
      \cup [res : {"timeout", "error"}, card : {card, Heard(cmd)}, fault : {TRUE}]
      \cup (IF cmd \in NoResponse
            THEN [res : {"ok"}, card : {card}, fault : {TRUE}]
                   \cup [res : {"ok"}, card : {Heard(cmd)}, fault : {FALSE}]
            ELSE [res : {IF Legal(cmd) THEN "ok" ELSE "timeout"}, card : {Heard(cmd)}, fault : {FALSE}])

\* sdSendCommand(), sdSendCommandA(): one exchange.
sdSendCommand(x) == card' = x.card /\ fault' = (fault \/ x.fault)

\* K says what the driver makes of the result.
Send(cmd, K(_)) == \E x \in Exchanges(cmd) : sdSendCommand(x) /\ K(x.res)

GotoBoot(l) == boot' = l
Fail        == GotoBoot("failed") /\ UNCHANGED <<sd, hcs, count>>
KeepDriver  == UNCHANGED vars

\* A wait or a register of the controller that may disappoint: its failure is a fault.
MayFail(Ok) ==
    /\ UNCHANGED card
    /\ \/ Ok /\ UNCHANGED fault
       \/ Fail /\ fault' = TRUE

\* "if ((resp = sdSendCommand(..))) return ..": any result but SD_OK ends sdInit().
Must(cmd, l) ==
    Send(cmd, LAMBDA res : IF res = "ok" THEN GotoBoot(l) /\ UNCHANGED <<sd, hcs, count>> ELSE Fail)

-----------------------------------------------------------------------------
(* sdInit()                                                                *)

\* sdGetBaseClock().
BaseClock ==
    /\ boot = "clock"
    /\ MayFail(GotoBoot("reset") /\ UNCHANGED <<sd, hcs, count>>)
    /\ KeepDriver

\* sdResetCard(): the controller, the clock, the fields of sdCard.
ResetHost ==
    /\ boot \in {"reset", "reset_old"}
    /\ MayFail(sd' = Cleared /\ GotoBoot(IF boot = "reset" THEN "idle" ELSE "idle_old") /\ UNCHANGED <<hcs, count>>)
    /\ KeepDriver

\* It ends with GO_IDLE_STATE.
GoIdle ==
    /\ boot \in {"idle", "idle_old"}
    /\ IF boot = "idle" THEN Must("GO_IDLE_STATE", "if_cond")
       ELSE Send("GO_IDLE_STATE",
                 LAMBDA res : IF res = "ok"
                              THEN GotoBoot("app41") /\ hcs' = FALSE /\ count' = Retries /\ UNCHANGED sd
                              ELSE Fail)
    /\ KeepDriver

\* SEND_IF_COND: only a newer card answers.  SD_BUSY is an error, every other
\* result stands for an old card.
SendIfCond ==
    /\ boot = "if_cond"
    /\ Send("SEND_IF_COND",
            LAMBDA res : CASE res = "ok"   -> GotoBoot("app41") /\ hcs' = TRUE /\ count' = Retries /\ UNCHANGED sd
                           [] res = "busy" -> Fail
                           [] OTHER        -> GotoBoot("old") /\ UNCHANGED <<sd, hcs, count>>)
    /\ KeepDriver

\* "If there appears to be a command in progress, reset the card."
OldCard ==
    /\ boot = "old"
    /\ \/ GotoBoot("reset_old") /\ UNCHANGED <<hcs, count>>
       \/ GotoBoot("app41") /\ hcs' = FALSE /\ count' = Retries
    /\ UNCHANGED <<card, sd, fault>>
    /\ KeepDriver

\* sdSendAppCommand() without an RCA does not look at the result.
AppCmd41 ==
    /\ boot = "app41"
    /\ Send("APP_CMD", LAMBDA res : GotoBoot("acmd41") /\ UNCHANGED <<sd, hcs, count>>)
    /\ KeepDriver

\* The OCR an answer brings: R3_COMPLETE and, with it, R3_CCS.
OcrOf(c) == IF c.state # "ready" THEN "busy" ELSE IF c.kind = "hc" THEN "ccs" ELSE "complete"

Complete(ocr) == ocr \in {"complete", "ccs"}

\* Bug: every card that answered SEND_IF_COND is taken for a high-capacity one.
Bug_TypeByIfCond(ocr) == IF hcs THEN "SD_TYPE_2_HC" ELSE "SD_TYPE_1"

\* The type of the card: HC or SC after SEND_IF_COND, 1 otherwise.
TypeOf(ocr) == IF ~hcs THEN "SD_TYPE_1" ELSE IF ocr = "ccs" THEN "SD_TYPE_2_HC" ELSE "SD_TYPE_2_SC"

\* Bug: one repetition too few.
Bug_OneTryLess(ocr) ==
    IF Complete(ocr) THEN /\ sd' = [sd EXCEPT !.ocr = ocr, !.type = TypeOf(ocr)]
                          /\ GotoBoot("cid") /\ count' = 0 /\ UNCHANGED hcs
    ELSE IF count > 1 THEN /\ sd' = [sd EXCEPT !.ocr = ocr]
                           /\ GotoBoot("app41") /\ count' = count - 1 /\ UNCHANGED hcs
    ELSE Fail

\* Bug: the repetitions are not counted.
Bug_Uncounted(ocr) ==
    IF Complete(ocr) THEN /\ sd' = [sd EXCEPT !.ocr = ocr, !.type = TypeOf(ocr)]
                          /\ GotoBoot("cid") /\ count' = 0 /\ UNCHANGED hcs
    ELSE sd' = [sd EXCEPT !.ocr = ocr] /\ GotoBoot("app41") /\ UNCHANGED <<count, hcs>>

\* After an exchange: done, again while repetitions are left, or SD_TIMEOUT.
OpCond(ocr) ==
    IF Complete(ocr) THEN /\ sd' = [sd EXCEPT !.ocr = ocr, !.type = TypeOf(ocr)]
                          /\ GotoBoot("cid") /\ count' = 0 /\ UNCHANGED hcs
    ELSE IF count > 0 THEN /\ sd' = [sd EXCEPT !.ocr = ocr]
                           /\ GotoBoot("app41") /\ count' = count - 1 /\ UNCHANGED hcs
    ELSE Fail

\* sdAppSendOpCond(): a timeout is tolerated, another error ends it.
AppSendOpCond ==
    /\ boot = "acmd41"
    /\ \E x \in Exchanges("SEND_OP_COND") :
         /\ sdSendCommand(x)
         /\ CASE x.res = "ok"      -> OpCond(OcrOf(x.card))
              [] x.res = "timeout" -> OpCond(sd.ocr)
              [] OTHER             -> Fail
    /\ KeepDriver

AllSendCid == boot = "cid" /\ Must("ALL_SEND_CID", "rca") /\ KeepDriver

SendRelAddr ==
    /\ boot = "rca"
    /\ Send("SEND_REL_ADDR",
            LAMBDA res : IF res = "ok" THEN sd' = [sd EXCEPT !.rca = 1] /\ GotoBoot("csd") /\ UNCHANGED <<hcs, count>>
                         ELSE Fail)
    /\ KeepDriver

SendCsd == boot = "csd" /\ Must("SEND_CSD", "speed") /\ KeepDriver

\* sdParseCSD() finds a known file format; sdSetClock(FREQ_NORMAL).
FullSpeed ==
    /\ boot = "speed"
    /\ MayFail(GotoBoot("select") /\ UNCHANGED <<sd, hcs, count>>)
    /\ KeepDriver

CardSelect == boot = "select" /\ Must("CARD_SELECT", "scr_app") /\ KeepDriver

\* sdSendAppCommand() with an RCA: it must succeed and show ST_APP_CMD.
AppCmdRca ==
    /\ boot \in {"scr_app", "bus_app"}
    /\ Must("APP_CMD_RCA", IF boot = "scr_app" THEN "scr" ELSE "bus")
    /\ KeepDriver

\* sdReadSCR(): SEND_SCR, then its eight bytes.
ReadScr ==
    /\ boot = "scr"
    /\ Must("SEND_SCR", "scr_data")
    /\ KeepDriver

ScrData ==
    /\ boot = "scr_data"
    /\ MayFail(GotoBoot(IF card.bus4 THEN "bus_app" ELSE "blocklen") /\ UNCHANGED <<sd, hcs, count>>)
    /\ KeepDriver

\* SET_BUS_WIDTH, then *EMMC_CONTROL0 |= C0_HCTL_DWITDH.
SetBusWidth ==
    /\ boot = "bus"
    /\ Send("SET_BUS_WIDTH",
            LAMBDA res : IF res = "ok" THEN sd' = [sd EXCEPT !.bus = 4] /\ GotoBoot("blocklen") /\ UNCHANGED <<hcs, count>>
                         ELSE Fail)
    /\ KeepDriver

\* SET_BLOCKLEN and sdCard.init = 1, which sd_init() asserts.  It then reads the
\* partition table by polling; the results of those waits are not looked at.
\* The locals and the history of sdInit() end here.
SetBlockLen ==
    /\ boot = "blocklen"
    /\ \E x \in Exchanges("SET_BLOCKLEN") :
         /\ card' = x.card
         /\ IF x.res = "ok" THEN /\ sd' = [sd EXCEPT !.init = TRUE]
                                 /\ GotoBoot("up") /\ fault' = FALSE /\ hcs' = FALSE /\ UNCHANGED count
            ELSE Fail /\ fault' = (fault \/ x.fault)
    /\ KeepDriver

BootStep ==
    \/ BaseClock \/ ResetHost \/ GoIdle \/ SendIfCond \/ OldCard \/ AppCmd41 \/ AppSendOpCond
    \/ AllSendCid \/ SendRelAddr \/ SendCsd \/ FullSpeed \/ CardSelect
    \/ AppCmdRca \/ ReadScr \/ ScrData \/ SetBusWidth \/ SetBlockLen

\* main(): the other CPUs and the processes run once sd_init() has returned.
DriverStep == boot = "up" /\ Next /\ UNCHANGED cardVars

SdNext == BootStep \/ DriverStep

SdInit == Init /\ CardInit
SdFairness == Fairness /\ WF_sdVars(BootStep)
SdSpec == SdInit /\ [][SdNext]_sdVars /\ SdFairness

-----------------------------------------------------------------------------
\* What sd_start() relies on once sdCard.init is set ("Address is different
\* depending on the card type", and the data lines): the card is selected under
\* the driver's RCA, both sides use the same bus width, and the driver addresses
\* it by block exactly if it is a high-capacity card, whatever was lost on the
\* way (a lost answer to SEND_IF_COND makes it look like an old card).
CardReady ==
    sd.init => /\ card.state = "tran" /\ card.rca = sd.rca /\ card.bus = sd.bus
               /\ sd.type = "SD_TYPE_2_HC" <=> card.kind = "hc"

\* Every command of sdInit() comes in an order the card accepts, and a card
\* that answers busy as often as sdAppSendOpCond() repeats is still brought up:
\* sdInit() only fails if an exchange went wrong.
FailsOnlyOnFault == boot = "failed" => fault

\* sdInit() ends, with the card up or with an error, however often exchanges
\* go wrong.
BootEnds == <>(boot \in {"up", "failed"})
=============================================================================
