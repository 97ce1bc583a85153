------------------------------- MODULE OaspiCtl -------------------------------
(***************************************************************************)
(* The control plane of nxp/lpc1549_oaspi: who reads and writes the        *)
(* MACPHY's registers over the SPI bus it shares with the frames.          *)
(*   - eth_task resets and configures the MACPHY until that succeeds, then *)
(*     exchanges chunks, whose footers tell it of a reset;                 *)
(*   - usb_task serves a register command of the host and retries it until *)
(*     the MACPHY answers;                                                 *)
(*   - a task of the application calls ts_enable and mdio_c45_write.       *)
(* SPI::transceive holds the bus for a whole register command, so a        *)
(* command is one step.  A command fails when the MACPHY is held in reset, *)
(* when it does not protect control data (its echo is then not             *)
(* complemented), or when a bit is damaged, on the way out or back.        *)
(***************************************************************************)
EXTENDS Naturals, Sequences

CONSTANTS
  NULL,        \* nobody
  RESETS,      \* bound: resets of the MACPHY nobody asked for
  APP_CALLS    \* bound: calls of the application

ASSUME BoundAssumption ==
  RESETS \in Nat /\ APP_CALLS \in Nat /\ NULL \notin {"eth", "app"}

VARIABLES
  part,     \* the MACPHY: "ADIN1110" or "NCN26010"
  chip,     \* its registers, as far as somebody looks at them
  epc,      \* eth_task: "reset", "held", "configure" or "transfer"
  step,     \* place in configure()
  hid,      \* usb_task serves a register command
  apc,      \* the application: "idle", "ts", "addr" or "data"
  config0,  \* ts_enable: SYNC in the value read from CONFIG0
  mdio,     \* holder of mdio_lock_
  resets, calls

appVars == <<apc, config0, calls>>
vars == <<part, chip, epc, step, hid, appVars, mdio, resets>>

\* Registers after a reset.  Protection of the ADIN1110 is strapped on a pin.
\*   up       not held in reset           prote  control data is protected
\*   sync     CONFIG0 is written, SYNC=1  exst   STATUS0.RESETC is set
\*   settings the other registers are written    phy  the PHY is turned on
\*   addr     whose Clause 45 address was sent last
AfterReset ==
  [up |-> TRUE, prote |-> part = "ADIN1110", sync |-> FALSE, exst |-> TRUE,
   settings |-> FALSE, phy |-> part = "NCN26010", addr |-> NULL]

\* configure(): what each part's sequence of commands writes.
Steps ==
  IF part = "ADIN1110"
  THEN <<"resetc", "config0", "settings", "addr", "data">>
  ELSE <<"prote", "resetc", "config0", "settings">>

Configured == chip.sync /\ chip.settings /\ chip.phy

TypeOK ==
  /\ part \in {"ADIN1110", "NCN26010"}
  /\ chip \in [up : BOOLEAN, prote : BOOLEAN, sync : BOOLEAN, exst : BOOLEAN,
               settings : BOOLEAN, phy : BOOLEAN, addr : {NULL, "eth", "app"}]
  /\ epc \in {"reset", "held", "configure", "transfer"}
  /\ step \in 1 .. 5 /\ hid \in BOOLEAN
  /\ apc \in {"idle", "ts", "addr", "data"} /\ config0 \in BOOLEAN
  /\ mdio \in {NULL, "eth", "app"}
  /\ mdio = "eth" <=> epc = "configure" /\ Steps[step] = "data"
  /\ mdio = "app" <=> apc = "data"
  /\ resets \in 0 .. RESETS /\ calls \in 0 .. APP_CALLS

-----------------------------------------------------------------------------
\* reg_write: val is what the command makes of the registers; ok is what
\* oaspi_control_check says of the echo.
RegWrite(ok, val) ==
  /\ ok => chip.up /\ chip.prote
  /\ chip' \in IF ok THEN {val} ELSE IF chip.up THEN {val, chip} ELSE {chip}

\* What the command of a step writes.
Written(s) ==
  CASE s = "prote"    -> [chip EXCEPT !.prote = TRUE]
    [] s = "resetc"   -> [chip EXCEPT !.exst = FALSE]
    [] s = "config0"  -> [chip EXCEPT !.sync = TRUE, !.prote = TRUE]
    [] s = "settings" -> [chip EXCEPT !.settings = TRUE]
    [] s = "addr"     -> [chip EXCEPT !.addr = "eth"]
    [] s = "data"     -> [chip EXCEPT !.phy = @ \/ chip.addr = "eth"]

\* eth_task
\* reset(): the pin is asserted for 2 ms ...
AssertReset ==
  /\ epc = "reset"
  /\ chip' = [AfterReset EXCEPT !.up = FALSE]
  /\ epc' = "held"
  /\ UNCHANGED <<part, step, hid, appVars, mdio, resets>>

\* ... and released, and after 100 ms configure() starts.
ReleaseReset ==
  /\ epc = "held"
  /\ chip' = AfterReset
  /\ epc' = "configure" /\ step' = 1
  /\ UNCHANGED <<part, hid, appVars, mdio, resets>>

\* Mutant: configure() returns the result of its last command only.
StepDone_last(ok) ==
  IF step < Len(Steps) THEN step' = step + 1 /\ UNCHANGED epc
  ELSE epc' = (IF ok THEN "transfer" ELSE "reset") /\ UNCHANGED step

\* ret && ...: the first command that fails ends configure(); eth_task then
\* starts again from the reset.
StepDone(ok) ==
  IF ~ok THEN epc' = "reset" /\ UNCHANGED step
  ELSE IF step < Len(Steps) THEN step' = step + 1 /\ UNCHANGED epc
  ELSE epc' = "transfer" /\ UNCHANGED step

\* Mutant: mdio_lock_ covers each command, not the address and its data.
EthLock_each(ok) == mdio = NULL /\ UNCHANGED mdio

\* mdio_c45_write takes mdio_lock_ for the address and the data command.
EthLock(ok) ==
  CASE Steps[step] = "addr" -> mdio = NULL /\ mdio' = IF ok THEN "eth" ELSE NULL
    [] Steps[step] = "data" -> mdio' = NULL
    [] OTHER                -> UNCHANGED mdio

\* The NCN26010 is told to protect control data by a command that is not
\* protected itself, and whose result is not looked at.
ConfigureProtection ==
  /\ epc = "configure" /\ Steps[step] = "prote"
  /\ RegWrite(FALSE, Written("prote"))
  /\ StepDone(TRUE)
  /\ UNCHANGED <<part, hid, appVars, mdio, resets>>

ConfigureStep(ok) ==
  /\ epc = "configure" /\ Steps[step] # "prote"
  /\ RegWrite(ok, Written(Steps[step]))
  /\ EthLock(ok)
  /\ StepDone(ok)
  /\ UNCHANGED <<part, hid, appVars, resets>>

\* Mutant: a reset is noticed by SYNC only.
Transfer_sync ==
  /\ epc = "transfer"
  /\ epc' = IF ~chip.sync THEN "reset" ELSE epc
  /\ UNCHANGED <<part, chip, step, hid, appVars, mdio, resets>>

\* Mutant: init_good is never cleared.
Transfer_never ==
  /\ epc = "transfer"
  /\ UNCHANGED vars

\* data_transfer and process_rx_chunk: SYNC=0 or EXST=1 in a footer clears
\* init_good.
Transfer ==
  /\ epc = "transfer"
  /\ epc' = IF ~chip.sync \/ chip.exst THEN "reset" ELSE epc
  /\ UNCHANGED <<part, chip, step, hid, appVars, mdio, resets>>

-----------------------------------------------------------------------------
\* usb_task: a register command of the host, to a register nobody else uses
HidRequest ==
  /\ ~hid /\ hid' = TRUE
  /\ UNCHANGED <<part, chip, epc, step, appVars, mdio, resets>>

\* Each try that fails is tried again 5 ms later.
HidDone ==
  /\ hid /\ chip.up /\ chip.prote
  /\ hid' = FALSE
  /\ UNCHANGED <<part, chip, epc, step, appVars, mdio, resets>>

\* The application
TsRead ==
  /\ apc = "idle" /\ calls < APP_CALLS /\ chip.up /\ chip.prote
  /\ config0' = chip.sync
  /\ apc' = "ts" /\ calls' = calls + 1
  /\ UNCHANGED <<part, chip, epc, step, hid, mdio, resets>>

\* CONFIG0 is written back as read (PROTE was set, or the read had failed)
\* with the timestamp bits changed, under no lock: the MACPHY may have been
\* reset or configured since.
TsWrite ==
  /\ apc = "ts" /\ apc' = "idle"
  /\ \E ok \in BOOLEAN :
       RegWrite(ok, [chip EXCEPT !.sync = config0, !.prote = TRUE])
  /\ UNCHANGED <<part, epc, step, hid, config0, calls, mdio, resets>>

C45Call ==
  /\ apc = "idle" /\ calls < APP_CALLS
  /\ apc' = "addr" /\ calls' = calls + 1
  /\ UNCHANGED <<part, chip, epc, step, hid, config0, mdio, resets>>

C45Addr ==
  /\ apc = "addr" /\ mdio = NULL
  /\ \E ok \in BOOLEAN :
       /\ RegWrite(ok, [chip EXCEPT !.addr = "app"])
       /\ mdio' = IF ok THEN "app" ELSE NULL
       /\ apc'  = IF ok THEN "data" ELSE "idle"
  /\ UNCHANGED <<part, epc, step, hid, config0, calls, resets>>

C45Data ==
  /\ apc = "data"
  /\ \E ok \in BOOLEAN : RegWrite(ok, chip)
  /\ mdio' = NULL /\ apc' = "idle"
  /\ UNCHANGED <<part, epc, step, hid, config0, calls, resets>>

\* The MACPHY resets by itself.
ChipReset ==
  /\ chip.up /\ resets < RESETS
  /\ chip' = AfterReset /\ resets' = resets + 1
  /\ UNCHANGED <<part, epc, step, hid, appVars, mdio>>

-----------------------------------------------------------------------------
Init ==
  /\ part \in {"ADIN1110", "NCN26010"}
  /\ chip = AfterReset
  /\ epc = "reset" /\ step = 1 /\ hid = FALSE
  /\ apc = "idle" /\ config0 = FALSE /\ mdio = NULL
  /\ resets = 0 /\ calls = 0

Configure == ConfigureProtection \/ \E ok \in BOOLEAN : ConfigureStep(ok)
Eth == AssertReset \/ ReleaseReset \/ Configure \/ Transfer
App == TsRead \/ TsWrite \/ C45Call \/ C45Addr \/ C45Data

Next == Eth \/ HidRequest \/ HidDone \/ App \/ ChipReset

Spec == Init /\ [][Next]_vars

\* eth_task and a call of the application run on, and no command of
\* configure() is damaged every time.
FairSpec ==
  /\ Spec
  /\ WF_vars(Eth) /\ WF_vars(TsWrite \/ C45Data)
  /\ SF_vars(ConfigureProtection /\ chip'.prote)
  /\ \A i \in 1 .. 5 : SF_vars(step = i /\ ConfigureStep(TRUE))
  /\ SF_vars(HidDone)

-----------------------------------------------------------------------------
\* Properties.

\* While eth_task exchanges frames the MACPHY is configured, or its next
\* footer says that it is not (eth.cpp:162): no reset, of the MACPHY in the
\* middle of configure() or between ts_enable's read and its write, and no
\* failed command leaves a link that is silently dead.
ResetIsNoticed == epc = "transfer" => Configured \/ ~chip.sync \/ chip.exst

\* A Clause 45 data command never goes to the address another task sent
\* (oaspi.cpp:206, 222); after a reset it may go to none.
MdioOwnAddress ==
  /\ epc = "configure" /\ Steps[step] = "data" => chip.addr # "app"
  /\ apc = "data" => chip.addr # "eth"

\* The link comes back: in the end the MACPHY is configured and frames flow.
LinkRecovers == []<>(epc = "transfer" /\ Configured /\ ~chip.exst)

\* A register command of the host ends (usb.cpp:295, 307), although it is
\* retried inside tud_task: eth_task notices the reset that makes it fail.
HidEnds == hid ~> ~hid
=============================================================================
