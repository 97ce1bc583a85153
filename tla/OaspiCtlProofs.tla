---------------------------- MODULE OaspiCtlProofs ----------------------------
(* Theorems about OaspiCtl, for every number of resets and of calls. *)
EXTENDS OaspiCtl, TLAPS

-----------------------------------------------------------------------------
(* The inductive invariant: unless the reset status is set, what configure() *)
(* has written so far is still there.                                        *)

Parts == {"ADIN1110", "NCN26010"}

Chips == [up : BOOLEAN, prote : BOOLEAN, sync : BOOLEAN, exst : BOOLEAN,
          settings : BOOLEAN, phy : BOOLEAN, addr : {NULL, "eth", "app"}]

StepInv == step <= Len(Steps)

\* The settings come before the PHY is turned on, the address before its data.
WrittenInv ==
  /\ part = "NCN26010" => chip.phy
  /\ epc = "configure" =>
       chip.exst \/ /\ Steps[step] \in {"addr", "data"} => chip.settings
                    /\ Steps[step] = "data" => chip.addr = "eth"
  /\ epc = "transfer" => chip.exst \/ (chip.settings /\ chip.phy)

\* TypeOK, with its parts about the chip and about the locks set apart.
LockInv ==
  /\ mdio \in {NULL, "eth", "app"}
  /\ mdio = "eth" <=> epc = "configure" /\ Steps[step] = "data"
  /\ mdio = "app" <=> apc = "data"

OtherTypes ==
  /\ part \in Parts /\ chip \in Chips
  /\ epc \in {"reset", "held", "configure", "transfer"}
  /\ step \in 1 .. 5 /\ hid \in BOOLEAN
  /\ apc \in {"idle", "ts", "addr", "data"} /\ config0 \in BOOLEAN
  /\ resets \in 0 .. RESETS /\ calls \in 0 .. APP_CALLS

IInv == OtherTypes /\ LockInv /\ StepInv /\ WrittenInv /\ MdioOwnAddress

\* The sequences of the two parts, command by command.
LEMMA StepFacts ==
  ASSUME part \in Parts, step \in 1 .. 5, StepInv
  PROVE  \/ step < Len(Steps) /\ step + 1 \in 1 .. 5 /\ step + 1 <= Len(Steps)
            /\ \/ Steps[step] = "prote" /\ Steps[step + 1] = "resetc"
               \/ Steps[step] = "resetc" /\ Steps[step + 1] = "config0"
               \/ Steps[step] = "config0" /\ Steps[step + 1] = "settings"
               \/ /\ Steps[step] = "settings" /\ Steps[step + 1] = "addr"
                  /\ part = "ADIN1110"
               \/ Steps[step] = "addr" /\ Steps[step + 1] = "data"
         \/ step = Len(Steps) /\ \/ part = "ADIN1110" /\ Steps[step] = "data"
                                 \/ part = "NCN26010" /\ Steps[step] = "settings"
  <1>1. CASE part = "ADIN1110"
    <2>1. step \in {1, 2, 3, 4, 5}
      OBVIOUS
    <2> QED BY <1>1, <2>1 DEF Steps
  <1>2. CASE part = "NCN26010"
    <2>1. step \in {1, 2, 3, 4}
      BY <1>2 DEF StepInv, Steps
    <2> QED BY <1>2, <2>1 DEF Steps
  <1> QED BY <1>1, <1>2 DEF Parts

LEMMA FirstStep ==
  ASSUME part \in Parts
  PROVE  1 <= Len(Steps) /\ Steps[1] \in {"prote", "resetc"}
  BY DEF Steps, Parts

\* A register command leaves registers.
LEMMA RegWriteTypes ==
  ASSUME chip \in Chips, NEW ok \in BOOLEAN, NEW val \in Chips, RegWrite(ok, val)
  PROVE  chip' \in Chips /\ chip' \in {chip, val} /\ (ok => chip' = val)
  BY DEF RegWrite

LEMMA WrittenTypes ==
  ASSUME chip \in Chips,
         NEW s \in {"prote", "resetc", "config0", "settings", "addr", "data"}
  PROVE  Written(s) \in Chips
<1>1. /\ Written("prote") \in Chips /\ Written("resetc") \in Chips
      /\ Written("config0") \in Chips
  BY DEF Chips, Written
<1>2. /\ Written("settings") \in Chips /\ Written("addr") \in Chips
      /\ Written("data") \in Chips
  BY DEF Chips, Written
<1> QED BY <1>1, <1>2, Zenon

LEMMA TypeParts == TypeOK <=> OtherTypes /\ LockInv
  BY DEF TypeOK, OtherTypes, LockInv, Parts, Chips

LEMMA ResetTypes ==
  ASSUME part \in Parts PROVE AfterReset \in Chips
  BY DEF AfterReset, Chips

\* The sequence of commands is the part's, and the part does not change.
LEMMA SameSteps ==
  ASSUME part' = part PROVE Steps' = Steps
  BY DEF Steps

-----------------------------------------------------------------------------
(* eth_task *)

LEMMA AssertResetStep ==
  ASSUME IInv, AssertReset PROVE IInv'
<1>1. part' = part /\ Steps' = Steps
  BY SameSteps DEF AssertReset
<1>2. OtherTypes'
  BY ResetTypes, <1>1 DEF IInv, AssertReset, OtherTypes, appVars, Chips
<1>3. LockInv' /\ StepInv'
  BY <1>1 DEF IInv, AssertReset, LockInv, StepInv, appVars
<1>4. WrittenInv' /\ MdioOwnAddress'
  BY <1>1, BoundAssumption
     DEF IInv, AssertReset, WrittenInv, MdioOwnAddress, AfterReset, BoundAssumption
<1> QED BY <1>2, <1>3, <1>4 DEF IInv

LEMMA ReleaseResetStep ==
  ASSUME IInv, ReleaseReset PROVE IInv'
<1>1. part' = part /\ Steps' = Steps
  BY SameSteps DEF ReleaseReset
<1>2. OtherTypes'
  BY ResetTypes, <1>1 DEF IInv, ReleaseReset, OtherTypes, appVars
<1>3. LockInv' /\ StepInv'
  BY <1>1, FirstStep DEF IInv, ReleaseReset, LockInv, OtherTypes, StepInv, appVars
<1>4. WrittenInv' /\ MdioOwnAddress'
  BY <1>1, BoundAssumption
     DEF IInv, ReleaseReset, WrittenInv, MdioOwnAddress, AfterReset, BoundAssumption
<1> QED BY <1>2, <1>3, <1>4 DEF IInv

LEMMA ConfigureProtectionStep ==
  ASSUME IInv, ConfigureProtection PROVE IInv'
<1>1. part' = part /\ Steps' = Steps
  BY SameSteps DEF ConfigureProtection
<1>2. step' = step + 1 /\ step' \in 1 .. 5 /\ step' <= Len(Steps)
      /\ Steps[step'] = "resetc" /\ epc' = epc
  BY StepFacts DEF IInv, OtherTypes, ConfigureProtection, StepDone
<1>3. chip' \in Chips /\ chip' \in {chip, Written("prote")}
  BY WrittenTypes, RegWriteTypes DEF IInv, OtherTypes, ConfigureProtection
<1>4. chip'.phy = chip.phy /\ chip'.addr = chip.addr
  BY <1>3 DEF Written, IInv, OtherTypes, Chips
<1>5. OtherTypes'
  BY <1>1, <1>2, <1>3 DEF IInv, OtherTypes, ConfigureProtection, appVars
<1>6. LockInv' /\ StepInv'
  BY <1>1, <1>2 DEF IInv, LockInv, StepInv, ConfigureProtection, appVars
<1>7. WrittenInv' /\ MdioOwnAddress'
  BY <1>1, <1>2, <1>4 DEF IInv, ConfigureProtection, WrittenInv, MdioOwnAddress, appVars
<1> QED BY <1>5, <1>6, <1>7 DEF IInv

\* Where a command leads.
LEMMA ConfigureGoes ==
  ASSUME IInv, NEW ok \in BOOLEAN, ConfigureStep(ok)
  PROVE  /\ part' = part /\ Steps' = Steps
         /\ step' \in 1 .. 5 /\ step' <= Len(Steps)
         /\ Steps[step] \in {"resetc", "config0", "settings", "addr", "data"}
         /\ \/ ~ok /\ epc' = "reset"
            \/ /\ ok /\ epc' = "configure" /\ step' = step + 1
               /\ \/ Steps[step] = "resetc" /\ Steps[step'] = "config0"
                  \/ Steps[step] = "config0" /\ Steps[step'] = "settings"
                  \/ Steps[step] = "settings" /\ Steps[step'] = "addr"
                  \/ Steps[step] = "addr" /\ Steps[step'] = "data"
            \/ /\ ok /\ epc' = "transfer"
               /\ \/ part = "ADIN1110" /\ Steps[step] = "data"
                  \/ part = "NCN26010" /\ Steps[step] = "settings"
<1>1. part' = part /\ Steps' = Steps
  BY SameSteps DEF ConfigureStep
<1> QED BY <1>1, StepFacts DEF IInv, OtherTypes, StepInv, ConfigureStep, StepDone

\* What it makes of the locks and of the registers.
LEMMA ConfigureLocks ==
  ASSUME IInv, NEW ok \in BOOLEAN, ConfigureStep(ok) PROVE LockInv'
<1> USE ConfigureGoes, BoundAssumption DEF BoundAssumption
<1>1. apc' = apc /\ epc = "configure" /\ EthLock(ok)
  BY DEF ConfigureStep, appVars
<1>2. CASE Steps[step] = "addr"
  <2>1. mdio = NULL /\ mdio' = IF ok THEN "eth" ELSE NULL
    BY <1>1, <1>2 DEF EthLock
  <2> QED BY <1>1, <1>2, <2>1 DEF IInv, LockInv
<1>3. CASE Steps[step] = "data"
  <2>1. mdio = "eth" /\ mdio' = NULL
    BY <1>1, <1>3 DEF EthLock, IInv, LockInv
  <2> QED BY <1>1, <1>3, <2>1 DEF IInv, LockInv
<1>4. CASE Steps[step] \notin {"addr", "data"}
  <2>1. mdio' = mdio
    BY <1>1, <1>4 DEF EthLock
  <2> QED BY <1>1, <1>4, <2>1 DEF IInv, LockInv
<1> QED BY <1>2, <1>3, <1>4

LEMMA ConfigureWrites ==
  ASSUME IInv, NEW ok \in BOOLEAN, ConfigureStep(ok)
  PROVE  /\ chip' \in Chips
         /\ chip.phy => chip'.phy
         /\ Steps[step] # "addr" => chip'.addr = chip.addr
         /\ chip'.addr \in {chip.addr, "eth"}
         /\ ok /\ Steps[step] = "settings" => chip'.settings
         /\ ok /\ Steps[step] = "addr" => chip'.addr = "eth"
         /\ ok /\ Steps[step] = "data" /\ chip.addr = "eth" => chip'.phy
         /\ Steps[step] \in {"addr", "data"} =>
              chip'.exst = chip.exst /\ chip'.settings = chip.settings
<1>1. chip' \in Chips /\ chip' \in {chip, Written(Steps[step])}
      /\ (ok => chip' = Written(Steps[step]))
  BY ConfigureGoes, WrittenTypes, RegWriteTypes DEF IInv, OtherTypes, ConfigureStep
<1>2. chip \in Chips
  BY DEF IInv, OtherTypes
<1>3. CASE Steps[step] = "resetc"
  <2>1. Written(Steps[step]) = [chip EXCEPT !.exst = FALSE]
    BY <1>3 DEF Written
  <2> QED BY <1>1, <1>2, <1>3, <2>1 DEF Chips
<1>4. CASE Steps[step] = "config0"
  <2>1. Written(Steps[step]) = [chip EXCEPT !.sync = TRUE, !.prote = TRUE]
    BY <1>4 DEF Written
  <2> QED BY <1>1, <1>2, <1>4, <2>1 DEF Chips
<1>5. CASE Steps[step] = "settings"
  <2>1. Written(Steps[step]) = [chip EXCEPT !.settings = TRUE]
    BY <1>5 DEF Written
  <2> QED BY <1>1, <1>2, <1>5, <2>1 DEF Chips
<1>6. CASE Steps[step] = "addr"
  <2>1. Written(Steps[step]) = [chip EXCEPT !.addr = "eth"]
    BY <1>6 DEF Written
  <2> QED BY <1>1, <1>2, <1>6, <2>1 DEF Chips
<1>7. CASE Steps[step] = "data"
  <2>1. Written(Steps[step]) = [chip EXCEPT !.phy = @ \/ chip.addr = "eth"]
    BY <1>7 DEF Written
  <2> QED BY <1>1, <1>2, <1>7, <2>1 DEF Chips
<1> QED BY <1>3, <1>4, <1>5, <1>6, <1>7, ConfigureGoes

LEMMA ConfigureStepStep ==
  ASSUME IInv, NEW ok \in BOOLEAN, ConfigureStep(ok) PROVE IInv'
<1> USE ConfigureGoes, ConfigureWrites
<1>1. OtherTypes' /\ StepInv'
  BY DEF IInv, OtherTypes, StepInv, ConfigureStep, appVars
<1>2. WrittenInv'
  BY DEF IInv, WrittenInv, ConfigureStep
<1>3. MdioOwnAddress'
  <2>1. apc' = apc /\ epc = "configure"
    BY DEF ConfigureStep, appVars
  <2>2. apc = "data" => Steps[step] # "addr"
    BY BoundAssumption DEF IInv, LockInv, BoundAssumption, ConfigureStep, EthLock
  <2>3. epc' = "configure" /\ Steps[step'] = "data" => chip'.addr = "eth"
    OBVIOUS
  <2> QED BY <2>1, <2>2, <2>3 DEF IInv, MdioOwnAddress
<1> QED BY <1>1, <1>2, <1>3, ConfigureLocks DEF IInv

LEMMA TransferStep ==
  ASSUME IInv, Transfer PROVE IInv'
<1>1. part' = part /\ Steps' = Steps
  BY SameSteps DEF Transfer
<1> QED BY <1>1 DEF IInv, Transfer, OtherTypes, LockInv, StepInv, WrittenInv, MdioOwnAddress, appVars

-----------------------------------------------------------------------------
(* usb_task, the application and the MACPHY *)

LEMMA HidStep ==
  ASSUME IInv, HidRequest \/ HidDone PROVE IInv'
<1>1. part' = part /\ Steps' = Steps
  BY SameSteps DEF HidRequest, HidDone
<1>2. UNCHANGED <<chip, epc, step, apc, config0, calls, mdio, resets>> /\ hid' \in BOOLEAN
  BY DEF HidRequest, HidDone, appVars
<1>3. OtherTypes'
  BY <1>1, <1>2 DEF IInv, OtherTypes
<1>4. LockInv' /\ StepInv' /\ WrittenInv'
  BY <1>1, <1>2 DEF IInv, LockInv, StepInv, WrittenInv
<1>5. MdioOwnAddress'
  BY <1>1, <1>2 DEF IInv, MdioOwnAddress
<1> QED BY <1>3, <1>4, <1>5 DEF IInv

LEMMA TsReadStep ==
  ASSUME IInv, TsRead PROVE IInv'
<1>1. part' = part /\ Steps' = Steps
  BY SameSteps DEF TsRead
<1>2. calls' \in 0 .. APP_CALLS
  BY BoundAssumption DEF TsRead, IInv, OtherTypes, BoundAssumption
<1>3. config0' \in BOOLEAN
  BY DEF TsRead, IInv, OtherTypes, Chips
<1> QED BY <1>1, <1>2, <1>3 DEF IInv, TsRead, OtherTypes, LockInv, StepInv, WrittenInv,
        MdioOwnAddress

\* What is written back concerns neither the reset status nor the settings.
LEMMA TsWriteStep ==
  ASSUME IInv, TsWrite PROVE IInv'
<1>1. part' = part /\ Steps' = Steps
  BY SameSteps DEF TsWrite
<1>2. chip \in Chips /\ config0 \in BOOLEAN
  BY DEF IInv, OtherTypes
<1>3. [chip EXCEPT !.sync = config0, !.prote = TRUE] \in Chips
  BY <1>2 DEF Chips
<1>4. chip' \in {chip, [chip EXCEPT !.sync = config0, !.prote = TRUE]}
  BY <1>2, <1>3, RegWriteTypes DEF TsWrite
<1>5. /\ chip' \in Chips /\ chip'.exst = chip.exst /\ chip'.settings = chip.settings
      /\ chip'.phy = chip.phy /\ chip'.addr = chip.addr
  BY <1>2, <1>3, <1>4 DEF Chips
<1>6. OtherTypes' /\ LockInv' /\ StepInv'
  BY <1>1, <1>5 DEF IInv, TsWrite, OtherTypes, LockInv, StepInv
<1>7. WrittenInv' /\ MdioOwnAddress'
  BY <1>1, <1>5 DEF IInv, TsWrite, WrittenInv, MdioOwnAddress
<1> QED BY <1>6, <1>7 DEF IInv

LEMMA C45CallStep ==
  ASSUME IInv, C45Call PROVE IInv'
<1>1. part' = part /\ Steps' = Steps
  BY SameSteps DEF C45Call
<1>2. calls' \in 0 .. APP_CALLS
  BY BoundAssumption DEF C45Call, IInv, OtherTypes, BoundAssumption
<1> QED BY <1>1, <1>2 DEF IInv, C45Call, OtherTypes, LockInv, StepInv, WrittenInv,
        MdioOwnAddress

\* The address is sent with the lock free, so eth_task is at none of its data
\* commands.
LEMMA C45AddrStep ==
  ASSUME IInv, C45Addr PROVE IInv'
<1>1. part' = part /\ Steps' = Steps
  BY SameSteps DEF C45Addr
<1>2. PICK ok \in BOOLEAN :
        /\ RegWrite(ok, [chip EXCEPT !.addr = "app"])
        /\ mdio' = IF ok THEN "app" ELSE NULL
        /\ apc' = IF ok THEN "data" ELSE "idle"
  BY DEF C45Addr
<1>3. chip \in Chips /\ [chip EXCEPT !.addr = "app"] \in Chips
  BY DEF IInv, OtherTypes, Chips
<1>4. chip' \in {chip, [chip EXCEPT !.addr = "app"]} /\ chip' \in Chips
      /\ (ok => chip' = [chip EXCEPT !.addr = "app"])
  BY <1>2, <1>3, RegWriteTypes
<1>5. /\ chip'.exst = chip.exst /\ chip'.settings = chip.settings
      /\ chip'.phy = chip.phy /\ (ok => chip'.addr = "app")
  BY <1>3, <1>4 DEF Chips
<1>6. mdio = NULL /\ ~(epc = "configure" /\ Steps[step] = "data")
  BY BoundAssumption DEF IInv, C45Addr, LockInv, BoundAssumption
<1>7. OtherTypes' /\ StepInv'
  BY <1>1, <1>2, <1>4 DEF IInv, C45Addr, OtherTypes, StepInv
<1>8. LockInv'
  BY <1>1, <1>2, <1>6, BoundAssumption DEF C45Addr, LockInv, BoundAssumption
<1>9. WrittenInv' /\ MdioOwnAddress'
  BY <1>1, <1>2, <1>5, <1>6 DEF IInv, C45Addr, WrittenInv, MdioOwnAddress
<1> QED BY <1>7, <1>8, <1>9 DEF IInv

LEMMA C45DataStep ==
  ASSUME IInv, C45Data PROVE IInv'
<1>1. part' = part /\ Steps' = Steps
  BY SameSteps DEF C45Data
<1>2. chip' = chip
  BY RegWriteTypes DEF IInv, OtherTypes, C45Data
<1> QED BY <1>1, <1>2, BoundAssumption DEF IInv, C45Data, OtherTypes, LockInv, StepInv,
        WrittenInv, MdioOwnAddress, BoundAssumption

LEMMA ChipResetStep ==
  ASSUME IInv, ChipReset PROVE IInv'
<1>1. part' = part /\ Steps' = Steps
  BY SameSteps DEF ChipReset
<1>2. resets' \in 0 .. RESETS
  BY BoundAssumption DEF ChipReset, IInv, OtherTypes, BoundAssumption
<1>3. OtherTypes'
  BY <1>1, <1>2, ResetTypes DEF IInv, ChipReset, OtherTypes, appVars
<1>4. LockInv' /\ StepInv'
  BY <1>1 DEF IInv, ChipReset, LockInv, StepInv, appVars
<1>5. chip'.exst /\ chip'.addr = NULL /\ (part = "NCN26010" => chip'.phy)
  BY DEF ChipReset, AfterReset
<1>6. WrittenInv' /\ MdioOwnAddress'
  BY <1>1, <1>5, BoundAssumption
     DEF IInv, ChipReset, WrittenInv, MdioOwnAddress, BoundAssumption, appVars
<1> QED BY <1>3, <1>4, <1>6 DEF IInv

-----------------------------------------------------------------------------

LEMMA InitIInv == Init => IInv
<1> SUFFICES ASSUME Init PROVE IInv
  OBVIOUS
<1>1. part \in Parts /\ step = 1 /\ chip = AfterReset
  BY DEF Init, Parts
<1>2. OtherTypes
  <2>1. chip \in Chips
    BY <1>1, ResetTypes
  <2>2. hid \in BOOLEAN /\ config0 \in BOOLEAN
    BY DEF Init
  <2>3. resets \in 0 .. RESETS /\ calls \in 0 .. APP_CALLS
    BY BoundAssumption DEF Init, BoundAssumption
  <2>4. epc = "reset" /\ apc = "idle" /\ step \in 1 .. 5
    BY <1>1 DEF Init
  <2> QED BY <1>1, <2>1, <2>2, <2>3, <2>4 DEF OtherTypes
<1>3. LockInv /\ StepInv
  BY <1>1, FirstStep, BoundAssumption DEF Init, LockInv, StepInv, BoundAssumption
<1>4. epc = "reset" /\ apc = "idle" /\ (part = "NCN26010" => chip.phy)
  <2>1. epc = "reset" /\ apc = "idle"
    BY DEF Init
  <2>2. chip.phy = (part = "NCN26010")
    BY <1>1 DEF AfterReset
  <2> QED BY <2>1, <2>2
<1>5. WrittenInv /\ MdioOwnAddress
  BY <1>4 DEF WrittenInv, MdioOwnAddress
<1> QED BY <1>2, <1>3, <1>5 DEF IInv

LEMMA IInvStep ==
  ASSUME IInv, [Next]_vars PROVE IInv'
<1>1. CASE Next
  BY <1>1, AssertResetStep, ReleaseResetStep, ConfigureProtectionStep, ConfigureStepStep,
     TransferStep, HidStep, TsReadStep, TsWriteStep, C45CallStep, C45AddrStep, C45DataStep,
     ChipResetStep DEF Next, Eth, Configure, App
<1>2. CASE UNCHANGED vars
  <2>1. Steps' = Steps
    BY <1>2, SameSteps DEF vars
  <2> QED BY <1>2, <2>1 DEF vars, appVars, IInv, OtherTypes, LockInv, StepInv, WrittenInv,
          MdioOwnAddress
<1> QED BY <1>1, <1>2

LEMMA IInvCorrect == Spec => []IInv
  BY InitIInv, IInvStep, PTL DEF Spec

-----------------------------------------------------------------------------
(* Theorems *)

\* The variables keep their types, and mdio_lock_ is held by the task that is
\* between an address and its data.
THEOREM TypeCorrect == Spec => []TypeOK
<1>1. IInv => TypeOK
  BY TypeParts DEF IInv
<1> QED BY <1>1, IInvCorrect, PTL

\* While frames are exchanged, the MACPHY is configured or reports a reset.
THEOREM ResetNoticed == Spec => []ResetIsNoticed
<1>1. IInv => ResetIsNoticed
  BY DEF IInv, WrittenInv, ResetIsNoticed, Configured
<1> QED BY <1>1, IInvCorrect, PTL

\* No Clause 45 data command goes to an address another task sent.
THEOREM OwnAddress == Spec => []MdioOwnAddress
  BY IInvCorrect, PTL DEF IInv
=============================================================================
