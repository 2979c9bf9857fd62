---------------------------- MODULE DebugProofs ----------------------------
(***************************************************************************)
(* Proofs about DebugModule: types for every debugger; that a command and  *)
(* a bus access have the effect asked for, and that no command sticks, for *)
(* a debugger that starts no bus access while a command is pending.        *)
(***************************************************************************)
EXTENDS DebugModule, TLAPS

\* The registers before the write of the cycle: resumereq lasts one clock.
d0 == [dm EXCEPT !.resumereq = FALSE]

\* What a DMI write does, case by case.
LEMMA WrittenIs ==
  ASSUME NEW d, NEW w
  PROVE  /\ w.reg = "none" => Written(d, w) = d
         /\ w.reg = "data0" => Written(d, w) = [d EXCEPT !.data0 = w.val]
         /\ w.reg = "dmcontrol" => Written(d, w) = Write_dmcontrol(d, w)
         /\ w.reg = "abstractcs" => Written(d, w) = [d EXCEPT !.cmderr = 0]
         /\ w.reg = "command" => Written(d, w) = Write_command(d, w)
         /\ w.reg = "sbcs" => Written(d, w) = [d EXCEPT !.sbreadonaddr = w.readonaddr,
                                                        !.sbautoincrement = w.autoincrement]
         /\ w.reg = "sbaddress0" => Written(d, w) =
              IF d.sbreadonaddr
              THEN [d EXCEPT !.sbaddress0 = w.val, !.mem_valid = TRUE, !.eng = "E_SB_RD",
                             !.mem = [write |-> FALSE, addr |-> w.val, val |-> 0]]
              ELSE [d EXCEPT !.sbaddress0 = w.val]
         /\ w.reg = "sbdata0" => Written(d, w) =
              [d EXCEPT !.sbdata0 = w.val, !.mem_valid = TRUE, !.eng = "E_SB_WR",
                        !.mem = [write |-> TRUE, addr |-> d.sbaddress0, val |-> w.val]]
<1>1. CASE w.reg = "none"
  BY <1>1, Zenon DEF Written
<1>2. CASE w.reg = "data0"
  BY <1>2, Zenon DEF Written
<1>3. CASE w.reg = "dmcontrol"
  BY <1>3, Zenon DEF Written
<1>4. CASE w.reg = "abstractcs"
  BY <1>4, Zenon DEF Written
<1>5. CASE w.reg = "command"
  BY <1>5, Zenon DEF Written
<1>6. CASE w.reg = "sbcs"
  BY <1>6, Zenon DEF Written
<1>7. CASE w.reg = "sbaddress0"
  BY <1>7, Zenon DEF Written
<1>8. CASE w.reg = "sbdata0"
  BY <1>8, Zenon DEF Written
<1> QED
  BY <1>1, <1>2, <1>3, <1>4, <1>5, <1>6, <1>7, <1>8

\* What the engine does, state by state.
LEMMA EngineIs ==
  ASSUME NEW d, NEW v
  PROVE  /\ dm.eng = "E_AR_WAIT" => Engine(d, v) =
              IF hart.ar_done THEN Answered(d, v) ELSE [d EXCEPT !.ar_valid = TRUE]
         /\ dm.eng = "E_SB_RD" => Engine(d, v) =
              IF port.ready THEN [Released(d) EXCEPT !.sbdata0 = port.rdata,
                                    !.sbaddress0 = Increment(d), !.eng = "E_IDLE"]
              ELSE Released(d)
         /\ dm.eng = "E_SB_WR" => Engine(d, v) =
              IF port.ready THEN [Released(d) EXCEPT !.sbaddress0 = Increment(d), !.eng = "E_IDLE"]
              ELSE Released(d)
         /\ dm.eng = "E_IDLE" => Engine(d, v) = d
<1>1. CASE dm.eng = "E_AR_WAIT"
  BY <1>1, Zenon DEF Engine
<1>2. CASE dm.eng = "E_SB_RD"
  BY <1>2, Zenon DEF Engine
<1>3. CASE dm.eng = "E_SB_WR"
  BY <1>3, Zenon DEF Engine
<1>4. CASE dm.eng = "E_IDLE"
  BY <1>4, Zenon DEF Engine
<1> QED
  BY <1>1, <1>2, <1>3, <1>4

\* The fields a DMI write of each register carries.
LEMMA Fields ==
  ASSUME NEW w \in dmi_we
  PROVE  /\ w.reg \in {"none", "data0", "dmcontrol", "abstractcs", "command", "sbcs",
                       "sbaddress0", "sbdata0"}
         /\ w.reg \in {"data0", "sbaddress0", "sbdata0"} => w.val \in Data
         /\ w.reg = "dmcontrol" /\ w.active =>
              w.ndmreset \in BOOLEAN /\ w.haltreq \in BOOLEAN /\ w.resumereq \in BOOLEAN
         /\ w.reg = "command" /\ w.cmdtype = 0 /\ w.transfer =>
              w.write \in BOOLEAN /\ w.regno \in Regs
         /\ w.reg = "sbcs" => w.readonaddr \in BOOLEAN /\ w.autoincrement \in BOOLEAN
         /\ w.reg = "none" => w = NoWrite
         /\ w # NoWrite => Settled /\ (HostWaits /\ dm.abs_busy => ~IsBusAccess(w))
<1>1. w = NoWrite \/ (w \in DmiWrites /\ Settled /\ (HostWaits /\ dm.abs_busy => ~IsBusAccess(w)))
  BY DEF dmi_we
<1> DEFINE Fits(x) ==
         /\ x.reg \in {"data0", "dmcontrol", "abstractcs", "command", "sbcs", "sbaddress0", "sbdata0"}
         /\ x.reg \in {"data0", "sbaddress0", "sbdata0"} => x.val \in Data
         /\ x.reg = "dmcontrol" /\ x.active =>
              x.ndmreset \in BOOLEAN /\ x.haltreq \in BOOLEAN /\ x.resumereq \in BOOLEAN
         /\ x.reg = "command" /\ x.cmdtype = 0 /\ x.transfer =>
              x.write \in BOOLEAN /\ x.regno \in Regs
         /\ x.reg = "sbcs" => x.readonaddr \in BOOLEAN /\ x.autoincrement \in BOOLEAN
<1>2. \A x \in [reg : {"data0", "sbaddress0", "sbdata0"}, val : Data] : Fits(x)
  OBVIOUS
<1>3. \A x \in [reg : {"dmcontrol"}, active : {TRUE}, ndmreset : BOOLEAN, haltreq : BOOLEAN,
                resumereq : BOOLEAN] : Fits(x)
  OBVIOUS
<1>4. \A x \in [reg : {"dmcontrol"}, active : {FALSE}] : Fits(x)
  OBVIOUS
<1>5. \A x \in [reg : {"command"}, cmdtype : {0}, transfer : {TRUE}, write : BOOLEAN, regno : Regs] : Fits(x)
  OBVIOUS
<1>6. \A x \in [reg : {"command"}, cmdtype : {0}, transfer : {FALSE}] : Fits(x)
  OBVIOUS
<1>7. \A x \in [reg : {"command"}, cmdtype : {1}] : Fits(x)
  OBVIOUS
<1>8. \A x \in [reg : {"sbcs"}, readonaddr : BOOLEAN, autoincrement : BOOLEAN] : Fits(x)
  OBVIOUS
<1>9. \A x \in [reg : {"abstractcs"}] : Fits(x)
  OBVIOUS
<1>10. w \in DmiWrites => Fits(w)
  <2> HIDE DEF Fits
  <2> QED
    BY <1>2, <1>3, <1>4, <1>5, <1>6, <1>7, <1>8, <1>9, Zenon DEF DmiWrites
<1>11. NoWrite.reg = "none"
  BY DEF NoWrite
<1>12. CASE w = NoWrite
  BY <1>11, <1>12
<1>13. CASE w \in DmiWrites
  BY <1>1, <1>10, <1>13
<1> QED
  BY <1>1, <1>12, <1>13

\* The word after a word is a word.
LEMMA AfterType == \A a \in Data : After(a) \in Data
  BY DebugAssumption DEF After, Data

\* The payload of no request is one.
LEMMA NothingType == Nothing \in Requests
  BY DebugAssumption DEF Nothing, Requests, Data

-----------------------------------------------------------------------------
\* A DMI write is one of four kinds: a command that starts, a bus read or a
\* bus write that starts, or one that leaves the engine's work alone.
Commands(w) == w.reg = "command" /\ w.cmdtype = 0 /\ w.transfer /\ ~dm.abs_busy
Reads(w)    == w.reg = "sbaddress0" /\ dm.sbreadonaddr
Writes(w)   == w.reg = "sbdata0"

SameCommand(d) == d.abs_busy = dm.abs_busy /\ d.ar_valid = dm.ar_valid /\ d.ar = dm.ar
SameBus(d) == d.mem_valid = dm.mem_valid /\ d.mem = dm.mem

Kind(d, w) ==
    /\ d \in Registers
    /\ d.resumereq => w.reg = "dmcontrol" /\ hart.halted
    /\ w = NoWrite => d = d0
    /\ d.sbaddress0 = IF w.reg = "sbaddress0" THEN w.val ELSE dm.sbaddress0
    /\ Commands(w) => /\ d.abs_busy /\ d.ar_valid /\ d.eng = "E_AR_WAIT" /\ SameBus(d)
                      /\ d.ar = [write |-> w.write, regno |-> w.regno, val |-> dm.data0]
    /\ ~Commands(w) => SameCommand(d)
    /\ Reads(w) => /\ d.mem_valid /\ d.eng = "E_SB_RD"
                   /\ d.mem = [write |-> FALSE, addr |-> w.val, val |-> 0]
    /\ Writes(w) => /\ d.mem_valid /\ d.eng = "E_SB_WR"
                    /\ d.mem = [write |-> TRUE, addr |-> dm.sbaddress0, val |-> w.val]
    /\ ~Reads(w) /\ ~Writes(w) => SameBus(d)
    /\ ~Commands(w) /\ ~Reads(w) /\ ~Writes(w) => d.eng = dm.eng
    /\ Reads(w) \/ Writes(w) => d.sbautoincrement = dm.sbautoincrement

\* Every DMI write is of its kind.
LEMMA Kinds ==
  ASSUME TypeOK, NEW w \in dmi_we, NEW d, d = Written(d0, w)
  PROVE  Kind(d, w)
<1>1. /\ d0 \in Registers /\ ~d0.resumereq /\ SameCommand(d0) /\ SameBus(d0) /\ d0.eng = dm.eng
      /\ d0.sbaddress0 = dm.sbaddress0 /\ d0.sbreadonaddr = dm.sbreadonaddr
      /\ d0.sbautoincrement = dm.sbautoincrement /\ d0.data0 = dm.data0
  BY DEF d0, Registers, SameCommand, SameBus, TypeOK
<1> USE <1>1 DEF Kind, Commands, Reads, Writes
<1>2. 0 \in Data
  BY DebugAssumption DEF Data
<1>3. CASE w.reg = "none"
  <2>1. d = d0
    BY <1>3, WrittenIs
  <2> QED
    BY <1>3, <2>1
<1>4. CASE w.reg = "data0"
  <2>1. d = [d0 EXCEPT !.data0 = w.val] /\ w.val \in Data
    BY <1>4, WrittenIs, Fields
  <2> QED
    BY <1>4, <2>1 DEF Registers, SameCommand, SameBus, NoWrite
<1>5. CASE w.reg = "dmcontrol"
  <2>1. d = Write_dmcontrol(d0, w)
    BY <1>5, WrittenIs
  <2>2. hart.halted \in BOOLEAN
    BY DEF TypeOK
  <2>3. CASE w.active
    <3>1. /\ w.ndmreset \in BOOLEAN /\ w.haltreq \in BOOLEAN /\ w.resumereq \in BOOLEAN
      BY <1>5, <2>3, Fields
    <3>2. d = [d0 EXCEPT !.ndmreset = w.ndmreset, !.haltreq = w.haltreq,
                   !.resumereq = w.resumereq /\ hart.halted,
                   !.resumeack = d0.resumeack \/ (w.resumereq /\ hart.halted)]
      BY <2>1, <2>3 DEF Write_dmcontrol, Registers
    <3>3. d \in Registers
      BY <2>2, <3>1, <3>2 DEF Registers
    <3>4. SameCommand(d) /\ SameBus(d)
      BY <3>2 DEF Registers, SameCommand, SameBus
    <3>5. d.eng = dm.eng /\ d.sbaddress0 = dm.sbaddress0 /\ (d.resumereq => hart.halted)
      BY <2>2, <3>1, <3>2 DEF Registers
    <3>6. w # NoWrite
      BY <1>5 DEF NoWrite
    <3> QED
      BY <1>5, <3>3, <3>4, <3>5, <3>6
  <2>4. CASE ~w.active
    <3>1. d = [d0 EXCEPT !.haltreq = FALSE, !.ndmreset = FALSE]
      BY <2>1, <2>4 DEF Write_dmcontrol
    <3>2. d \in Registers
      BY <3>1 DEF Registers
    <3>3. SameCommand(d) /\ SameBus(d)
      BY <3>1 DEF Registers, SameCommand, SameBus
    <3>4. d.eng = dm.eng /\ d.sbaddress0 = dm.sbaddress0 /\ d.resumereq = d0.resumereq
      BY <3>1 DEF Registers
    <3>5. w # NoWrite
      BY <1>5 DEF NoWrite
    <3> QED
      BY <1>5, <3>2, <3>3, <3>4, <3>5
  <2> QED
    BY <2>3, <2>4
<1>6. CASE w.reg = "abstractcs"
  <2>1. d = [d0 EXCEPT !.cmderr = 0]
    BY <1>6, WrittenIs
  <2> QED
    BY <1>6, <2>1 DEF Registers, SameCommand, SameBus, NoWrite
<1>7. CASE w.reg = "command"
  <2>1. d = Write_command(d0, w)
    BY <1>7, WrittenIs
  <2>2. CASE Commands(w)
    <3>1. w.write \in BOOLEAN /\ w.regno \in Regs
      BY <2>2, Fields
    <3>2. d = [d0 EXCEPT !.abs_busy = TRUE, !.ar_valid = TRUE, !.eng = "E_AR_WAIT",
                   !.ar = [write |-> w.write, regno |-> w.regno, val |-> d0.data0]]
      BY <2>1, <2>2, <1>7 DEF Write_command, start_access_reg, SameCommand
    <3> DEFINE c == [write |-> w.write, regno |-> w.regno, val |-> dm.data0]
    <3>3. c \in Requests
      BY <3>1 DEF TypeOK, Registers, Requests
    <3>4. d = [d0 EXCEPT !.abs_busy = TRUE, !.ar_valid = TRUE, !.eng = "E_AR_WAIT", !.ar = c]
      BY <3>2
    <3> HIDE DEF c
    <3>5. d \in Registers
      BY <3>3, <3>4 DEF Registers
    <3>6. d.abs_busy /\ d.ar_valid /\ d.eng = "E_AR_WAIT" /\ d.ar = c
      BY <3>4 DEF Registers
    <3>7. SameBus(d) /\ d.sbaddress0 = dm.sbaddress0 /\ d.resumereq = d0.resumereq
      BY <3>4 DEF Registers, SameBus
    <3>8. w # NoWrite
      BY <1>7 DEF NoWrite
    <3> QED
      BY <1>7, <2>2, <3>5, <3>6, <3>7, <3>8 DEF c
  <2>3. CASE ~Commands(w)
    <3>1. d = d0 \/ d = [d0 EXCEPT !.cmderr = 2]
      BY <2>1, <2>3, <1>7 DEF Write_command, start_access_reg, SameCommand
    <3> QED
      BY <1>7, <2>3, <3>1 DEF Registers, SameCommand, SameBus, NoWrite
  <2> QED
    BY <2>2, <2>3
<1>8. CASE w.reg = "sbcs"
  <2>1. d = [d0 EXCEPT !.sbreadonaddr = w.readonaddr, !.sbautoincrement = w.autoincrement]
    BY <1>8, WrittenIs
  <2>2. w.readonaddr \in BOOLEAN /\ w.autoincrement \in BOOLEAN
    BY <1>8, Fields
  <2>3. d \in Registers
    BY <2>1, <2>2 DEF Registers
  <2>4. SameCommand(d) /\ SameBus(d)
    BY <2>1 DEF Registers, SameCommand, SameBus
  <2>5. d.eng = dm.eng /\ d.sbaddress0 = dm.sbaddress0 /\ d.resumereq = d0.resumereq
    BY <2>1 DEF Registers
  <2>6. w # NoWrite
    BY <1>8 DEF NoWrite
  <2> QED
    BY <1>8, <2>3, <2>4, <2>5, <2>6
<1>9. CASE w.reg = "sbaddress0"
  <2>1. w.val \in Data
    BY <1>9, Fields
  <2>2. d = IF d0.sbreadonaddr
            THEN [d0 EXCEPT !.sbaddress0 = w.val, !.mem_valid = TRUE, !.eng = "E_SB_RD",
                            !.mem = [write |-> FALSE, addr |-> w.val, val |-> 0]]
            ELSE [d0 EXCEPT !.sbaddress0 = w.val]
    BY <1>9, WrittenIs
  <2>3. w # NoWrite
    BY <1>9 DEF NoWrite
  <2>4. CASE d0.sbreadonaddr
    <3> DEFINE a == [write |-> FALSE, addr |-> w.val, val |-> 0]
    <3>1. a \in Accesses
      BY <1>2, <2>1 DEF Accesses
    <3>2. d = [d0 EXCEPT !.sbaddress0 = w.val, !.mem_valid = TRUE, !.eng = "E_SB_RD", !.mem = a]
      BY <2>2, <2>4
    <3> HIDE DEF a
    <3>3. d \in Registers
      BY <2>1, <3>1, <3>2 DEF Registers
    <3>4. d.mem_valid /\ d.eng = "E_SB_RD" /\ d.mem = a /\ d.sbaddress0 = w.val
      BY <3>2 DEF Registers
    <3>5. SameCommand(d) /\ d.resumereq = d0.resumereq /\ d.sbautoincrement = dm.sbautoincrement
      BY <3>2 DEF Registers, SameCommand
    <3> QED
      BY <1>9, <2>3, <2>4, <3>3, <3>4, <3>5 DEF a
  <2>5. CASE ~d0.sbreadonaddr
    <3>1. d = [d0 EXCEPT !.sbaddress0 = w.val]
      BY <2>2, <2>5
    <3> QED
      BY <1>9, <2>1, <2>3, <2>5, <3>1 DEF Registers, SameCommand, SameBus
  <2> QED
    BY <2>4, <2>5
<1>10. CASE w.reg = "sbdata0"
  <2>1. w.val \in Data
    BY <1>10, Fields
  <2>2. d = [d0 EXCEPT !.sbdata0 = w.val, !.mem_valid = TRUE, !.eng = "E_SB_WR",
                       !.mem = [write |-> TRUE, addr |-> d0.sbaddress0, val |-> w.val]]
    BY <1>10, WrittenIs
  <2> DEFINE a == [write |-> TRUE, addr |-> dm.sbaddress0, val |-> w.val]
  <2>3. a \in Accesses
    BY <2>1 DEF Accesses, TypeOK, Registers
  <2>4. d = [d0 EXCEPT !.sbdata0 = w.val, !.mem_valid = TRUE, !.eng = "E_SB_WR", !.mem = a]
    BY <2>2
  <2> HIDE DEF a
  <2>5. d \in Registers
    BY <2>1, <2>3, <2>4 DEF Registers
  <2>6. d.mem_valid /\ d.eng = "E_SB_WR" /\ d.mem = a /\ d.sbaddress0 = dm.sbaddress0
    BY <2>4 DEF Registers
  <2>7. SameCommand(d) /\ d.resumereq = d0.resumereq /\ d.sbautoincrement = dm.sbautoincrement
    BY <2>4 DEF Registers, SameCommand
  <2>8. w # NoWrite
    BY <1>10 DEF NoWrite
  <2> QED
    BY <1>10, <2>5, <2>6, <2>7, <2>8 DEF a
<1> QED
  BY <1>3, <1>4, <1>5, <1>6, <1>7, <1>8, <1>9, <1>10, Fields

-----------------------------------------------------------------------------
\* What the engine makes of the registers d the write left: it answers the
\* debugger when the hart is done, ends a bus access when the port is ready, and
\* takes back a bus request after one cycle.
Served(e, d, v) ==
    /\ e \in Registers /\ e.resumereq = d.resumereq
    /\ e.sbautoincrement = d.sbautoincrement
    /\ dm.eng = "E_IDLE" => e = d
    /\ dm.eng = "E_AR_WAIT" =>
         /\ e.mem_valid = d.mem_valid /\ e.mem = d.mem /\ e.sbaddress0 = d.sbaddress0
         /\ hart.ar_done => /\ ~e.ar_valid /\ ~e.abs_busy /\ e.eng = "E_IDLE"
                            /\ ~dm.ar.write => e.data0 = v
         /\ ~hart.ar_done => e.ar_valid /\ e.abs_busy = d.abs_busy /\ e.ar = d.ar /\ e.eng = d.eng
    /\ dm.eng \in {"E_SB_RD", "E_SB_WR"} =>
         /\ ~e.mem_valid /\ e.abs_busy = d.abs_busy /\ e.ar_valid = d.ar_valid /\ e.ar = d.ar
         /\ port.ready => /\ e.eng = "E_IDLE" /\ e.sbaddress0 = Increment(d)
                          /\ dm.eng = "E_SB_RD" => e.sbdata0 = port.rdata
         /\ ~port.ready => e.eng = d.eng /\ e.sbaddress0 = d.sbaddress0

\* The engine serves every request so.
LEMMA Serves ==
  ASSUME TypeOK, NEW d \in Registers, NEW v \in Data, NEW e, e = Engine(d, v)
  PROVE  Served(e, d, v)
<1>1. /\ dm.eng \in {"E_IDLE", "E_AR_WAIT", "E_SB_RD", "E_SB_WR"} /\ port.rdata \in Data
      /\ dm.sbaddress0 \in Data
  BY DEF TypeOK, Registers
<1>2. Increment(d) \in Data
  BY <1>1, AfterType DEF Increment, Registers
<1>3. CASE dm.eng = "E_IDLE"
  <2>1. e = d
    BY <1>3, EngineIs
  <2> QED
    BY <1>3, <2>1 DEF Served
<1>4. CASE dm.eng = "E_AR_WAIT" /\ hart.ar_done
  <2>1. e = Answered(d, v)
    BY <1>4, EngineIs
  <2> DEFINE x == IF dm.ar.write THEN d.data0 ELSE v
  <2>2. x \in Data /\ (~dm.ar.write => x = v)
    BY DEF Registers
  <2>3. e = [d EXCEPT !.ar_valid = FALSE, !.ar = Nothing, !.data0 = x,
                      !.abs_busy = FALSE, !.eng = "E_IDLE"]
    BY <2>1 DEF Answered
  <2> HIDE DEF x
  <2>4. e \in Registers
    BY <2>2, <2>3, NothingType DEF Registers
  <2>5. ~e.ar_valid /\ ~e.abs_busy /\ e.eng = "E_IDLE" /\ e.data0 = x
    BY <2>3 DEF Registers
  <2>6. /\ e.mem_valid = d.mem_valid /\ e.mem = d.mem /\ e.sbaddress0 = d.sbaddress0
        /\ e.resumereq = d.resumereq /\ e.sbautoincrement = d.sbautoincrement
    BY <2>3 DEF Registers
  <2> QED
    BY <1>4, <2>2, <2>4, <2>5, <2>6 DEF Served
<1>5. CASE dm.eng = "E_AR_WAIT" /\ ~hart.ar_done
  <2>1. e = [d EXCEPT !.ar_valid = TRUE]
    BY <1>5, EngineIs
  <2>2. e \in Registers
    BY <2>1 DEF Registers
  <2>3. e.ar_valid /\ e.abs_busy = d.abs_busy /\ e.ar = d.ar /\ e.eng = d.eng
    BY <2>1 DEF Registers
  <2>4. /\ e.mem_valid = d.mem_valid /\ e.mem = d.mem /\ e.sbaddress0 = d.sbaddress0
        /\ e.resumereq = d.resumereq /\ e.sbautoincrement = d.sbautoincrement
    BY <2>1 DEF Registers
  <2> QED
    BY <1>5, <2>2, <2>3, <2>4 DEF Served
<1>6. CASE dm.eng \in {"E_SB_RD", "E_SB_WR"}
  <2> DEFINE r == Released(d)
  <2>1. NoAccess \in Accesses
    BY DebugAssumption DEF NoAccess, Accesses, Data
  <2>2. r = [d EXCEPT !.mem_valid = FALSE, !.mem = NoAccess]
    BY DEF Released
  <2>3. r \in Registers
    BY <2>1, <2>2 DEF Registers
  <2>4. /\ ~r.mem_valid /\ r.abs_busy = d.abs_busy /\ r.ar_valid = d.ar_valid /\ r.ar = d.ar
        /\ r.eng = d.eng /\ r.sbaddress0 = d.sbaddress0
        /\ r.resumereq = d.resumereq /\ r.sbautoincrement = d.sbautoincrement
    BY <2>2 DEF Registers
  <2>5. \/ ~port.ready /\ e = r
        \/ port.ready /\ dm.eng = "E_SB_RD" /\ e = [r EXCEPT !.sbdata0 = port.rdata,
                                 !.sbaddress0 = Increment(d), !.eng = "E_IDLE"]
        \/ port.ready /\ dm.eng = "E_SB_WR" /\ e = [r EXCEPT !.sbaddress0 = Increment(d), !.eng = "E_IDLE"]
    BY <1>6, EngineIs, Zenon
  <2> HIDE DEF r
  <2>6. CASE ~port.ready /\ e = r
    BY <1>6, <2>3, <2>4, <2>6 DEF Served
  <2>7. CASE port.ready /\ dm.eng = "E_SB_RD" /\ e = [r EXCEPT !.sbdata0 = port.rdata,
                                 !.sbaddress0 = Increment(d), !.eng = "E_IDLE"]
    <3>1. e \in Registers
      BY <1>1, <1>2, <2>3, <2>7 DEF Registers
    <3>2. e.eng = "E_IDLE" /\ e.sbaddress0 = Increment(d) /\ e.sbdata0 = port.rdata
      BY <2>3, <2>7 DEF Registers
    <3>3. /\ e.mem_valid = r.mem_valid /\ e.abs_busy = r.abs_busy /\ e.ar_valid = r.ar_valid
          /\ e.ar = r.ar /\ e.resumereq = r.resumereq /\ e.sbautoincrement = r.sbautoincrement
      BY <2>3, <2>7 DEF Registers
    <3> QED
      BY <2>4, <2>7, <3>1, <3>2, <3>3 DEF Served
  <2>8. CASE port.ready /\ dm.eng = "E_SB_WR" /\ e = [r EXCEPT !.sbaddress0 = Increment(d), !.eng = "E_IDLE"]
    <3>1. e \in Registers
      BY <1>2, <2>3, <2>8 DEF Registers
    <3>2. e.eng = "E_IDLE" /\ e.sbaddress0 = Increment(d)
      BY <2>3, <2>8 DEF Registers
    <3>3. /\ e.mem_valid = r.mem_valid /\ e.abs_busy = r.abs_busy /\ e.ar_valid = r.ar_valid
          /\ e.ar = r.ar /\ e.resumereq = r.resumereq /\ e.sbautoincrement = r.sbautoincrement
      BY <2>3, <2>8 DEF Registers
    <3> QED
      BY <2>4, <2>8, <3>1, <3>2, <3>3 DEF Served
  <2> QED
    BY <2>5, <2>6, <2>7, <2>8
<1> QED
  BY <1>1, <1>3, <1>4, <1>5, <1>6

\* A step of the debug module: a DMI write of its kind, then the engine.
LEMMA DmSteps ==
  ASSUME TypeOK, NEW w \in dmi_we, DmEdge(w)
  PROVE  \E d \in Registers, v \in ar_rdata : Kind(d, w) /\ Served(dm', d, v)
<1>1. PICK v \in ar_rdata : dm' = Engine(Written([dm EXCEPT !.resumereq = FALSE], w), v)
  BY DEF DmEdge
<1>2. PICK d : d = Written(d0, w)
  OBVIOUS
<1>3. dm' = Engine(d, v)
  BY <1>1, <1>2 DEF d0
<1>4. Kind(d, w) /\ d \in Registers
  BY <1>2, Kinds DEF Kind
<1>5. v \in Data
  <2>1. dm.ar.regno \in Regs /\ 0 \in Data
    BY DebugAssumption DEF TypeOK, Registers, Requests, Data
  <2>2. \A r \in Regs : regs[r] \in Data
    BY DEF TypeOK
  <2> QED
    BY <1>1, <2>1, <2>2 DEF ar_rdata
<1> QED
  BY <1>1, <1>3, <1>4, <1>5, Serves

\* What the host asked for stays within the types.
LEMMA AskedType ==
  ASSUME TypeOK, NEW w \in dmi_we, Asked(w)
  PROVE  asked' \in [cmd : Requests, next : Data, addr : Data, val : Data, quiet : BOOLEAN]
<1>1. /\ asked.cmd \in Requests /\ asked.next \in Data /\ asked.addr \in Data
      /\ asked.val \in Data /\ asked.quiet \in BOOLEAN /\ hart.halted \in BOOLEAN
      /\ dm.data0 \in Data /\ 0 \in Data
  BY DebugAssumption DEF TypeOK, Registers, Data
<1> DEFINE read  == w.reg = "sbaddress0" /\ dm.sbreadonaddr
           write == w.reg = "sbdata0"
           addr  == IF w.reg = "sbaddress0" THEN w.val ELSE asked.next
           command == w.reg = "command" /\ w.cmdtype = 0 /\ w.transfer /\ ~dm.abs_busy
           idle == dm.eng = "E_IDLE" /\ w = NoWrite
           acmd == IF command THEN [write |-> w.write, regno |-> w.regno, val |-> dm.data0]
                   ELSE IF dm.abs_busy THEN asked.cmd ELSE Nothing
           anext == IF (read \/ write) /\ dm.sbautoincrement THEN After(addr) ELSE addr
           aaddr == IF read \/ write THEN addr ELSE IF idle THEN 0 ELSE asked.addr
           aval == IF write THEN w.val ELSE IF idle THEN 0 ELSE asked.val
           aquiet == hart.halted /\ (read \/ write \/ (~idle /\ asked.quiet))
<1>2. asked' = [cmd |-> acmd, next |-> anext, addr |-> aaddr, val |-> aval, quiet |-> aquiet]
  BY DEF Asked
<1>3. addr \in Data
  BY <1>1, Fields
<1>4. acmd \in Requests
  BY <1>1, Fields, NothingType DEF Requests
<1>5. anext \in Data /\ aaddr \in Data /\ aval \in Data
  <2> HIDE DEF addr
  <2> QED
    BY <1>1, <1>3, Fields, AfterType
<1>6. aquiet \in BOOLEAN
  OBVIOUS
<1> HIDE DEF acmd, anext, aaddr, aval, aquiet
<1> QED
  BY <1>2, <1>4, <1>5, <1>6

\* The hart's side of the handshake keeps its types.
LEMMA HartType ==
  ASSUME TypeOK, Hart!HartEdge
  PROVE  /\ hart' \in [halted : BOOLEAN, ar_busy : BOOLEAN, ar_done : BOOLEAN]
         /\ regs' \in [Regs -> Data]
<1>1. /\ regs \in [Regs -> Data] /\ dm.ar.val \in Data /\ dbg_do \in BOOLEAN
      /\ hart.ar_busy \in BOOLEAN /\ dm.ar_valid \in BOOLEAN
  BY DEF TypeOK, Registers, Requests, dbg_do, Hart!dbg_do
<1>2. CASE dm.ndmreset
  <2>1. hart' = [halted |-> FALSE, ar_busy |-> FALSE, ar_done |-> FALSE] /\ regs' = regs
    BY <1>2 DEF Hart!HartEdge, Hart!Running, Hart!dbg_do, dbg_do
  <2>2. hart' \in [halted : BOOLEAN, ar_busy : BOOLEAN, ar_done : BOOLEAN]
    BY <2>1
  <2> QED
    BY <1>1, <2>1, <2>2
<1>3. CASE ~dm.ndmreset
  <2>1. PICK h \in BOOLEAN :
          hart' = [halted |-> h, ar_busy |-> dm.ar_valid /\ (hart.ar_busy \/ dbg_do), ar_done |-> dbg_do]
    BY <1>3 DEF Hart!HartEdge, Hart!Running, Hart!dbg_do, dbg_do
  <2>2. hart' \in [halted : BOOLEAN, ar_busy : BOOLEAN, ar_done : BOOLEAN]
    BY <1>1, <2>1
  <2>3. \/ regs' = [regs EXCEPT ![dm.ar.regno] = dm.ar.val]
        \/ regs' \in [Regs -> Data] \/ regs' = regs
    BY <1>3 DEF Hart!HartEdge, Hart!Running, Hart!dbg_do, dbg_do
  <2> QED
    BY <1>1, <2>2, <2>3
<1> QED
  BY <1>2, <1>3

\* So does the memory's.
LEMMA MemType ==
  ASSUME TypeOK, MemEdge
  PROVE  port' \in [ready : BOOLEAN, rdata : Data] /\ mem' \in [Data -> Data]
<1>1. /\ mem \in [Data -> Data] /\ dm.mem_valid \in BOOLEAN /\ dm.mem.addr \in Data
      /\ dm.mem.val \in Data /\ 0 \in Data
  <2>1. mem \in [Data -> Data] /\ dm.mem \in Accesses /\ dm.mem_valid \in BOOLEAN
    BY DEF TypeOK, Registers
  <2>2. dm.mem.addr \in Data /\ dm.mem.val \in Data
    BY <2>1 DEF Accesses
  <2>3. 0 \in Data
    BY DebugAssumption DEF Data
  <2> QED
    BY <2>1, <2>2, <2>3
<1>2. mem[dm.mem.addr] \in Data
  BY <1>1
<1>3. port' \in [ready : BOOLEAN, rdata : Data]
  BY <1>1, <1>2 DEF MemEdge
<1>4. PICK core \in {mem} \cup (IF hart.halted THEN {}
                               ELSE {[mem EXCEPT ![a] = v] : a, v \in Data}) :
         mem' = [core EXCEPT ![dm.mem.addr] = dm.mem.val] \/ mem' = core
  BY DEF MemEdge
<1>5. core \in [Data -> Data]
  BY <1>1, <1>4
<1> QED
  BY <1>1, <1>3, <1>4, <1>5

\* Every step keeps the types.
LEMMA TypeStep ==
  ASSUME TypeOK, Next
  PROVE  TypeOK'
<1>1. PICK w \in dmi_we : DmEdge(w) /\ Asked(w)
  BY DEF Next
<1>2. dm' \in Registers
  BY <1>1, DmSteps DEF Served
<1>3. MemEdge /\ Hart!HartEdge
  BY DEF Next
<1> QED
  BY <1>1, <1>2, <1>3, AskedType, HartType, MemType DEF TypeOK

\* The initial registers are of their types.
LEMMA TypeInit ==
  ASSUME Init
  PROVE  TypeOK
<1>1. 0 \in Data /\ Nothing \in Requests
  BY DebugAssumption, NothingType DEF Data
<1>2. NoAccess \in Accesses
  BY <1>1 DEF NoAccess, Accesses
<1>3. dm \in Registers
  BY <1>1, <1>2 DEF Init, Registers
<1> QED
  BY <1>1, <1>3 DEF Init, TypeOK

\* Every register of the debug module, the port and the hart keeps a value of its
\* width, whatever the debugger writes and whenever it writes it (three_sipp_es_debug.sv).
THEOREM DebugTypeOK == Spec => []TypeOK
<1>1. TypeOK /\ UNCHANGED vars => TypeOK'
  BY DEF TypeOK, vars
<1> QED
  BY <1>1, TypeInit, TypeStep, PTL DEF Spec

-----------------------------------------------------------------------------
(***************************************************************************)
(* The debugger's promises, for one that starts no bus access while a      *)
(* command is pending.                                                     *)
(***************************************************************************)
Accessing == dm.eng \in {"E_SB_RD", "E_SB_WR"}

\* The engine waits exactly while a command is pending, the hart answers a
\* command in the cycle after it took it, and it does not resume meanwhile.
Handshake ==
    /\ dm.abs_busy <=> dm.eng = "E_AR_WAIT"
    /\ dm.ar_valid <=> dm.abs_busy
    /\ hart.ar_done => hart.halted /\ hart.ar_busy /\ dm.ar_valid
    /\ dm.ar_valid /\ hart.ar_busy => hart.ar_done
    /\ dm.resumereq => ~dbg_do

\* The pending command is the one the host gave, and an answered write is done.
Pending ==
    /\ dm.abs_busy => asked.cmd = dm.ar
    /\ hart.ar_done /\ dm.ar.write => regs[dm.ar.regno] = dm.ar.val

\* The host and the module agree on the address, the request on the bus is the
\* host's, and an answered access of a quiet hart has had its effect.
Bus ==
    /\ ~Accessing => ~dm.mem_valid /\ ~port.ready /\ asked.next = dm.sbaddress0
    /\ Accessing =>
         /\ dm.mem_valid <=> ~port.ready
         /\ asked.addr = dm.sbaddress0
         /\ asked.next = IF dm.sbautoincrement THEN After(dm.sbaddress0) ELSE dm.sbaddress0
    /\ dm.mem_valid =>
         /\ dm.mem.addr = asked.addr
         /\ dm.mem.write <=> dm.eng = "E_SB_WR"
         /\ dm.mem.write => dm.mem.val = asked.val
    /\ port.ready /\ asked.quiet =>
         /\ dm.eng = "E_SB_WR" => mem[asked.addr] = asked.val
         /\ dm.eng = "E_SB_RD" => port.rdata = mem[asked.addr]

Inv == TypeOK /\ Handshake /\ Pending /\ Bus

\* What a step does to the pending command and to the resume request.
CommandMoves(w, v) ==
    /\ dm'.abs_busy <=> dm'.eng = "E_AR_WAIT"
    /\ dm'.ar_valid <=> dm'.abs_busy
    /\ dm'.ar_valid =>
         \/ /\ Commands(w)
            /\ dm'.ar = [write |-> w.write, regno |-> w.regno, val |-> dm.data0]
         \/ ~Commands(w) /\ dm.ar_valid /\ ~hart.ar_done /\ dm'.ar = dm.ar
    /\ dm.ar_valid /\ ~hart.ar_done => dm'.ar_valid /\ dm'.ar = dm.ar
    /\ dm.abs_busy /\ ~dm'.abs_busy => hart.ar_done /\ (~dm.ar.write => dm'.data0 = v)
    /\ dm'.resumereq => hart.halted /\ ~Commands(w)

\* The debug module moves so.
LEMMA CommandStep ==
  ASSUME HostWaits, TypeOK, Handshake, NEW w \in dmi_we, NEW d, NEW v,
         Kind(d, w), Served(dm', d, v)
  PROVE  CommandMoves(w, v)
<1>1. dm.eng \in {"E_IDLE", "E_AR_WAIT", "E_SB_RD", "E_SB_WR"}
  BY DEF TypeOK, Registers
<1>2. w = NoWrite => ~Commands(w) /\ ~Reads(w) /\ ~Writes(w) /\ w.reg # "dmcontrol"
  BY DEF NoWrite, Commands, Reads, Writes
<1>3. Commands(w) => ~Reads(w) /\ ~Writes(w) /\ w.reg # "dmcontrol" /\ ~dm.abs_busy
  BY DEF Commands, Reads, Writes
<1>4. dm'.resumereq => hart.halted /\ ~Commands(w)
  BY <1>3 DEF Kind, Served
<1>5. d.abs_busy \in BOOLEAN /\ d.ar_valid \in BOOLEAN
  BY DEF Kind, Registers
<1>6. CASE dm.eng = "E_IDLE"
  <2>1. ~dm.abs_busy /\ ~dm.ar_valid /\ dm' = d
    BY <1>6 DEF Handshake, Served
  <2>2. CASE Commands(w)
    BY <1>4, <2>1, <2>2 DEF Kind, CommandMoves
  <2>3. CASE ~Commands(w)
    <3>1. ~d.abs_busy /\ ~d.ar_valid
      BY <2>1, <2>3 DEF Kind, SameCommand
    <3>2. d.eng # "E_AR_WAIT"
      BY <1>6, <2>3 DEF Kind
    <3> QED
      BY <1>4, <2>1, <3>1, <3>2 DEF CommandMoves
  <2> QED
    BY <2>2, <2>3
<1>7. CASE dm.eng = "E_AR_WAIT"
  <2>1. dm.abs_busy /\ dm.ar_valid /\ ~Commands(w)
    BY <1>7 DEF Handshake, Commands
  <2>2. ~Reads(w) /\ ~Writes(w)
    BY <1>2, <2>1, Fields DEF IsBusAccess, Reads, Writes
  <2>3. d.abs_busy /\ d.ar_valid /\ d.ar = dm.ar /\ d.eng = "E_AR_WAIT"
    BY <1>7, <2>1, <2>2 DEF Kind, SameCommand
  <2>4. CASE hart.ar_done
    BY <1>4, <1>7, <2>4 DEF Served, CommandMoves
  <2>5. CASE ~hart.ar_done
    BY <1>4, <1>7, <2>1, <2>3, <2>5 DEF Served, CommandMoves
  <2> QED
    BY <2>4, <2>5
<1>8. CASE dm.eng \in {"E_SB_RD", "E_SB_WR"}
  <2>1. w = NoWrite /\ ~dm.abs_busy /\ ~dm.ar_valid
    BY <1>8, Fields DEF Settled, Handshake
  <2>2. ~d.abs_busy /\ ~d.ar_valid /\ d.eng = dm.eng
    BY <1>2, <2>1 DEF Kind, SameCommand
  <2>3. ~dm'.abs_busy /\ ~dm'.ar_valid /\ dm'.eng # "E_AR_WAIT"
    BY <1>8, <2>2 DEF Served
  <2> QED
    BY <1>4, <2>1, <2>3 DEF CommandMoves
<1> QED
  BY <1>1, <1>6, <1>7, <1>8

\* The hart's clock edge, field by field.
LEMMA HartIs ==
  ASSUME TypeOK, Hart!HartEdge
  PROVE  /\ dm.ndmreset => ~hart'.halted /\ ~hart'.ar_busy /\ ~hart'.ar_done /\ regs' = regs
         /\ ~dm.ndmreset =>
              /\ hart.halted => hart'.halted = ~dm.resumereq
              /\ hart'.ar_busy = (dm.ar_valid /\ (hart.ar_busy \/ dbg_do))
              /\ hart'.ar_done = dbg_do
              /\ dbg_do /\ dm.ar.write => regs' = [regs EXCEPT ![dm.ar.regno] = dm.ar.val]
<1>1. CASE dm.ndmreset
  BY <1>1 DEF Hart!HartEdge, Hart!Running, Hart!dbg_do, dbg_do
<1>2. CASE ~dm.ndmreset
  <2>1. PICK h \in BOOLEAN :
          /\ hart.halted => h = ~dm.resumereq
          /\ hart' = [halted |-> h, ar_busy |-> dm.ar_valid /\ (hart.ar_busy \/ dbg_do), ar_done |-> dbg_do]
    BY <1>2 DEF Hart!HartEdge, Hart!Running, Hart!dbg_do, dbg_do
  <2>2. /\ hart'.halted = h /\ hart'.ar_done = dbg_do
        /\ hart'.ar_busy = (dm.ar_valid /\ (hart.ar_busy \/ dbg_do))
    BY <2>1
  <2>3. dbg_do /\ dm.ar.write => regs' = [regs EXCEPT ![dm.ar.regno] = dm.ar.val]
    BY <1>2 DEF Hart!HartEdge, Hart!Running, Hart!dbg_do, dbg_do
  <2> QED
    BY <1>2, <2>1, <2>2, <2>3
<1> QED
  BY <1>1, <1>2

\* The handshake survives every step.
LEMMA HandshakeStep ==
  ASSUME TypeOK, Handshake, Hart!HartEdge, NEW w, NEW v, CommandMoves(w, v)
  PROVE  Handshake'
<1>1. /\ hart.halted \in BOOLEAN /\ hart.ar_busy \in BOOLEAN /\ hart.ar_done \in BOOLEAN
      /\ dm.ar_valid \in BOOLEAN /\ dm.ndmreset \in BOOLEAN
  BY DEF TypeOK, Registers
<1>2. dbg_do => ~hart.ar_done /\ ~dm.resumereq /\ hart.halted /\ dm.ar_valid
  BY DEF Handshake, dbg_do, Hart!dbg_do
<1>3. (dm.abs_busy <=> dm.eng = "E_AR_WAIT")' /\ (dm.ar_valid <=> dm.abs_busy)'
  BY DEF CommandMoves
<1>4. hart'.ar_done => hart'.halted /\ hart'.ar_busy /\ dm'.ar_valid
  BY <1>1, <1>2, HartIs DEF CommandMoves
<1>5. dm'.ar_valid /\ hart'.ar_busy => hart'.ar_done
  <2> SUFFICES ASSUME dm'.ar_valid, hart'.ar_busy PROVE hart'.ar_done
    OBVIOUS
  <2>1. ~dm.ndmreset /\ dm.ar_valid /\ (hart.ar_busy \/ dbg_do)
    BY <1>1, HartIs
  <2>2. ~Commands(w)
    BY <2>1 DEF Handshake, Commands
  <2>3. ~hart.ar_done
    BY <2>2 DEF CommandMoves
  <2>4. ~hart.ar_busy
    BY <2>1, <2>3 DEF Handshake
  <2> QED
    BY <2>1, <2>4, HartIs
<1>6. dm'.resumereq => ~dbg_do'
  <2> SUFFICES ASSUME dm'.resumereq, hart'.halted, dm'.ar_valid, ~hart'.ar_busy PROVE FALSE
    BY DEF dbg_do, Hart!dbg_do
  <2>1. hart.halted /\ dm.ar_valid /\ ~dm.ndmreset
    BY HartIs DEF CommandMoves
  <2>2. hart.ar_busy \/ dbg_do
    BY <1>1, <2>1 DEF dbg_do, Hart!dbg_do
  <2> QED
    BY <2>1, <2>2, HartIs
<1> QED
  BY <1>3, <1>4, <1>5, <1>6 DEF Handshake

\* So does what the host knows of the pending command.
LEMMA PendingStep ==
  ASSUME TypeOK, Handshake, Pending, Hart!HartEdge, NEW w \in dmi_we, NEW v, CommandMoves(w, v), Asked(w)
  PROVE  Pending'
<1>1. asked'.cmd = IF Commands(w) THEN [write |-> w.write, regno |-> w.regno, val |-> dm.data0]
                   ELSE IF dm.abs_busy THEN asked.cmd ELSE Nothing
  BY DEF Asked, Commands
<1>2. dm'.abs_busy => asked'.cmd = dm'.ar
  BY <1>1 DEF CommandMoves, Handshake, Pending
<1>3. hart'.ar_done /\ dm'.ar.write => regs'[dm'.ar.regno] = dm'.ar.val
  <2> SUFFICES ASSUME hart'.ar_done, dm'.ar.write PROVE regs'[dm'.ar.regno] = dm'.ar.val
    OBVIOUS
  <2>1. dbg_do /\ ~dm.ndmreset
    BY HartIs
  <2>2. dm'.ar = dm.ar
    BY <2>1 DEF CommandMoves, Handshake, dbg_do, Hart!dbg_do
  <2>3. regs' = [regs EXCEPT ![dm.ar.regno] = dm.ar.val]
    BY <2>1, <2>2, HartIs
  <2>4. dm.ar.regno \in Regs /\ regs \in [Regs -> Data]
    BY DEF TypeOK, Registers, Requests
  <2> QED
    BY <2>2, <2>3, <2>4
<1> QED
  BY <1>2, <1>3 DEF Pending

\* What a step does to a bus access: one starts, or goes on until the port
\* answers, and the host's count of addresses goes with sbaddress0.
BusMoves(w) ==
    /\ ~Accessing =>
         /\ Accessing' <=> Reads(w) \/ Writes(w)
         /\ dm'.mem_valid <=> Reads(w) \/ Writes(w)
         /\ dm'.sbaddress0 = IF w.reg = "sbaddress0" THEN w.val ELSE dm.sbaddress0
         /\ Reads(w) => /\ dm'.eng = "E_SB_RD"
                        /\ dm'.mem = [write |-> FALSE, addr |-> w.val, val |-> 0]
         /\ Writes(w) => /\ dm'.eng = "E_SB_WR"
                         /\ dm'.mem = [write |-> TRUE, addr |-> dm.sbaddress0, val |-> w.val]
         /\ Reads(w) \/ Writes(w) => dm'.sbautoincrement = dm.sbautoincrement
    /\ Accessing =>
         /\ w = NoWrite /\ ~dm'.mem_valid /\ dm'.sbautoincrement = dm.sbautoincrement
         /\ port.ready => /\ ~Accessing' /\ dm'.eng = "E_IDLE"
                          /\ dm'.sbaddress0 = IF dm.sbautoincrement THEN After(dm.sbaddress0)
                                              ELSE dm.sbaddress0
                          /\ dm.eng = "E_SB_RD" => dm'.sbdata0 = port.rdata
         /\ ~port.ready => dm'.eng = dm.eng /\ dm'.sbaddress0 = dm.sbaddress0

\* The debug module moves so.
LEMMA BusStep ==
  ASSUME HostWaits, TypeOK, Handshake, Bus, NEW w \in dmi_we, NEW d, NEW v,
         Kind(d, w), Served(dm', d, v)
  PROVE  BusMoves(w)
<1>1. dm.eng \in {"E_IDLE", "E_AR_WAIT", "E_SB_RD", "E_SB_WR"}
  BY DEF TypeOK, Registers
<1>2. w = NoWrite => ~Commands(w) /\ ~Reads(w) /\ ~Writes(w) /\ w.reg # "sbaddress0"
  BY DEF NoWrite, Commands, Reads, Writes
<1>3. Commands(w) => ~Reads(w) /\ ~Writes(w)
  BY DEF Commands, Reads, Writes
<1>4. Writes(w) => ~Reads(w) /\ w.reg # "sbaddress0"
  BY DEF Reads, Writes
<1>5. CASE dm.eng = "E_IDLE"
  <2>1. ~dm.mem_valid /\ ~Accessing /\ dm' = d
    BY <1>5 DEF Bus, Accessing, Served
  <2>2. Reads(w) \/ Writes(w) => dm'.mem_valid /\ Accessing'
    BY <2>1 DEF Kind, Accessing
  <2>3. ~Reads(w) /\ ~Writes(w) => ~dm'.mem_valid /\ ~Accessing'
    BY <1>5, <2>1 DEF Kind, SameBus, Accessing
  <2> QED
    BY <2>1, <2>2, <2>3 DEF Kind, BusMoves
<1>6. CASE dm.eng = "E_AR_WAIT"
  <2>1. dm.abs_busy /\ ~Commands(w) /\ ~dm.mem_valid /\ ~Accessing
    BY <1>6 DEF Handshake, Commands, Bus, Accessing
  <2>2. ~Reads(w) /\ ~Writes(w)
    BY <1>2, <2>1, Fields DEF IsBusAccess, Reads, Writes
  <2>3. d.mem_valid = dm.mem_valid /\ d.eng = "E_AR_WAIT"
    BY <1>6, <2>1, <2>2 DEF Kind, SameBus
  <2>4. ~dm'.mem_valid /\ dm'.eng \in {"E_IDLE", "E_AR_WAIT"} /\ dm'.sbaddress0 = d.sbaddress0
    BY <1>6, <2>1, <2>3 DEF Served
  <2>5. ~Accessing'
    BY <2>4 DEF Accessing
  <2> QED
    BY <2>1, <2>2, <2>4, <2>5 DEF Kind, BusMoves
<1>7. CASE dm.eng \in {"E_SB_RD", "E_SB_WR"}
  <2>1. w = NoWrite /\ Accessing
    BY <1>7, Fields DEF Settled, Accessing
  <2>2. /\ d.eng = dm.eng /\ d.sbaddress0 = dm.sbaddress0
        /\ d.sbautoincrement = dm.sbautoincrement
    <3>1. d = d0
      BY <2>1 DEF Kind
    <3>2. /\ d0.eng = dm.eng /\ d0.sbaddress0 = dm.sbaddress0
          /\ d0.sbautoincrement = dm.sbautoincrement
      BY DEF d0, TypeOK, Registers
    <3> QED
      BY <3>1, <3>2
  <2>3. ~dm'.mem_valid /\ dm'.sbautoincrement = dm.sbautoincrement
    BY <1>7, <2>2 DEF Served
  <2>4. CASE port.ready
    <3>1. dm'.eng = "E_IDLE" /\ dm'.sbaddress0 = Increment(d)
      BY <1>7, <2>4 DEF Served
    <3>2. dm.eng = "E_SB_RD" => dm'.sbdata0 = port.rdata
      BY <1>7, <2>4 DEF Served
    <3>3. ~Accessing'
      BY <3>1 DEF Accessing
    <3> QED
      BY <2>1, <2>2, <2>3, <2>4, <3>1, <3>2, <3>3 DEF BusMoves, Increment
  <2>5. CASE ~port.ready
    BY <1>7, <2>1, <2>2, <2>3, <2>5 DEF BusMoves, Served
  <2> QED
    BY <2>4, <2>5
<1> QED
  BY <1>1, <1>5, <1>6, <1>7

\* The memory's clock edge while the hart is halted: the debugger's write is the
\* only one.
LEMMA MemIs ==
  ASSUME TypeOK, MemEdge
  PROVE  /\ port'.ready = dm.mem_valid
         /\ dm.mem_valid /\ ~dm.mem.write => port'.rdata = mem[dm.mem.addr]
         /\ hart.halted /\ dm.mem_valid /\ dm.mem.write => mem' = [mem EXCEPT ![dm.mem.addr] = dm.mem.val]
         /\ hart.halted /\ dm.mem_valid /\ ~dm.mem.write => mem' = mem
<1>1. port' = [ready |-> dm.mem_valid,
               rdata |-> IF dm.mem_valid /\ ~dm.mem.write THEN mem[dm.mem.addr] ELSE 0]
  BY DEF MemEdge
<1>2. ASSUME hart.halted
      PROVE  mem' = IF dm.mem_valid /\ dm.mem.write THEN [mem EXCEPT ![dm.mem.addr] = dm.mem.val] ELSE mem
  <2>1. PICK core \in {mem} \cup (IF hart.halted THEN {}
                               ELSE {[mem EXCEPT ![a] = v] : a, v \in Data}) :
          \/ mem' = IF dm.mem_valid /\ dm.mem.write
                    THEN [core EXCEPT ![dm.mem.addr] = dm.mem.val] ELSE core
          \/ /\ dm.mem_valid /\ dm.mem.write /\ core[dm.mem.addr] # mem[dm.mem.addr]
             /\ mem' = core
    BY DEF MemEdge
  <2>2. core = mem
    BY <1>2, <2>1
  <2> QED
    BY <2>1, <2>2
<1> QED
  BY <1>1, <1>2

\* The bus survives every step.
LEMMA BusKept ==
  ASSUME TypeOK, Bus, MemEdge, NEW w \in dmi_we, BusMoves(w), Asked(w)
  PROVE  Bus'
<1> DEFINE addr == IF w.reg = "sbaddress0" THEN w.val ELSE asked.next
           start == Reads(w) \/ Writes(w)
           idle == dm.eng = "E_IDLE" /\ w = NoWrite
<1>1. /\ asked'.next = IF start /\ dm.sbautoincrement THEN After(addr) ELSE addr
      /\ asked'.addr = IF start THEN addr ELSE IF idle THEN 0 ELSE asked.addr
      /\ asked'.val = IF Writes(w) THEN w.val ELSE IF idle THEN 0 ELSE asked.val
      /\ asked'.quiet = (hart.halted /\ (start \/ (~idle /\ asked.quiet)))
  BY DEF Asked, Reads, Writes
<1>2. dm.mem_valid \in BOOLEAN /\ port.ready \in BOOLEAN /\ port'.ready = dm.mem_valid
  BY MemIs DEF TypeOK, Registers
<1>3. w = NoWrite => ~start /\ ~Writes(w) /\ addr = asked.next
  BY DEF NoWrite, Reads, Writes
<1>4. Reads(w) => ~Writes(w) /\ addr = w.val
  BY DEF Reads, Writes
<1>5. Writes(w) => addr = asked.next
  BY DEF Writes
<1> HIDE DEF start
<1>6. CASE ~Accessing /\ ~start
  <2>1. ~dm.mem_valid /\ ~port'.ready /\ asked.next = dm.sbaddress0 /\ asked'.next = addr
    BY <1>1, <1>2, <1>6 DEF Bus
  <2>2. ~Accessing' /\ ~dm'.mem_valid /\ dm'.sbaddress0 = addr
    BY <1>6, <2>1 DEF BusMoves, start
  <2> QED
    BY <2>1, <2>2 DEF Bus
<1>7. CASE ~Accessing /\ start
  <2>1. ~port'.ready /\ asked.next = dm.sbaddress0 /\ dm'.sbaddress0 = addr
    BY <1>2, <1>7 DEF Bus, BusMoves
  <2>2. Accessing' /\ dm'.mem_valid /\ dm'.sbautoincrement = dm.sbautoincrement
    BY <1>7 DEF BusMoves, start
  <2>3. asked'.addr = addr /\ asked'.next = IF dm.sbautoincrement THEN After(addr) ELSE addr
    BY <1>1, <1>7
  <2>4. /\ dm'.mem.addr = addr /\ (dm'.mem.write <=> dm'.eng = "E_SB_WR")
        /\ dm'.mem.write => dm'.mem.val = asked'.val
    <3>1. CASE Reads(w)
      <4>1. dm'.eng = "E_SB_RD" /\ dm'.mem = [write |-> FALSE, addr |-> w.val, val |-> 0]
        BY <1>7, <3>1 DEF BusMoves
      <4> QED
        BY <1>4, <3>1, <4>1
    <3>2. CASE Writes(w)
      <4>1. dm'.eng = "E_SB_WR" /\ dm'.mem = [write |-> TRUE, addr |-> dm.sbaddress0, val |-> w.val]
        BY <1>7, <3>2 DEF BusMoves
      <4> QED
        BY <1>1, <1>5, <2>1, <3>2, <4>1
    <3> QED
      BY <1>7, <3>1, <3>2 DEF start
  <2> QED
    BY <2>1, <2>2, <2>3, <2>4 DEF Bus
<1>8. CASE Accessing
  <2>1. /\ w = NoWrite /\ ~dm'.mem_valid /\ dm'.sbautoincrement = dm.sbautoincrement
    BY <1>8 DEF BusMoves
  <2>2. /\ asked'.next = asked.next /\ asked'.addr = asked.addr /\ asked'.val = asked.val
        /\ asked'.quiet = (hart.halted /\ asked.quiet)
    BY <1>1, <1>3, <1>8, <2>1 DEF Accessing
  <2>3. CASE port.ready
    <3>1. ~port'.ready
      BY <1>2, <1>8, <2>3 DEF Bus
    <3>2. ~Accessing' /\ dm'.sbaddress0 = asked.next
      BY <1>8, <2>3 DEF Bus, BusMoves
    <3> QED
      BY <2>1, <2>2, <3>1, <3>2 DEF Bus
  <2>4. CASE ~port.ready
    <3>1. /\ dm.mem_valid /\ port'.ready /\ asked.addr = dm.sbaddress0 /\ dm.mem.addr = asked.addr
          /\ asked.next = IF dm.sbautoincrement THEN After(dm.sbaddress0) ELSE dm.sbaddress0
          /\ (dm.mem.write <=> dm.eng = "E_SB_WR") /\ (dm.mem.write => dm.mem.val = asked.val)
      BY <1>2, <1>8, <2>4 DEF Bus
    <3>2. dm'.eng = dm.eng /\ dm'.sbaddress0 = dm.sbaddress0 /\ Accessing'
      BY <1>8, <2>4 DEF BusMoves, Accessing
    <3>3. ASSUME asked'.quiet
          PROVE  /\ dm'.eng = "E_SB_WR" => mem'[asked'.addr] = asked'.val
                 /\ dm'.eng = "E_SB_RD" => port'.rdata = mem'[asked'.addr]
      <4>1. hart.halted
        BY <2>2, <3>3
      <4>2. mem \in [Data -> Data] /\ dm.mem.addr \in Data
        BY <3>1 DEF TypeOK, Registers, Accesses
      <4>3. CASE dm.mem.write
        <5>1. mem' = [mem EXCEPT ![dm.mem.addr] = dm.mem.val]
          BY <3>1, <4>1, <4>3, MemIs
        <5> QED
          BY <2>2, <3>1, <3>2, <4>2, <4>3, <5>1
      <4>4. CASE ~dm.mem.write
        <5>1. mem' = mem /\ port'.rdata = mem[dm.mem.addr]
          BY <3>1, <4>1, <4>4, MemIs
        <5> QED
          BY <2>2, <3>1, <3>2, <4>4, <5>1
      <4> QED
        BY <4>3, <4>4
    <3> QED
      BY <2>1, <2>2, <3>1, <3>2, <3>3 DEF Bus
  <2> QED
    BY <2>3, <2>4
<1> QED
  BY <1>6, <1>7, <1>8

-----------------------------------------------------------------------------
\* The invariant holds initially and survives every step.
LEMMA Inductive ==
  ASSUME HostWaits
  PROVE  /\ Init => Inv
         /\ Inv /\ [Next]_vars => Inv'
<1>1. Init => Inv
  <2> SUFFICES ASSUME Init PROVE Inv
    OBVIOUS
  <2>1. TypeOK
    BY TypeInit
  <2>2. /\ dm.eng = "E_IDLE" /\ ~dm.abs_busy /\ ~dm.ar_valid /\ ~dm.resumereq /\ ~dm.mem_valid
        /\ dm.sbaddress0 = 0 /\ asked.next = 0 /\ ~port.ready /\ ~hart.ar_done
    BY DEF Init
  <2> QED
    BY <2>1, <2>2 DEF Inv, Handshake, Pending, Bus, Accessing
<1>2. Inv /\ Next => Inv'
  <2> SUFFICES ASSUME Inv, Next PROVE Inv'
    OBVIOUS
  <2>1. TypeOK /\ Handshake /\ Pending /\ Bus
    BY DEF Inv
  <2>2. PICK w \in dmi_we : DmEdge(w) /\ Asked(w)
    BY DEF Next
  <2>3. Hart!HartEdge /\ MemEdge
    BY DEF Next
  <2>4. PICK d \in Registers, v \in ar_rdata : Kind(d, w) /\ Served(dm', d, v)
    BY <2>1, <2>2, DmSteps
  <2>5. CommandMoves(w, v) /\ BusMoves(w)
    BY <2>1, <2>4, CommandStep, BusStep
  <2> QED
    BY <2>1, <2>2, <2>3, <2>5, TypeStep, HandshakeStep, PendingStep, BusKept DEF Inv
<1>3. Inv /\ UNCHANGED vars => Inv'
  BY DEF Inv, vars, TypeOK, Handshake, Pending, Bus, Accessing, dbg_do, Hart!dbg_do
<1> QED
  BY <1>1, <1>2, <1>3

\* A halted hart is always serving the pending command: whatever the debugger
\* does short of a bus access while a command is pending, abs_busy never sticks
\* while the hart is halted (three_sipp_es_debug.sv, E_AR_WAIT).
THEOREM DebugPendingServed ==
  ASSUME HostWaits
  PROVE  Spec => []PendingServed
<1>1. Inv => PendingServed
  BY DEF Inv, Handshake, PendingServed, dbg_do, Hart!dbg_do
<1> QED
  BY <1>1, Inductive, PTL DEF Spec

\* A command that ends has read or written the register it named, with the value
\* data0 had when it was given, of a halted hart (start_access_reg, E_AR_WAIT).
THEOREM DebugCommandEffect ==
  ASSUME HostWaits
  PROVE  Spec => CommandEffect
<1> DEFINE A == dm.abs_busy /\ ~dm'.abs_busy =>
                  /\ hart.halted
                  /\ IF asked.cmd.write THEN regs[asked.cmd.regno] = asked.cmd.val
                     ELSE dm'.data0 = regs[asked.cmd.regno]
<1>1. Inv /\ Next => A
  <2> SUFFICES ASSUME Inv, Next, dm.abs_busy, ~dm'.abs_busy
               PROVE  /\ hart.halted
                      /\ IF asked.cmd.write THEN regs[asked.cmd.regno] = asked.cmd.val
                         ELSE dm'.data0 = regs[asked.cmd.regno]
    OBVIOUS
  <2>1. TypeOK /\ Handshake /\ Pending /\ Bus
    BY DEF Inv
  <2>2. PICK w \in dmi_we : DmEdge(w)
    BY DEF Next
  <2>3. PICK d \in Registers, v \in ar_rdata : Kind(d, w) /\ Served(dm', d, v)
    BY <2>1, <2>2, DmSteps
  <2>4. CommandMoves(w, v)
    BY <2>1, <2>3, CommandStep
  <2>5. hart.ar_done /\ hart.halted /\ (~dm.ar.write => dm'.data0 = v) /\ asked.cmd = dm.ar
    BY <2>1, <2>4 DEF CommandMoves, Handshake, Pending
  <2>6. v = regs[dm.ar.regno]
    BY <2>5 DEF ar_rdata
  <2> QED
    BY <2>1, <2>5, <2>6 DEF Pending
<1>2. UNCHANGED vars => A
  BY DEF vars
<1>3. Inv /\ [Next]_vars => [A]_vars
  BY <1>1, <1>2
<1> HIDE DEF A
<1>4. Spec => [][A]_vars
  BY <1>3, Inductive, PTL DEF Spec
<1> QED
  BY <1>4 DEF A, CommandEffect

\* A bus access of a halted hart reads or writes the word the debugger's own
\* count of addresses names, autoincrements included (E_SB_RD, E_SB_WR).
THEOREM DebugBusEffect ==
  ASSUME HostWaits
  PROVE  Spec => BusEffect
<1> DEFINE A == asked.quiet /\ hart.halted /\ dm'.eng = "E_IDLE" =>
                  /\ dm.eng = "E_SB_WR" => mem[asked.addr] = asked.val
                  /\ dm.eng = "E_SB_RD" => dm'.sbdata0 = mem[asked.addr]
<1>1. Inv /\ Next => A
  <2> SUFFICES ASSUME Inv, Next, asked.quiet, hart.halted, dm'.eng = "E_IDLE", Accessing
               PROVE  /\ dm.eng = "E_SB_WR" => mem[asked.addr] = asked.val
                      /\ dm.eng = "E_SB_RD" => dm'.sbdata0 = mem[asked.addr]
    BY DEF Accessing
  <2>1. TypeOK /\ Handshake /\ Pending /\ Bus
    BY DEF Inv
  <2>2. PICK w \in dmi_we : DmEdge(w)
    BY DEF Next
  <2>3. PICK d \in Registers, v \in ar_rdata : Kind(d, w) /\ Served(dm', d, v)
    BY <2>1, <2>2, DmSteps
  <2>4. BusMoves(w)
    BY <2>1, <2>3, BusStep
  <2>5. port.ready
    BY <2>4 DEF BusMoves, Accessing
  <2> QED
    BY <2>1, <2>4, <2>5 DEF BusMoves, Bus
<1>2. Inv /\ UNCHANGED vars => A
  BY DEF vars
<1>3. Inv /\ [Next]_vars => [A]_vars
  BY <1>1, <1>2
<1> HIDE DEF A
<1>4. Spec => [][A]_vars
  BY <1>3, Inductive, PTL DEF Spec
<1> QED
  BY <1>4 DEF A, BusEffect

-----------------------------------------------------------------------------
(***************************************************************************)
(* What the module promises to the hart, whatever the debugger does.       *)
(***************************************************************************)
OneAtATime ==
    /\ dm.eng = "E_AR_WAIT" => dm.ar_valid
    /\ dm.resumereq => ~dbg_do

\* A command that is not given in this cycle was valid before.
LEMMA OldCommand ==
  ASSUME TypeOK, OneAtATime, NEW w, NEW d, NEW v, Kind(d, w), Served(dm', d, v),
         ~Commands(w), dm'.ar_valid
  PROVE  dm.ar_valid
<1>1. dm.eng \in {"E_IDLE", "E_AR_WAIT", "E_SB_RD", "E_SB_WR"} /\ d.ar_valid = dm.ar_valid
  BY DEF TypeOK, Registers, Kind, SameCommand
<1>2. CASE dm.eng = "E_AR_WAIT"
  BY <1>2 DEF OneAtATime
<1>3. CASE dm.eng # "E_AR_WAIT"
  BY <1>1, <1>3 DEF Served
<1> QED
  BY <1>2, <1>3

\* A step keeps OneAtATime.
LEMMA OneAtATimeStep ==
  ASSUME TypeOK, OneAtATime, Next
  PROVE  OneAtATime'
<1>1. PICK w \in dmi_we : DmEdge(w)
  BY DEF Next
<1>2. PICK d \in Registers, v \in ar_rdata : Kind(d, w) /\ Served(dm', d, v)
  BY <1>1, DmSteps
<1>3. dm.eng \in {"E_IDLE", "E_AR_WAIT", "E_SB_RD", "E_SB_WR"}
  BY DEF TypeOK, Registers
<1>4. dm'.eng = "E_AR_WAIT" => dm'.ar_valid
  <2>1. CASE dm.eng = "E_IDLE"
    <3>1. dm' = d
      BY <1>2, <2>1 DEF Served
    <3>2. Commands(w) => d.ar_valid
      BY <1>2 DEF Kind
    <3>3. ~Commands(w) => d.eng # "E_AR_WAIT"
      BY <1>2, <2>1 DEF Kind
    <3> QED
      BY <3>1, <3>2, <3>3
  <2>2. CASE dm.eng = "E_AR_WAIT"
    BY <1>2, <2>2 DEF Served
  <2>3. CASE dm.eng \in {"E_SB_RD", "E_SB_WR"}
    <3>1. w = NoWrite
      BY <2>3, Fields DEF Settled
    <3>2. d.eng = dm.eng
      BY <1>2, <3>1 DEF Kind, d0, TypeOK, Registers
    <3> QED
      BY <1>2, <2>3, <3>2 DEF Served
  <2> QED
    BY <1>3, <2>1, <2>2, <2>3
<1>5. dm'.resumereq => ~dbg_do'
  <2> SUFFICES ASSUME dm'.resumereq, hart'.halted, dm'.ar_valid, ~hart'.ar_busy PROVE FALSE
    BY DEF dbg_do, Hart!dbg_do
  <2>1. w.reg = "dmcontrol" /\ hart.halted
    BY <1>2 DEF Kind, Served
  <2>2. dm.ar_valid
    BY <1>2, <2>1, OldCommand DEF Commands
  <2>3. Hart!HartEdge /\ dm.ndmreset \in BOOLEAN
    BY DEF Next, TypeOK, Registers
  <2>4. ~dm.ndmreset /\ (hart.ar_busy \/ dbg_do)
    BY <2>1, <2>2, <2>3, HartIs DEF dbg_do, Hart!dbg_do
  <2> QED
    BY <2>2, <2>3, <2>4, HartIs
<1> QED
  BY <1>4, <1>5 DEF OneAtATime

\* The module never resumes the hart in a cycle in which the hart takes an
\* abstract command, for every debugger, one that starts bus accesses while a
\* command is pending included (resumereq, E_AR_WAIT).  This is what
\* CoreRefinement asks of Core's pins with its OneCommand.
THEOREM DebugOneCommand == Spec => []OneCommand
<1>1. Init => OneAtATime
  BY DEF Init, OneAtATime
<1>2. TypeOK /\ OneAtATime /\ [Next]_vars => OneAtATime'
  <2>1. OneAtATime /\ UNCHANGED vars => OneAtATime'
    BY DEF OneAtATime, vars, dbg_do, Hart!dbg_do
  <2> QED
    BY <2>1, OneAtATimeStep
<1>3. OneAtATime => OneCommand
  BY DEF OneAtATime, OneCommand
<1> QED
  BY <1>1, <1>2, <1>3, DebugTypeOK, PTL DEF Spec

-----------------------------------------------------------------------------
(* DebugModule takes no DMI write before it is Settled.  It is within two  *)
(* clocks, and JtagTapProofs shows how much later the next write comes.    *)

\* The clocks it takes.
Unsettled ==
    IF Accessing THEN IF port.ready THEN 1 ELSE 2 ELSE IF dm.resumereq THEN 1 ELSE 0

\* The bus port has answered or is about to.
Answering == Accessing => dm.mem_valid \/ port.ready

\* A bus access that starts is requested, and no access is left without answer.
LEMMA AnsweringStep ==
  ASSUME TypeOK, Answering, Next
  PROVE  Answering'
<1>1. PICK w \in dmi_we : DmEdge(w)
  BY DEF Next
<1>2. PICK d \in Registers, v \in ar_rdata : Kind(d, w) /\ Served(dm', d, v)
  BY <1>1, DmSteps
<1>3. CASE Accessing
  <2>1. port'.ready = dm.mem_valid
    BY MemIs DEF Next
  <2> QED
    BY <1>2, <1>3, <2>1 DEF Served, Answering, Accessing
<1>4. CASE ~Accessing
  <2>1. dm.eng \in {"E_IDLE", "E_AR_WAIT"}
    BY <1>4 DEF TypeOK, Registers, Accessing
  <2>2. d.eng \in {"E_SB_RD", "E_SB_WR"} => d.mem_valid
    BY <1>2, <1>4, <2>1 DEF Kind, Accessing
  <2>3. dm'.eng \in {"E_SB_RD", "E_SB_WR"} => dm'.eng = d.eng /\ dm'.mem_valid = d.mem_valid
    BY <1>2, <2>1 DEF Served
  <2> QED
    BY <2>2, <2>3 DEF Answering, Accessing
<1> QED
  BY <1>3, <1>4

\* Each clock without a write brings the module nearer.
LEMMA SettlesStep ==
  ASSUME TypeOK, Answering, Next, ~Settled
  PROVE  Unsettled' < Unsettled
<1>1. PICK w \in dmi_we : DmEdge(w)
  BY DEF Next
<1>2. w = NoWrite
  BY DEF dmi_we
<1>3. PICK d \in Registers, v \in ar_rdata : Kind(d, w) /\ Served(dm', d, v)
  BY <1>1, DmSteps
<1>4. d.eng = dm.eng /\ ~dm'.resumereq
  BY <1>2, <1>3, Fields DEF Kind, d0, TypeOK, Registers, Served
<1>5. port'.ready = dm.mem_valid
  BY MemIs DEF Next
<1>6. CASE Accessing
  <2>1. CASE port.ready
    <3>1. ~Accessing'
      BY <1>3, <1>6, <2>1 DEF Served, Accessing
    <3> QED
      BY <1>4, <1>6, <2>1, <3>1 DEF Unsettled
  <2>2. CASE ~port.ready
    <3>1. dm'.eng = dm.eng /\ port'.ready
      BY <1>3, <1>4, <1>5, <1>6, <2>2 DEF Served, Accessing, Answering
    <3>2. Accessing'
      BY <1>6, <3>1 DEF Accessing
    <3> QED
      BY <1>6, <2>2, <3>1, <3>2 DEF Unsettled
  <2> QED
    BY <2>1, <2>2
<1>7. CASE ~Accessing
  <2>1. dm.resumereq
    BY <1>7 DEF Settled, Accessing
  <2>2. dm.eng \in {"E_IDLE", "E_AR_WAIT"}
    BY <1>7 DEF TypeOK, Registers, Accessing
  <2>3. ~Accessing'
    BY <1>3, <1>4, <2>2 DEF Served, Accessing
  <2> QED
    BY <1>4, <1>7, <2>1, <2>3 DEF Unsettled
<1> QED
  BY <1>6, <1>7

\* For every debugger, a resume request and a bus access are over two clocks
\* after the DMI write that starts them (resumereq_r, E_SB_RD, E_SB_WR, and
\* dm_mem_ready of the SoC): a write that comes three clocks after another finds
\* the engine free of it.
THEOREM DebugSettlesSoon ==
  Spec => /\ [](Unsettled \in 0 .. 2 /\ (Settled <=> Unsettled = 0))
          /\ [][~Settled => Unsettled' < Unsettled]_vars
<1>1. Init => Answering
  BY DEF Init, Answering, Accessing
<1>2. TypeOK /\ Answering /\ [Next]_vars => Answering'
  <2>1. Answering /\ UNCHANGED vars => Answering'
    BY DEF Answering, Accessing, vars
  <2> QED
    BY <2>1, AnsweringStep
<1>3. Unsettled \in 0 .. 2 /\ (Settled <=> Unsettled = 0)
  BY DEF Unsettled, Settled, Accessing
<1>4. TypeOK /\ Answering /\ [Next]_vars => [~Settled => Unsettled' < Unsettled]_vars
  BY SettlesStep
<1> QED
  BY <1>1, <1>2, <1>3, <1>4, DebugTypeOK, PTL DEF Spec

-----------------------------------------------------------------------------
(* The module under the writes JtagTap makes: any debugger, seven clocks or *)
(* more between two writes, and nothing assumed about when they come.       *)
VARIABLE wait       \* clocks for which no write can come

PacedWrites ==
    {NoWrite} \cup
    {w \in DmiWrites : wait = 0 /\ (HostWaits /\ dm.abs_busy => ~IsBusAccess(w))}
PacedNext ==
    /\ MemEdge /\ Hart!HartEdge
    /\ \E dmi \in PacedWrites :
         /\ DmEdge(dmi) /\ Asked(dmi)
         /\ wait' = IF dmi # NoWrite THEN 7 ELSE IF wait = 0 THEN 0 ELSE wait - 1
PacedSpec == Init /\ wait \in 0 .. 7 /\ [][PacedNext]_<<vars, wait>>

\* The module is settled before a write can come.
SettledInTime == Answering /\ wait \in 0 .. 7 /\ Unsettled <= wait

\* A clock without a write leaves a settled module settled.
LEMMA StaysSettled ==
  ASSUME TypeOK, Settled, NoWrite \in dmi_we, DmEdge(NoWrite)
  PROVE  Unsettled' = 0
<1>1. PICK d \in Registers, v \in ar_rdata : Kind(d, NoWrite) /\ Served(dm', d, v)
  BY DmSteps
<1>2. d.eng = dm.eng /\ ~dm'.resumereq
  BY <1>1, Fields DEF Kind, d0, TypeOK, Registers, Served
<1>3. dm.eng \in {"E_IDLE", "E_AR_WAIT"}
  BY DEF TypeOK, Registers, Settled
<1>4. ~Accessing'
  BY <1>1, <1>2, <1>3 DEF Served, Accessing
<1> QED
  BY <1>2, <1>4 DEF Unsettled

\* A write comes at a settled module.
LEMMA PacedIsNext ==
  ASSUME TypeOK, SettledInTime, PacedNext
  PROVE  Next /\ SettledInTime'
<1>1. PICK w \in PacedWrites :
        /\ DmEdge(w) /\ Asked(w)
        /\ wait' = IF w # NoWrite THEN 7 ELSE IF wait = 0 THEN 0 ELSE wait - 1
  BY DEF PacedNext
<1>2. wait = 0 => Settled
  BY DEF SettledInTime, Unsettled, Settled, Accessing
<1>3. w \in dmi_we
  BY <1>2 DEF PacedWrites, dmi_we
<1>4. Next
  BY <1>1, <1>3 DEF PacedNext, Next
<1>5. Answering'
  BY <1>4, AnsweringStep DEF SettledInTime
<1>6. Unsettled \in 0 .. 2 /\ Unsettled' \in 0 .. 2
  BY DEF Unsettled
<1>7. CASE w # NoWrite
  <2>1. wait' = 7
    BY <1>1, <1>7
  <2>2. wait' \in 0 .. 7 /\ Unsettled' <= wait'
    BY <1>6, <2>1
  <2> QED
    BY <1>4, <1>5, <2>2 DEF SettledInTime
<1>8. CASE w = NoWrite /\ Settled
  <2>1. Unsettled' = 0
    BY <1>1, <1>3, <1>8, StaysSettled
  <2> QED
    BY <1>1, <1>4, <1>5, <1>8, <2>1 DEF SettledInTime
<1>9. CASE w = NoWrite /\ ~Settled
  <2>1. Unsettled' < Unsettled
    BY <1>4, <1>9, SettlesStep DEF SettledInTime
  <2> QED
    BY <1>1, <1>4, <1>5, <1>6, <1>9, <2>1 DEF SettledInTime
<1> QED
  BY <1>4, <1>7, <1>8, <1>9

\* What DebugModule assumes of the moments at which writes come, that they find
\* the engine and the resume request of the write before gone, costs nothing:
\* every behaviour under writes as far apart as JtagTap's is one of its own.
THEOREM PacedIsDebugModule == PacedSpec => Spec
<1>1. Init /\ wait \in 0 .. 7 => TypeOK /\ SettledInTime
  BY TypeInit DEF Init, SettledInTime, Answering, Accessing, Unsettled
<1>2. TypeOK /\ SettledInTime /\ [PacedNext]_<<vars, wait>> => [Next]_vars /\ TypeOK' /\ SettledInTime'
  <2>1. TypeOK /\ SettledInTime /\ PacedNext => Next /\ TypeOK' /\ SettledInTime'
    BY PacedIsNext, TypeStep
  <2>2. TypeOK /\ SettledInTime /\ UNCHANGED <<vars, wait>> => UNCHANGED vars /\ TypeOK' /\ SettledInTime'
    BY DEF TypeOK, SettledInTime, Answering, Accessing, Unsettled, vars
  <2> QED
    BY <2>1, <2>2
<1> QED
  BY <1>1, <1>2, PTL DEF Spec, PacedSpec
=============================================================================
