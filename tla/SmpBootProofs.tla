--------------------------- MODULE SmpBootProofs ---------------------------
(***************************************************************************)
(* Starting any number of processors: the two invariants of SmpBoot hold   *)
(* for every NCpu, Bsp, Lapic0 and PROBES.                                 *)
(*                                                                         *)
(* SInv bounds startup_checksum by the number of processors that are done, *)
(* a lost increment only lowers it; KInv says who holds somelock at which  *)
(* step of the calibration, where the PIT interrupt is routed, which       *)
(* processors have their interrupts enabled, and on which of them a tick   *)
(* can be pending.                                                         *)
(***************************************************************************)
EXTENDS SmpBoot, FiniteSetTheorems, TLAPS

SmpSpec == SmpInit /\ [][SmpNext]_smpvars

PC == {"loop", "off", "entry", "idle", "lock", "redirect", "redirect high", "register",
       "wait", "erase", "unlock", "load", "store", "booted", "running", "panic"}
Started == {"booted", "running", "panic"}
Critical == {"redirect", "redirect high", "register", "wait", "erase", "unlock"}

Some == Cpu \cup {0}
Readings == Some \X Some
CpuRecord == [pc : PC, iflag : BOOLEAN, irr : BOOLEAN, reg : Nat, ctx : BOOLEAN,
              idle : BOOLEAN, measured : Readings]
CalRecord == [route : Some, vec : {"default", "calibrate"}, probe : Nat,
              start : Some, end : Some, unhandled : BOOLEAN, stray : BOOLEAN]
BootRecord == [i : Nat \ {0}, checksum : Nat, smp_initialized : BOOLEAN, ipi : BOOLEAN]
Types ==
    /\ cpus \in [Cpu -> CpuRecord] /\ somelock \in Some
    /\ cal \in CalRecord /\ boot \in BootRecord

(* The processors that have counted themselves.                            *)
Done == {c \in Cpu : \/ cpus[c].pc \in Started
                     \/ cpus[c].pc = "loop" /\ cpus[c].measured # <<0, 0>>}

(* When the readings are known to come from the calibrating processor.     *)
Exact == ~ cal.stray \/ Lapic0 = Bsp

(* What a processor has behind it, by the place it is at.                  *)
Ready(c) == cpus[c].ctx /\ cpus[c].idle /\ cpus[c].measured # <<0, 0>>
Progress(c) ==
    /\ cpus[c].pc \in {"idle", "lock"} \cup Critical \cup {"load", "store"} => cpus[c].ctx
    /\ cpus[c].pc \in {"lock"} \cup Critical \cup {"load", "store"} => cpus[c].idle
    /\ cpus[c].pc \in {"load", "store"} =>
          cpus[c].measured # <<0, 0>> /\ (Exact => cpus[c].measured = <<c, c>>)
    /\ c \in Done => Ready(c)
    /\ cpus[c].pc = "loop" => c = Bsp
    /\ c = Bsp /\ cpus[c].pc \in Started => boot.smp_initialized

(* Processors from boot.i on have not been started, those before are not   *)
(* started again.                                                          *)
NotYet(c) == c >= boot.i /\ c # Bsp => cpus[c].pc = "off"
BspOnce == boot.i <= Bsp => cpus[Bsp].pc = "loop" /\ cpus[Bsp].measured = <<0, 0>>

(* The lost-update invariant of startup_checksum.                          *)
Counted ==
    /\ boot.checksum <= Cardinality(Done)
    /\ \A c \in Cpu : cpus[c].pc = "store" => cpus[c].reg <= Cardinality(Done)
SInv ==
    /\ \A c \in Cpu : Progress(c) /\ NotYet(c)
    /\ BspOnce /\ Counted /\ (boot.smp_initialized => Done = Cpu)

(* The calibration as its holder sees it.  A tick is pending only where    *)
(* the interrupt has been routed to: at the holder, or at local APIC 0.    *)
Routed(c) ==
    \/ cpus[c].pc = "redirect high" /\ cal.route = Lapic0
    \/ cpus[c].pc \in {"register", "wait"} /\ cal.route = c
Readout(c) ==
    /\ cal.probe >= 1 => cal.start # 0 /\ (Exact => cal.start = c)
    /\ cal.probe >= PROBES => cal.end # 0 /\ (Exact => cal.end = c)
Holder(c) ==
    /\ cpus[c].pc \in Critical <=> somelock = c
    /\ cpus[c].iflag <=> cpus[c].pc \in {"wait", "erase", "unlock", "running"}
    /\ cpus[c].irr => \/ cpus[c].pc \in {"redirect high", "register", "wait"}
                      \/ cal.stray /\ c = Lapic0
    /\ cpus[c].pc \in Critical =>
          /\ cal.vec = "calibrate" <=> cpus[c].pc \in {"wait", "erase"}
          /\ cal.route # 0 => Routed(c)
    /\ cpus[c].pc \in {"redirect", "redirect high", "register"} => cal.probe = 0
    /\ cpus[c].pc \in {"wait", "erase", "unlock"} => Readout(c)
    /\ cpus[c].pc \in {"erase", "unlock"} => cal.probe >= PROBES /\ ~ cpus[c].irr /\ cal.route = 0
Holding == (\A c \in Cpu : Holder(c)) /\ (somelock = 0 => cal.vec = "default" /\ cal.route = 0)
KInv == Holding /\ (~ cal.stray => ~ cal.unhandled)
IInv == Types /\ SInv /\ KInv

(* A step that takes processor c from one place to another: the fields     *)
(* kept of its record, and of the calibration, and everybody else's record *)
(* stay as they are.                                                       *)
Moves(c, from, to, kept) ==
    /\ cpus[c].pc = from /\ cpus'[c].pc = to
    /\ \A f \in kept : cpus'[c][f] = cpus[c][f]
    /\ \A d \in Cpu \ {c} : cpus'[d] = cpus[d]
KeepsCal(kept) == \A f \in kept : cal'[f] = cal[f]

-----------------------------------------------------------------------------
(* A step of the processors keeps the state well typed.                    *)
LEMMA TypesStep == Types /\ [SmpNext]_smpvars => Types'
<1> SUFFICES ASSUME Types, [SmpNext]_smpvars PROVE Types'
    OBVIOUS
<1>0. Cpu \subseteq Some /\ 0 \in Some /\ Bsp \in Cpu /\ Lapic0 \in Some
    BY SmpAssumption DEF Some, Cpu
<1>a. \A r \in CpuRecord, x \in PC : [r EXCEPT !.pc = x] \in CpuRecord
    BY DEF CpuRecord
<1>b. \A r \in CpuRecord, x \in BOOLEAN : [r EXCEPT !.irr = x] \in CpuRecord
    BY DEF CpuRecord
<1> USE <1>0 DEF Types
<1>1. CASE StartCpu
    <2>1. boot.i \in Cpu
        BY <1>1, SmpAssumption DEF StartCpu, BootRecord, Cpu
    <2>2. cpus' \in [Cpu -> CpuRecord]
        BY <1>1, <2>1, <1>a DEF StartCpu, PC
    <2>3. boot' \in BootRecord
        BY <1>1 DEF StartCpu, BootRecord
    <2> QED
        BY <1>1, <2>1, <2>2, <2>3 DEF StartCpu
<1>2. CASE AllStarted
    <2>1. cpus' \in [Cpu -> CpuRecord]
        BY <1>2, <1>a DEF AllStarted, PC
    <2>2. boot' \in BootRecord
        BY <1>2 DEF AllStarted, BootRecord
    <2> QED
        BY <1>2, <2>1, <2>2 DEF AllStarted
<1>3. CASE PitTick
    <2>0. cal.route \in Cpu
        BY <1>3 DEF PitTick, CalRecord, Some
    <2>1. cpus' \in [Cpu -> CpuRecord]
        BY <1>3, <1>b, <2>0 DEF PitTick
    <2>2. cal' \in CalRecord
        BY <1>3 DEF PitTick, CalRecord
    <2> QED
        BY <1>3, <2>1, <2>2 DEF PitTick
<1>4. ASSUME NEW c \in Cpu, SetCtx(c) PROVE Types'
    <2>a. \A r \in CpuRecord : [r EXCEPT !.pc = "idle", !.ctx = TRUE] \in CpuRecord
        BY DEF CpuRecord, PC
    <2>1. cpus' \in [Cpu -> CpuRecord]
        BY <1>4, <2>a DEF SetCtx
    <2> QED
        BY <1>4, <2>1 DEF SetCtx
<1>5. ASSUME NEW c \in Cpu, IdleThread(c) PROVE Types'
    <2>a. \A r \in CpuRecord : [r EXCEPT !.pc = "lock", !.idle = TRUE] \in CpuRecord
        BY DEF CpuRecord, PC
    <2>1. cpus' \in [Cpu -> CpuRecord]
        BY <1>5, <2>a DEF IdleThread
    <2> QED
        BY <1>5, <2>1 DEF IdleThread
<1>6. ASSUME NEW c \in Cpu, Lock(c) PROVE Types'
    <2>1. cpus' \in [Cpu -> CpuRecord]
        BY <1>6, <1>a DEF Lock, PC
    <2>2. cal' \in CalRecord
        BY <1>6 DEF Lock, CalRecord, Reset
    <2> QED
        BY <1>6, <2>1, <2>2 DEF Lock
<1>7. ASSUME NEW c \in Cpu, RedirectLow(c) PROVE Types'
    <2>1. cpus' \in [Cpu -> CpuRecord]
        BY <1>7, <1>a DEF RedirectLow, PC
    <2>2. cal' \in CalRecord
        BY <1>7 DEF RedirectLow, CalRecord
    <2> QED
        BY <1>7, <2>1, <2>2 DEF RedirectLow
<1>8. ASSUME NEW c \in Cpu, RedirectHigh(c) PROVE Types'
    <2>1. cpus' \in [Cpu -> CpuRecord]
        BY <1>8, <1>a DEF RedirectHigh, PC
    <2>2. cal' \in CalRecord
        BY <1>8 DEF RedirectHigh, CalRecord
    <2> QED
        BY <1>8, <2>1, <2>2 DEF RedirectHigh
<1>9. ASSUME NEW c \in Cpu, Register(c) PROVE Types'
    <2>a. \A r \in CpuRecord : [r EXCEPT !.pc = "wait", !.iflag = TRUE] \in CpuRecord
        BY DEF CpuRecord, PC
    <2>1. cpus' \in [Cpu -> CpuRecord]
        BY <1>9, <2>a DEF Register
    <2>2. cal' \in CalRecord
        BY <1>9 DEF Register, CalRecord
    <2> QED
        BY <1>9, <2>1, <2>2 DEF Register
<1>10. ASSUME NEW c \in Cpu, RemoveIrq(c) PROVE Types'
    <2>1. cpus' \in [Cpu -> CpuRecord]
        BY <1>10, <1>a DEF RemoveIrq, PC
    <2>2. cal' \in CalRecord
        BY <1>10 DEF RemoveIrq, CalRecord
    <2> QED
        BY <1>10, <2>1, <2>2 DEF RemoveIrq
<1>11. ASSUME NEW c \in Cpu, Erase(c) PROVE Types'
    <2>1. cpus' \in [Cpu -> CpuRecord]
        BY <1>11, <1>a DEF Erase, PC
    <2>2. cal' \in CalRecord
        BY <1>11 DEF Erase, CalRecord
    <2> QED
        BY <1>11, <2>1, <2>2 DEF Erase
<1>12. ASSUME NEW c \in Cpu, Unlock(c) PROVE Types'
    <2>1. <<cal.start, cal.end>> \in Readings
        BY DEF CalRecord, Readings
    <2>a. \A r \in CpuRecord : [r EXCEPT !.pc = "load", !.iflag = FALSE,
                                              !.measured = <<cal.start, cal.end>>] \in CpuRecord
        BY <2>1 DEF CpuRecord, PC
    <2>2. cpus' \in [Cpu -> CpuRecord]
        BY <1>12, <2>a DEF Unlock
    <2> QED
        BY <1>12, <2>1, <2>2 DEF Unlock
<1>13. ASSUME NEW c \in Cpu, Load(c) PROVE Types'
    <2>a. \A r \in CpuRecord : [r EXCEPT !.pc = "store", !.reg = boot.checksum] \in CpuRecord
        BY DEF CpuRecord, PC, BootRecord
    <2>1. cpus' \in [Cpu -> CpuRecord]
        BY <1>13, <2>a DEF Load
    <2> QED
        BY <1>13, <2>1 DEF Load
<1>14. ASSUME NEW c \in Cpu, Store(c) PROVE Types'
    <2>a. \A r \in CpuRecord, x \in {"loop", "booted"} :
              [r EXCEPT !.pc = x, !.reg = 0] \in CpuRecord
        BY DEF CpuRecord, PC
    <2>1. cpus' \in [Cpu -> CpuRecord]
        BY <1>14, <2>a DEF Store
    <2>2. boot' \in BootRecord
        BY <1>14 DEF Store, BootRecord, CpuRecord
    <2> QED
        BY <1>14, <2>1, <2>2 DEF Store
<1>15. ASSUME NEW c \in Cpu, Probe(c) PROVE Types'
    <2>1. cpus' \in [Cpu -> CpuRecord]
        BY <1>15, <1>b DEF Probe
    <2>2. cal' \in CalRecord
        <3>1. \A n \in Nat, s, e \in Some :
                [cal EXCEPT !.probe = n, !.start = s, !.end = e] \in CalRecord
            BY DEF CalRecord
        <3>2. cal.probe \in Nat /\ cal.start \in Some /\ cal.end \in Some
            BY DEF CalRecord
        <3> DEFINE n == IF cal.probe > PROBES THEN cal.probe ELSE cal.probe + 1
                   s == IF n = 1 THEN c ELSE cal.start
                   e == IF n = PROBES THEN c ELSE cal.end
        <3>3. n \in Nat /\ s \in Some /\ e \in Some
            BY <3>2
        <3>4. cal' = [cal EXCEPT !.probe = n, !.start = s, !.end = e]
            BY <1>15 DEF Probe
        <3> HIDE DEF n, s, e
        <3> QED
            BY <3>1, <3>3, <3>4
    <2> QED
        BY <1>15, <2>1, <2>2 DEF Probe
<1>16. ASSUME NEW c \in Cpu, EnableInterrupts(c) PROVE Types'
    <2>a. \A r \in CpuRecord : [r EXCEPT !.pc = "running", !.iflag = TRUE] \in CpuRecord
        BY DEF CpuRecord, PC
    <2>1. cpus' \in [Cpu -> CpuRecord]
        BY <1>16, <2>a DEF EnableInterrupts
    <2> QED
        BY <1>16, <2>1 DEF EnableInterrupts
<1>17. ASSUME NEW c \in Cpu, Unhandled(c) PROVE Types'
    <2>a. \A r \in CpuRecord :
              [r EXCEPT !.pc = "panic", !.iflag = FALSE, !.irr = FALSE] \in CpuRecord
        BY DEF CpuRecord, PC
    <2>1. cpus' \in [Cpu -> CpuRecord]
        BY <1>17, <2>a DEF Unhandled
    <2>2. cal' \in CalRecord
        BY <1>17 DEF Unhandled, CalRecord
    <2>3. boot' \in BootRecord
        BY <1>17 DEF Unhandled, BootRecord
    <2> QED
        BY <1>17, <2>1, <2>2, <2>3 DEF Unhandled
<1>18. ASSUME NEW c \in Cpu, Ipi(c) PROVE Types'
    <2>a. \A r \in CpuRecord : [r EXCEPT !.pc = "panic", !.iflag = FALSE] \in CpuRecord
        BY DEF CpuRecord, PC
    <2>1. cpus' \in [Cpu -> CpuRecord]
        BY <1>18, <2>a DEF Ipi
    <2> QED
        BY <1>18, <2>1 DEF Ipi
<1>19. CASE Spin \/ UNCHANGED smpvars
    BY <1>19 DEF Spin, smpvars
<1> QED
    BY <1>1, <1>2, <1>3, <1>4, <1>5, <1>6, <1>7, <1>8, <1>9, <1>10, <1>11, <1>12, <1>13,
       <1>14, <1>15, <1>16, <1>17, <1>18, <1>19 DEF SmpNext

(* What the steps of a processor do, field by field.                       *)
LEMMA SetCtxEffect ==
    ASSUME Types, NEW c \in Cpu, SetCtx(c)
    PROVE /\ Moves(c, "entry", "idle", {"iflag", "irr", "idle", "measured"})
          /\ cpus'[c].ctx /\ UNCHANGED <<somelock, cal, boot>>
BY DEF SetCtx, At, Moves, Types, CpuRecord

LEMMA IdleThreadEffect ==
    ASSUME Types, NEW c \in Cpu, IdleThread(c)
    PROVE /\ Moves(c, "idle", "lock", {"iflag", "irr", "ctx", "measured"})
          /\ cpus'[c].idle /\ UNCHANGED <<somelock, cal, boot>>
BY DEF IdleThread, At, Moves, Types, CpuRecord

LEMMA LockEffect ==
    ASSUME Types, NEW c \in Cpu, Lock(c)
    PROVE /\ Moves(c, "lock", "redirect", {"iflag", "irr", "ctx", "idle", "measured"})
          /\ KeepsCal({"route", "vec", "unhandled", "stray"}) /\ cal'.probe = 0
          /\ somelock = 0 /\ somelock' = c /\ UNCHANGED boot
BY DEF Lock, At, Moves, Types, CpuRecord, KeepsCal, CalRecord, Reset

LEMMA RedirectLowEffect ==
    ASSUME Types, NEW c \in Cpu, RedirectLow(c)
    PROVE /\ Moves(c, "redirect", "redirect high", {"iflag", "irr", "ctx", "idle", "measured"})
          /\ KeepsCal({"vec", "probe", "unhandled", "stray"}) /\ cal'.route = Lapic0
          /\ UNCHANGED <<somelock, boot>>
BY DEF RedirectLow, At, Moves, Types, CpuRecord, KeepsCal, CalRecord

LEMMA RedirectHighEffect ==
    ASSUME Types, NEW c \in Cpu, RedirectHigh(c)
    PROVE /\ Moves(c, "redirect high", "register", {"iflag", "irr", "ctx", "idle", "measured"})
          /\ KeepsCal({"vec", "probe", "unhandled", "stray"}) /\ cal'.route = c
          /\ UNCHANGED <<somelock, boot>>
BY DEF RedirectHigh, At, Moves, Types, CpuRecord, KeepsCal, CalRecord

LEMMA RegisterEffect ==
    ASSUME Types, NEW c \in Cpu, Register(c)
    PROVE /\ Moves(c, "register", "wait", {"irr", "ctx", "idle", "measured"})
          /\ KeepsCal({"route", "probe", "unhandled", "stray"}) /\ cal'.vec = "calibrate"
          /\ cpus'[c].iflag = TRUE
          /\ UNCHANGED <<somelock, boot>>
BY DEF Register, At, Moves, Types, CpuRecord, KeepsCal, CalRecord

LEMMA RemoveIrqEffect ==
    ASSUME Types, NEW c \in Cpu, RemoveIrq(c)
    PROVE /\ Moves(c, "wait", "erase", {"iflag", "irr", "ctx", "idle", "measured"})
          /\ KeepsCal({"vec", "probe", "start", "end", "unhandled", "stray"}) /\ cal'.route = 0
          /\ cal.probe >= PROBES /\ ~ (cpus[c].irr /\ cpus[c].iflag) /\ UNCHANGED <<somelock, boot>>
BY DEF RemoveIrq, At, Moves, Types, CpuRecord, KeepsCal, CalRecord

LEMMA EraseEffect ==
    ASSUME Types, NEW c \in Cpu, Erase(c)
    PROVE /\ Moves(c, "erase", "unlock", {"iflag", "irr", "ctx", "idle", "measured"})
          /\ KeepsCal({"route", "probe", "start", "end", "unhandled", "stray"}) /\ cal'.vec = "default"
          /\ UNCHANGED <<somelock, boot>>
BY DEF Erase, At, Moves, Types, CpuRecord, KeepsCal, CalRecord

LEMMA UnlockEffect ==
    ASSUME Types, NEW c \in Cpu, Unlock(c)
    PROVE /\ Moves(c, "unlock", "load", {"irr", "ctx", "idle"})
          /\ cpus'[c].iflag = FALSE
          /\ cpus'[c].measured = <<cal.start, cal.end>> /\ somelock' = 0 /\ UNCHANGED <<cal, boot>>
BY DEF Unlock, At, Moves, Types, CpuRecord

LEMMA LoadEffect ==
    ASSUME Types, NEW c \in Cpu, Load(c)
    PROVE /\ Moves(c, "load", "store", {"iflag", "irr", "ctx", "idle", "measured"})
          /\ cpus'[c].reg = boot.checksum
          /\ UNCHANGED <<somelock, cal, boot>>
BY DEF Load, At, Moves, Types, CpuRecord

LEMMA StoreEffect ==
    ASSUME Types, NEW c \in Cpu, Store(c)
    PROVE /\ Moves(c, "store", IF c = Bsp THEN "loop" ELSE "booted",
                       {"iflag", "irr", "ctx", "idle", "measured"})
          /\ boot'.checksum = cpus[c].reg + 1 /\ boot'.i = boot.i
          /\ boot'.smp_initialized = boot.smp_initialized /\ UNCHANGED <<somelock, cal>>
BY DEF Store, At, Moves, Types, CpuRecord, BootRecord

LEMMA EnableInterruptsEffect ==
    ASSUME Types, NEW c \in Cpu, EnableInterrupts(c)
    PROVE /\ Moves(c, "booted", "running", {"irr", "ctx", "idle", "measured"})
          /\ cpus'[c].iflag = TRUE /\ UNCHANGED <<somelock, cal, boot>>
BY DEF EnableInterrupts, At, Moves, Types, CpuRecord

LEMMA UnhandledEffect ==
    ASSUME Types, NEW c \in Cpu, Unhandled(c)
    PROVE /\ Moves(c, cpus[c].pc, "panic", {"ctx", "idle", "measured"})
          /\ cpus[c].iflag /\ cpus[c].irr /\ cal.vec = "default"
          /\ cpus'[c].iflag = FALSE /\ cpus'[c].irr = FALSE
          /\ KeepsCal({"route", "vec", "probe", "start", "end", "stray"})
          /\ boot'.i = boot.i /\ boot'.checksum = boot.checksum
          /\ boot'.smp_initialized = boot.smp_initialized /\ UNCHANGED somelock
BY DEF Unhandled, Moves, Types, CpuRecord, KeepsCal, CalRecord, BootRecord

LEMMA IpiEffect ==
    ASSUME Types, NEW c \in Cpu, Ipi(c)
    PROVE /\ Moves(c, "running", "panic", {"irr", "ctx", "idle", "measured"})
          /\ cpus'[c].iflag = FALSE /\ UNCHANGED <<somelock, cal, boot>>
BY DEF Ipi, Moves, Types, CpuRecord

(* A processor that moves outside the calibration does not disturb it.     *)
LEMMA MovesOutside ==
    ASSUME Holding, NEW c \in Cpu, NEW from, NEW to, NEW kept, Moves(c, from, to, kept),
           from \notin Critical, to \notin Critical, cpus'[c].irr => cpus[c].irr,
           cpus'[c].iflag <=> to = "running", UNCHANGED somelock,
           KeepsCal({"route", "vec", "probe", "start", "end", "stray"})
    PROVE Holding'
<1>1. cpus[c].pc = from /\ cpus'[c].pc = to /\ \A d \in Cpu \ {c} : cpus'[d] = cpus[d]
    BY DEF Moves
<1>2. /\ cal'.route = cal.route /\ cal'.vec = cal.vec /\ cal'.probe = cal.probe
      /\ cal'.start = cal.start /\ cal'.end = cal.end /\ cal'.stray = cal.stray
    BY DEF KeepsCal
<1>3. Holder(c)'
    BY <1>1, <1>2 DEF Holding, Holder, Critical
<1>4. ASSUME NEW d \in Cpu \ {c} PROVE Holder(d)'
    <2>1. Holder(d) /\ cpus'[d] = cpus[d]
        BY <1>1 DEF Holding
    <2>2. (Routed(d)' <=> Routed(d)) /\ (Readout(d)' <=> Readout(d))
        BY <1>2, <2>1 DEF Routed, Readout, Exact
    <2> QED
        BY <1>2, <2>1, <2>2 DEF Holder
<1> QED
    BY <1>2, <1>3, <1>4 DEF Holding

(* In particular one whose interrupts stay off.                            *)
LEMMA MovesQuietly ==
    ASSUME KInv, NEW c \in Cpu, NEW from, NEW to, NEW kept, Moves(c, from, to, kept),
           {"iflag", "irr"} \subseteq kept, from \notin Critical \cup {"running"},
           to \notin Critical \cup {"running"}, UNCHANGED <<somelock, cal>>
    PROVE KInv'
<1>1. cpus[c].pc = from /\ cpus'[c].iflag = cpus[c].iflag /\ cpus'[c].irr = cpus[c].irr
    BY DEF Moves
<1>2. ~ cpus[c].iflag
    BY <1>1 DEF KInv, Holding, Holder, Critical
<1>3. KeepsCal({"route", "vec", "probe", "start", "end", "stray"})
    BY DEF KeepsCal
<1>4. Holding'
    BY <1>1, <1>2, <1>3, MovesOutside DEF KInv
<1> QED
    BY <1>4 DEF KInv

(* The holder moves inside the calibration: the other processors have no   *)
(* part in it.                                                             *)
LEMMA MovesInside ==
    ASSUME KInv, 0 \notin Cpu, NEW c \in Cpu, NEW from, NEW to, NEW kept, Moves(c, from, to, kept),
           somelock \in {0, c}, somelock' \in {0, c}, cal'.stray = cal.stray
    PROVE \A d \in Cpu \ {c} : Holder(d)'
<1> SUFFICES ASSUME NEW d \in Cpu \ {c} PROVE Holder(d)'
    OBVIOUS
<1>1. cpus'[d] = cpus[d] /\ Holder(d) /\ somelock # d /\ somelock' # d
    BY DEF Moves, KInv, Holding
<1> QED
    BY <1>1 DEF Holder, Critical

(* A step keeps what the holder of somelock relies on.                     *)
LEMMA KInvStep == Types /\ SInv /\ KInv /\ [SmpNext]_smpvars => KInv'
<1> SUFFICES ASSUME Types, SInv, KInv, [SmpNext]_smpvars PROVE KInv'
    OBVIOUS
<1>0. /\ Bsp \in Cpu /\ 0 \notin Cpu /\ PROBES \in Nat /\ PROBES >= 2 /\ cal.probe \in Nat
      /\ cal.start \in Some /\ cal.end \in Some
    BY SmpAssumption DEF Cpu, Types, CalRecord
<1>1. CASE StartCpu
    <2>1. boot.i \in Cpu
        BY <1>1, SmpAssumption DEF StartCpu, Types, BootRecord, Cpu
    <2>2. cpus[boot.i].pc \notin Critical \cup {"running"}
        <3>1. boot.i = Bsp => cpus[boot.i].pc = "loop"
            BY <1>1 DEF StartCpu, At
        <3>2. boot.i # Bsp => cpus[boot.i].pc = "off"
            BY <2>1 DEF SInv, NotYet, Cpu
        <3> QED
            BY <3>1, <3>2 DEF Critical
    <2>3. Moves(boot.i, cpus[boot.i].pc, "entry", {"iflag", "irr"})
        BY <1>1, <2>1 DEF StartCpu, Types, CpuRecord, Moves
    <2>4. "entry" \notin Critical \cup {"running"} /\ UNCHANGED <<somelock, cal>>
        BY <1>1 DEF StartCpu, Critical
    <2> QED
        BY <2>1, <2>2, <2>3, <2>4, MovesQuietly
<1>2. CASE AllStarted
    <2>1. Moves(Bsp, "loop", "booted", {"iflag", "irr"})
        BY <1>0, <1>2 DEF AllStarted, At, Types, CpuRecord, Moves
    <2> QED
        BY <1>0, <1>2, <2>1, MovesQuietly DEF AllStarted, Critical
<1>3. CASE PitTick
    <2> DEFINE c == cal.route
    <2>0. cal.route = c
        OBVIOUS
    <2>1. c \in Cpu /\ c # 0
        BY <1>3 DEF PitTick, Types, CalRecord, Some
    <2>2. \A d \in Cpu : /\ cpus'[d].pc = cpus[d].pc /\ cpus'[d].iflag = cpus[d].iflag
                         /\ d # c => cpus'[d].irr = cpus[d].irr
        BY <1>3, <2>1 DEF PitTick, Types, CpuRecord
    <2>3. /\ cal'.route = c /\ cal'.vec = cal.vec /\ cal'.probe = cal.probe
          /\ cal'.start = cal.start /\ cal'.end = cal.end /\ cal'.unhandled = cal.unhandled
          /\ cal'.stray = (cal.stray \/ c # somelock) /\ somelock' = somelock
        BY <1>3 DEF PitTick, Types, CalRecord
    <2>4. somelock \in Cpu /\ Routed(somelock)
        <3>1. somelock \in Cpu
            BY <2>1 DEF KInv, Holding, Types, Some
        <3> QED
            BY <2>1, <3>1 DEF KInv, Holding, Holder
    <2>5. \/ cpus[c].pc \in {"redirect high", "register", "wait"}
          \/ cal'.stray /\ c = Lapic0
        BY <2>3, <2>4 DEF Routed
    <2>6. c = somelock => cpus[c].pc \notin {"erase", "unlock"}
        BY <2>1, <2>4 DEF Routed
    <2>7. ASSUME NEW d \in Cpu PROVE Holder(d)'
        <3>1. Holder(d) /\ (Exact' => Exact)
            BY <2>3 DEF KInv, Holding, Exact
        <3>2. Readout(d) => Readout(d)'
            BY <2>3, <3>1 DEF Readout
        <3>3. Routed(d) => Routed(d)'
            BY <2>2, <2>3 DEF Routed
        <3>4. CASE d = c
            <4>1. cpus[c].pc \notin {"erase", "unlock"}
                BY <2>6, <3>1, <3>4 DEF Holder, Critical
            <4> HIDE DEF c
            <4> QED
                BY <2>0, <2>2, <2>3, <2>5, <3>1, <3>2, <3>3, <3>4, <4>1 DEF Holder, Critical
        <3>5. CASE d # c
            <4> HIDE DEF c
            <4> QED
                BY <2>0, <2>2, <2>3, <3>1, <3>2, <3>3, <3>5 DEF Holder, Critical
        <3> QED
            BY <3>4, <3>5
    <2> QED
        BY <2>3, <2>4, <2>7, <1>0 DEF KInv, Holding
<1>4. ASSUME NEW c \in Cpu, SetCtx(c) PROVE KInv'
    BY <1>4, SetCtxEffect, MovesQuietly DEF Critical
<1>5. ASSUME NEW c \in Cpu, IdleThread(c) PROVE KInv'
    BY <1>5, IdleThreadEffect, MovesQuietly DEF Critical
<1>6. ASSUME NEW c \in Cpu, Load(c) PROVE KInv'
    BY <1>6, LoadEffect, MovesQuietly DEF Critical
<1>7. ASSUME NEW c \in Cpu, Store(c) PROVE KInv'
    <2> DEFINE to == IF c = Bsp THEN "loop" ELSE "booted"
    <2>1. to \notin Critical \cup {"running"}
        BY DEF Critical
    <2>2. Moves(c, "store", to, {"iflag", "irr", "ctx", "idle", "measured"}) /\ UNCHANGED <<somelock, cal>>
        BY <1>7, StoreEffect
    <2> HIDE DEF to
    <2> QED
        BY <2>1, <2>2, MovesQuietly DEF Critical
<1>8. ASSUME NEW c \in Cpu, EnableInterrupts(c) PROVE KInv'
    <2>1. KeepsCal({"route", "vec", "probe", "start", "end", "stray"}) /\ cpus'[c].irr = cpus[c].irr
        BY <1>8, EnableInterruptsEffect DEF KeepsCal, Moves
    <2>2. Holding'
        BY <1>8, <2>1, EnableInterruptsEffect, MovesOutside DEF KInv, Critical
    <2> QED
        BY <1>8, <2>2, EnableInterruptsEffect DEF KInv
<1>9. ASSUME NEW c \in Cpu, Unhandled(c) PROVE KInv'
    <2>1. cpus[c].pc = "running" /\ cal.stray
        BY <1>9, UnhandledEffect DEF KInv, Holding, Holder, Critical
    <2>a. /\ Moves(c, "running", "panic", {"ctx", "idle", "measured"})
          /\ ~ cpus'[c].iflag /\ ~ cpus'[c].irr /\ UNCHANGED somelock
          /\ KeepsCal({"route", "vec", "probe", "start", "end", "stray"})
        BY <1>9, <2>1, UnhandledEffect
    <2>2. Holding'
        BY <2>a, MovesOutside DEF KInv, Critical
    <2>3. cal'.stray
        BY <1>9, <2>1, UnhandledEffect DEF KeepsCal
    <2> QED
        BY <2>2, <2>3 DEF KInv
<1>10. ASSUME NEW c \in Cpu, Ipi(c) PROVE KInv'
    <2>1. /\ KeepsCal({"route", "vec", "probe", "start", "end", "stray"})
          /\ cpus'[c].irr => cpus[c].irr
        BY <1>10, IpiEffect DEF KeepsCal, Moves
    <2>a. /\ Moves(c, "running", "panic", {"irr", "ctx", "idle", "measured"})
          /\ ~ cpus'[c].iflag /\ UNCHANGED somelock
        BY <1>10, IpiEffect
    <2>b. Holding /\ "running" \notin Critical /\ "panic" \notin Critical
        BY DEF KInv, Critical
    <2>2. Holding'
        BY <2>1, <2>a, <2>b, MovesOutside
    <2> QED
        BY <1>10, <2>2, IpiEffect DEF KInv
<1>11. ASSUME NEW c \in Cpu, Lock(c) PROVE KInv'
    <2>1. /\ cpus[c].pc = "lock" /\ cpus'[c].pc = "redirect"
          /\ cpus'[c].iflag = cpus[c].iflag /\ cpus'[c].irr = cpus[c].irr
          /\ cal'.route = cal.route /\ cal'.vec = cal.vec
          /\ cal'.unhandled = cal.unhandled /\ cal'.stray = cal.stray
          /\ cal'.probe = 0 /\ somelock = 0
          /\ somelock' = c
        BY <1>11, LockEffect DEF Moves, KeepsCal
    <2>2. somelock \in {0, c} /\ somelock' \in {0, c} /\ Holder(c)
        BY <2>1 DEF KInv, Holding, Holder, Critical
    <2>3. Holder(c)'
        BY <1>0, <2>1, <2>2 DEF KInv, Holding, Holder, Critical, Routed, Readout, Exact
    <2>4. \A d \in Cpu \ {c} : Holder(d)'
        BY <1>0, <1>11, LockEffect, <2>1, <2>2, MovesInside
    <2>5. somelock' = 0 => cal'.vec = "default" /\ cal'.route = 0
        BY <1>0, <2>1, <2>2 DEF Types, CalRecord, Holder, Critical
    <2> QED
        BY <2>1, <2>3, <2>4, <2>5 DEF KInv, Holding
<1>12. ASSUME NEW c \in Cpu, RedirectLow(c) PROVE KInv'
    <2>1. /\ cpus[c].pc = "redirect" /\ cpus'[c].pc = "redirect high"
          /\ cpus'[c].iflag = cpus[c].iflag /\ cpus'[c].irr = cpus[c].irr
          /\ cal'.vec = cal.vec /\ cal'.probe = cal.probe
          /\ cal'.unhandled = cal.unhandled /\ cal'.stray = cal.stray
          /\ cal'.route = Lapic0 /\ somelock' = somelock
        BY <1>12, RedirectLowEffect DEF Moves, KeepsCal
    <2>2. somelock \in {0, c} /\ somelock' \in {0, c} /\ Holder(c)
        BY <2>1 DEF KInv, Holding, Holder, Critical
    <2>3. Holder(c)'
        BY <1>0, <2>1, <2>2 DEF KInv, Holding, Holder, Critical, Routed, Readout, Exact
    <2>4. \A d \in Cpu \ {c} : Holder(d)'
        BY <1>0, <1>12, RedirectLowEffect, <2>1, <2>2, MovesInside
    <2>5. somelock' = 0 => cal'.vec = "default" /\ cal'.route = 0
        BY <1>0, <2>1, <2>2 DEF Types, CalRecord, Holder, Critical
    <2> QED
        BY <2>1, <2>3, <2>4, <2>5 DEF KInv, Holding
<1>13. ASSUME NEW c \in Cpu, RedirectHigh(c) PROVE KInv'
    <2>1. /\ cpus[c].pc = "redirect high" /\ cpus'[c].pc = "register"
          /\ cpus'[c].iflag = cpus[c].iflag /\ cpus'[c].irr = cpus[c].irr
          /\ cal'.vec = cal.vec /\ cal'.probe = cal.probe
          /\ cal'.unhandled = cal.unhandled /\ cal'.stray = cal.stray
          /\ cal'.route = c /\ somelock' = somelock
        BY <1>13, RedirectHighEffect DEF Moves, KeepsCal
    <2>2. somelock \in {0, c} /\ somelock' \in {0, c} /\ Holder(c)
        BY <2>1 DEF KInv, Holding, Holder, Critical
    <2>3. Holder(c)'
        BY <1>0, <2>1, <2>2 DEF KInv, Holding, Holder, Critical, Routed, Readout, Exact
    <2>4. \A d \in Cpu \ {c} : Holder(d)'
        BY <1>0, <1>13, RedirectHighEffect, <2>1, <2>2, MovesInside
    <2>5. somelock' = 0 => cal'.vec = "default" /\ cal'.route = 0
        BY <1>0, <2>1, <2>2 DEF Types, CalRecord, Holder, Critical
    <2> QED
        BY <2>1, <2>3, <2>4, <2>5 DEF KInv, Holding
<1>14. ASSUME NEW c \in Cpu, Register(c) PROVE KInv'
    <2>1. /\ cpus[c].pc = "register" /\ cpus'[c].pc = "wait"
          /\ cpus'[c].irr = cpus[c].irr /\ cal'.route = cal.route
          /\ cal'.probe = cal.probe /\ cal'.unhandled = cal.unhandled
          /\ cal'.stray = cal.stray /\ cal'.vec = "calibrate"
          /\ cpus'[c].iflag = TRUE /\ somelock' = somelock
        BY <1>14, RegisterEffect DEF Moves, KeepsCal
    <2>2. somelock \in {0, c} /\ somelock' \in {0, c} /\ Holder(c)
        BY <2>1 DEF KInv, Holding, Holder, Critical
    <2>a. Readout(c)' /\ somelock' = c /\ (cal'.route # 0 => Routed(c)')
        BY <1>0, <2>1, <2>2 DEF Holder, Critical, Routed, Readout
    <2>3. Holder(c)'
        BY <2>1, <2>a DEF Holder, Critical
    <2>4. \A d \in Cpu \ {c} : Holder(d)'
        BY <1>0, <1>14, RegisterEffect, <2>1, <2>2, MovesInside
    <2>5. somelock' = 0 => cal'.vec = "default" /\ cal'.route = 0
        BY <1>0, <2>1, <2>2 DEF Types, CalRecord, Holder, Critical
    <2> QED
        BY <2>1, <2>3, <2>4, <2>5 DEF KInv, Holding
<1>15. ASSUME NEW c \in Cpu, RemoveIrq(c) PROVE KInv'
    <2>1. /\ cpus[c].pc = "wait" /\ cpus'[c].pc = "erase"
          /\ cpus'[c].iflag = cpus[c].iflag /\ cpus'[c].irr = cpus[c].irr
          /\ cal'.vec = cal.vec /\ cal'.probe = cal.probe
          /\ cal'.start = cal.start /\ cal'.end = cal.end
          /\ cal'.unhandled = cal.unhandled /\ cal'.stray = cal.stray
          /\ cal'.route = 0 /\ ~ (cpus[c].irr /\ cpus[c].iflag)
          /\ cal.probe >= PROBES /\ somelock' = somelock
        BY <1>15, RemoveIrqEffect DEF Moves, KeepsCal
    <2>2. somelock \in {0, c} /\ somelock' \in {0, c} /\ Holder(c)
        BY <2>1 DEF KInv, Holding, Holder, Critical
    <2>3. Holder(c)'
        BY <1>0, <2>1, <2>2 DEF KInv, Holding, Holder, Critical, Routed, Readout, Exact
    <2>4. \A d \in Cpu \ {c} : Holder(d)'
        BY <1>0, <1>15, RemoveIrqEffect, <2>1, <2>2, MovesInside
    <2>5. somelock' = 0 => cal'.vec = "default" /\ cal'.route = 0
        BY <1>0, <2>1, <2>2 DEF Types, CalRecord, Holder, Critical
    <2> QED
        BY <2>1, <2>3, <2>4, <2>5 DEF KInv, Holding
<1>16. ASSUME NEW c \in Cpu, Erase(c) PROVE KInv'
    <2>1. /\ cpus[c].pc = "erase" /\ cpus'[c].pc = "unlock"
          /\ cpus'[c].iflag = cpus[c].iflag /\ cpus'[c].irr = cpus[c].irr
          /\ cal'.route = cal.route /\ cal'.probe = cal.probe
          /\ cal'.start = cal.start /\ cal'.end = cal.end
          /\ cal'.unhandled = cal.unhandled /\ cal'.stray = cal.stray
          /\ cal'.vec = "default" /\ somelock' = somelock
        BY <1>16, EraseEffect DEF Moves, KeepsCal
    <2>2. somelock \in {0, c} /\ somelock' \in {0, c} /\ Holder(c)
        BY <2>1 DEF KInv, Holding, Holder, Critical
    <2>3. Holder(c)'
        BY <1>0, <2>1, <2>2 DEF KInv, Holding, Holder, Critical, Routed, Readout, Exact
    <2>4. \A d \in Cpu \ {c} : Holder(d)'
        BY <1>0, <1>16, EraseEffect, <2>1, <2>2, MovesInside
    <2>5. somelock' = 0 => cal'.vec = "default" /\ cal'.route = 0
        BY <1>0, <2>1, <2>2 DEF Types, CalRecord, Holder, Critical
    <2> QED
        BY <2>1, <2>3, <2>4, <2>5 DEF KInv, Holding
<1>17. ASSUME NEW c \in Cpu, Unlock(c) PROVE KInv'
    <2>1. /\ cpus[c].pc = "unlock" /\ cpus'[c].pc = "load"
          /\ cpus'[c].irr = cpus[c].irr /\ cal'.route = cal.route
          /\ cal'.vec = cal.vec /\ cal'.unhandled = cal.unhandled
          /\ cal'.stray = cal.stray /\ cpus'[c].iflag = FALSE
          /\ somelock' = 0
        BY <1>17, UnlockEffect DEF Moves, KeepsCal
    <2>2. somelock \in {0, c} /\ somelock' \in {0, c} /\ Holder(c)
        BY <2>1 DEF KInv, Holding, Holder, Critical
    <2>3. Holder(c)'
        BY <1>0, <2>1, <2>2 DEF KInv, Holding, Holder, Critical, Routed, Readout, Exact
    <2>4. \A d \in Cpu \ {c} : Holder(d)'
        BY <1>0, <1>17, UnlockEffect, <2>1, <2>2, MovesInside
    <2>5. somelock' = 0 => cal'.vec = "default" /\ cal'.route = 0
        BY <1>0, <2>1, <2>2 DEF Types, CalRecord, Holder, Critical
    <2> QED
        BY <2>1, <2>3, <2>4, <2>5 DEF KInv, Holding
<1>18. ASSUME NEW c \in Cpu, Probe(c) PROVE KInv'
    <2> DEFINE n == IF cal.probe > PROBES THEN cal.probe ELSE cal.probe + 1
    <2>1. /\ cal'.probe = n /\ cal'.vec = cal.vec /\ cal'.route = cal.route
          /\ cal'.start = (IF n = 1 THEN c ELSE cal.start)
          /\ cal'.end = (IF n = PROBES THEN c ELSE cal.end)
          /\ cal'.stray = cal.stray /\ cal'.unhandled = cal.unhandled /\ somelock' = somelock
        BY <1>18 DEF Probe, Types, CalRecord
    <2>2. /\ cpus[c].irr /\ cpus[c].iflag /\ cal.vec = "calibrate" /\ ~ cpus'[c].irr
          /\ \A d \in Cpu : cpus'[d].pc = cpus[d].pc /\ cpus'[d].iflag = cpus[d].iflag
          /\ \A d \in Cpu \ {c} : cpus'[d] = cpus[d]
        BY <1>18 DEF Probe, Types, CpuRecord
    <2>3. somelock \in Cpu /\ cpus[somelock].pc \in {"wait", "erase"}
        <3>1. somelock \in Cpu
            BY <2>2 DEF KInv, Holding, Types, Some
        <3> QED
            BY <2>2, <3>1 DEF KInv, Holding, Holder
    <2>4. Exact => c = somelock
        <3>1. SUFFICES ASSUME Exact, c # somelock PROVE FALSE
            OBVIOUS
        <3>2. cpus[c].pc = "running" /\ cal.stray /\ c = Lapic0
            BY <2>2, <3>1 DEF KInv, Holding, Holder, Critical
        <3>3. somelock \in Done
            BY <1>0, <2>3, <3>1, <3>2 DEF SInv, Progress, Started, Exact
        <3> QED
            BY <2>3, <3>3 DEF Done, Started
    <2>5. Readout(somelock)'
        <3>1. Readout(somelock) /\ (Exact' <=> Exact)
            BY <2>1, <2>3 DEF KInv, Holding, Holder, Exact
        <3>2. n \in Nat /\ (n # 1 => (cal.probe >= 1)) /\ (n # PROBES /\ n >= PROBES => cal.probe >= PROBES)
            BY <1>0
        <3>3. cal'.start # 0 /\ (Exact => cal'.start = somelock)
            BY <1>0, <2>1, <2>4, <3>1, <3>2 DEF Readout
        <3>4. cal'.probe >= PROBES => cal'.end # 0 /\ (Exact => cal'.end = somelock)
            BY <1>0, <2>1, <2>4, <3>1, <3>2 DEF Readout
        <3> QED
            BY <2>1, <3>1, <3>3, <3>4 DEF Readout
    <2>6. cal.probe >= PROBES => cal'.probe >= PROBES
        BY <1>0, <2>1
    <2>7. ASSUME NEW d \in Cpu PROVE Holder(d)'
        <3>1. /\ Holder(d) /\ cpus'[d].pc = cpus[d].pc /\ cpus'[d].iflag = cpus[d].iflag
              /\ cpus'[d].irr => cpus[d].irr
            BY <2>2 DEF KInv, Holding
        <3>2. Routed(d) => Routed(d)'
            BY <2>1, <3>1 DEF Routed
        <3>3. cpus[d].pc \in Critical => d = somelock
            BY <3>1 DEF Holder
        <3> HIDE DEF n
        <3> QED
            BY <2>1, <2>3, <2>5, <2>6, <3>1, <3>2, <3>3 DEF Holder, Critical
    <2> QED
        BY <2>1, <2>3, <2>7, <1>0 DEF KInv, Holding
<1>19. CASE Spin \/ UNCHANGED smpvars
    <2>1. cpus' = cpus /\ somelock' = somelock /\ cal' = cal
        BY <1>19 DEF Spin, smpvars
    <2>2. ASSUME NEW d \in Cpu PROVE Holder(d)'
        <3>1. Holder(d)
            BY DEF KInv, Holding
        <3>2. (Routed(d)' <=> Routed(d)) /\ (Readout(d)' <=> Readout(d))
            BY <2>1 DEF Routed, Readout, Exact
        <3> QED
            BY <2>1, <3>1, <3>2 DEF Holder
    <2> QED
        BY <2>1, <2>2 DEF KInv, Holding
<1> QED
    BY <1>1, <1>2, <1>3, <1>4, <1>5, <1>6, <1>7, <1>8, <1>9, <1>10, <1>11, <1>12, <1>13, <1>14, <1>15, <1>16, <1>17, <1>18, <1>19 DEF SmpNext

(* The processors that are done are finitely many.                         *)
LEMMA DoneFinite ==
    /\ IsFiniteSet(Cpu) /\ Cardinality(Cpu) = NCpu
    /\ Done \subseteq Cpu /\ IsFiniteSet(Done) /\ Cardinality(Done) \in Nat
<1>1. IsFiniteSet(Cpu) /\ Cardinality(Cpu) = NCpu
    BY SmpAssumption, FS_Interval DEF Cpu
<1>2. Done \subseteq Cpu
    BY DEF Done
<1> QED
    BY <1>1, <1>2, FS_Subset, FS_CardinalityType

(* A step of a started processor that does not count itself yet.           *)
LEMMA MovesOn ==
    ASSUME SInv, NEW c \in Cpu, NEW from, NEW to, NEW kept, Moves(c, from, to, kept),
           from \notin Started \cup {"off", "loop"}, to \notin Started \cup {"off", "loop"},
           Progress(c)', to = "store" => cpus'[c].reg <= Cardinality(Done), UNCHANGED boot,
           cal'.stray = cal.stray
    PROVE SInv'
<1>1. /\ cpus[c].pc = from /\ cpus'[c].pc = to /\ \A d \in Cpu \ {c} : cpus'[d] = cpus[d]
    BY DEF Moves
<1>2. Done' = Done
    BY <1>1 DEF Done
<1>3. ASSUME NEW d \in Cpu PROVE Progress(d)'
    BY <1>1, <1>2 DEF SInv, Progress, Ready, Exact
<1>4. ASSUME NEW d \in Cpu PROVE NotYet(d)'
    BY <1>1 DEF SInv, NotYet
<1>5. BspOnce'
    BY <1>1, SmpAssumption DEF SInv, BspOnce, Cpu
<1>6. Counted'
    BY <1>1, <1>2 DEF SInv, Counted
<1> QED
    BY <1>2, <1>3, <1>4, <1>5, <1>6 DEF SInv

(* A step that only concerns interrupts, or a processor that is done.      *)
LEMMA MovesNot ==
    ASSUME SInv, boot'.i = boot.i, boot'.checksum = boot.checksum,
           boot'.smp_initialized = boot.smp_initialized, cal.stray => cal'.stray,
           \A d \in Cpu : /\ \/ cpus'[d].pc = cpus[d].pc
                             \/ cpus[d].pc \in Started /\ cpus'[d].pc \in Started
                          /\ cpus'[d].pc = "store" => cpus'[d].reg = cpus[d].reg
                          /\ cpus'[d].ctx = cpus[d].ctx /\ cpus'[d].idle = cpus[d].idle
                          /\ cpus'[d].measured = cpus[d].measured
    PROVE SInv'
<1>1. Done' = Done
    BY DEF Done, Started
<1>2. Exact' => Exact
    BY DEF Exact
<1>3. ASSUME NEW d \in Cpu PROVE Progress(d)'
    <2>1. /\ Progress(d) /\ (Ready(d)' <=> Ready(d))
          /\ \/ cpus'[d].pc = cpus[d].pc
             \/ cpus[d].pc \in Started /\ cpus'[d].pc \in Started
          /\ cpus'[d].ctx = cpus[d].ctx /\ cpus'[d].idle = cpus[d].idle
          /\ cpus'[d].measured = cpus[d].measured
        BY DEF SInv, Ready
    <2>2. CASE cpus'[d].pc = cpus[d].pc
        BY <1>1, <1>2, <2>1, <2>2 DEF Progress
    <2>3. CASE cpus[d].pc \in Started /\ cpus'[d].pc \in Started
        BY <1>1, <2>1, <2>3 DEF Progress, Started, Critical
    <2> QED
        BY <2>1, <2>2, <2>3
<1>4. ASSUME NEW d \in Cpu PROVE NotYet(d)'
    BY DEF SInv, NotYet, Started
<1>5. BspOnce'
    BY SmpAssumption DEF SInv, BspOnce, Cpu, Started
<1>6. Counted'
    BY <1>1 DEF SInv, Counted, Started
<1> QED
    BY <1>1, <1>3, <1>4, <1>5, <1>6 DEF SInv

(* A step keeps startup_checksum at most the number of processors done.    *)
LEMMA SInvStep == Types /\ SInv /\ KInv /\ [SmpNext]_smpvars => SInv'
<1> SUFFICES ASSUME Types, SInv, KInv, [SmpNext]_smpvars PROVE SInv'
    OBVIOUS
<1>0. Bsp \in Cpu /\ 0 \notin Cpu /\ PROBES \in Nat /\ PROBES >= 2 /\ cal.probe \in Nat
    BY SmpAssumption DEF Cpu, Types, CalRecord
<1>1. CASE StartCpu
    <2> DEFINE b == boot.i
    <2>1. /\ b \in Cpu /\ b \in Nat /\ boot'.i = b + 1 /\ boot'.checksum = boot.checksum
          /\ boot'.smp_initialized = boot.smp_initialized
        BY <1>1, SmpAssumption DEF StartCpu, Types, BootRecord, Cpu
    <2>a. cal' = cal
        BY <1>1 DEF StartCpu
    <2>2. Moves(b, cpus[b].pc, "entry", {"reg", "ctx", "idle", "measured"})
        BY <1>1, <2>1 DEF StartCpu, Types, CpuRecord, Moves
    <2>3. /\ cpus'[b].pc = "entry" /\ cpus'[b].measured = cpus[b].measured
          /\ \A d \in Cpu \ {b} : cpus'[d] = cpus[d]
        BY <2>2 DEF Moves
    <2>4. b \notin Done /\ b \notin Done'
        <3>1. CASE b = Bsp
            BY <1>1, <2>1, <2>3, <3>1, SmpAssumption DEF SInv, BspOnce, Done, Started, StartCpu, At
        <3>2. CASE b # Bsp
            BY <2>1, <2>3, <3>2 DEF SInv, NotYet, Done, Started, Cpu
        <3> QED
            BY <3>1, <3>2
    <2>5. Done' = Done
        BY <2>3, <2>4 DEF Done
    <2>6. ASSUME NEW d \in Cpu PROVE Progress(d)'
        <3>1. CASE d = b
            BY <2>3, <2>4, <3>1 DEF Progress, Critical, Started
        <3>2. CASE d # b
            BY <2>1, <2>a, <2>3, <2>5, <3>2 DEF SInv, Progress, Ready, Exact
        <3> QED
            BY <3>1, <3>2
    <2>7. ASSUME NEW d \in Cpu PROVE NotYet(d)'
        BY <2>1, <2>3 DEF SInv, NotYet, Cpu
    <2>8. BspOnce'
        BY <2>1, <2>3, SmpAssumption DEF SInv, BspOnce, Cpu
    <2>9. Counted'
        BY <2>1, <2>3, <2>5 DEF SInv, Counted
    <2> QED
        BY <2>1, <2>5, <2>6, <2>7, <2>8, <2>9 DEF SInv
<1>2. CASE AllStarted
    <2>1. /\ boot'.i = boot.i /\ boot'.checksum = boot.checksum
          /\ boot'.smp_initialized /\ cal' = cal
          /\ boot.i > NCpu /\ boot.checksum >= NCpu /\ boot.checksum \in Nat /\ boot.i \in Nat
        BY <1>2 DEF AllStarted, Types, BootRecord
    <2>2. /\ cpus'[Bsp].pc = "booted" /\ cpus[Bsp].pc = "loop"
          /\ cpus'[Bsp].ctx = cpus[Bsp].ctx /\ cpus'[Bsp].idle = cpus[Bsp].idle
          /\ cpus'[Bsp].measured = cpus[Bsp].measured
          /\ \A d \in Cpu \ {Bsp} : cpus'[d] = cpus[d]
        BY <1>0, <1>2 DEF AllStarted, At, Types, CpuRecord
    <2>3. Done = Cpu
        <3>1. Cardinality(Done) >= NCpu
            BY <2>1, DoneFinite, SmpAssumption DEF SInv, Counted
        <3>2. Cardinality(Done) <= Cardinality(Cpu) /\ (Cardinality(Done) = Cardinality(Cpu) => Done = Cpu)
            BY DoneFinite, FS_Subset
        <3> QED
            BY <3>1, <3>2, DoneFinite, SmpAssumption
    <2>4. Done' = Cpu
        BY <2>2, <2>3 DEF Done, Started
    <2>5. ASSUME NEW d \in Cpu PROVE Progress(d)'
        <3>1. CASE d = Bsp
            BY <2>1, <2>2, <2>3, <3>1 DEF SInv, Progress, Ready, Critical
        <3>2. CASE d # Bsp
            BY <2>1, <2>2, <2>3, <2>4, <3>2 DEF SInv, Progress, Ready, Exact
        <3> QED
            BY <3>1, <3>2
    <2>6. ASSUME NEW d \in Cpu PROVE NotYet(d)'
        BY <2>1, SmpAssumption DEF NotYet, Cpu
    <2>7. BspOnce'
        BY <2>1, SmpAssumption DEF BspOnce
    <2>8. Counted'
        BY <2>1, <2>2, <2>3, <2>4 DEF SInv, Counted
    <2> QED
        BY <2>4, <2>5, <2>6, <2>7, <2>8 DEF SInv
<1>3. CASE PitTick
    <2>1. cal.route \in Cpu
        BY <1>3 DEF PitTick, Types, CalRecord, Some
    <2>2. \A d \in Cpu : /\ cpus'[d].pc = cpus[d].pc /\ cpus'[d].reg = cpus[d].reg
                         /\ cpus'[d].ctx = cpus[d].ctx /\ cpus'[d].idle = cpus[d].idle
                         /\ cpus'[d].measured = cpus[d].measured
        BY <1>3, <2>1 DEF PitTick, Types, CpuRecord
    <2>3. cal.stray => cal'.stray
        BY <1>3 DEF PitTick, Types, CalRecord
    <2> QED
        BY <1>3, <2>2, <2>3, MovesNot DEF PitTick
<1>4. ASSUME NEW c \in Cpu, Probe(c) PROVE SInv'
    <2>1. \A d \in Cpu : /\ cpus'[d].pc = cpus[d].pc /\ cpus'[d].reg = cpus[d].reg
                         /\ cpus'[d].ctx = cpus[d].ctx /\ cpus'[d].idle = cpus[d].idle
                         /\ cpus'[d].measured = cpus[d].measured
        BY <1>4 DEF Probe, Types, CpuRecord
    <2>2. cal'.stray = cal.stray
        BY <1>4 DEF Probe, Types, CalRecord
    <2> QED
        BY <1>4, <2>1, <2>2, MovesNot DEF Probe
<1>5. ASSUME NEW c \in Cpu, SetCtx(c) PROVE SInv'
    <2>1. /\ cpus[c].pc = "entry" /\ cpus'[c].pc = "idle" /\ UNCHANGED boot
          /\ cal'.stray = cal.stray
          /\ cpus'[c].ctx
        BY <1>5, SetCtxEffect DEF Moves, KeepsCal
    <2>2. Progress(c)'
        BY <2>1 DEF SInv, Progress, Done, Started, Critical
    <2> QED
        BY <1>5, SetCtxEffect, <2>1, <2>2, MovesOn DEF Started
<1>6. ASSUME NEW c \in Cpu, IdleThread(c) PROVE SInv'
    <2>1. /\ cpus[c].pc = "idle" /\ cpus'[c].pc = "lock" /\ UNCHANGED boot
          /\ cal'.stray = cal.stray
          /\ cpus'[c].ctx = cpus[c].ctx /\ cpus'[c].idle
        BY <1>6, IdleThreadEffect DEF Moves, KeepsCal
    <2>2. Progress(c)'
        BY <2>1 DEF SInv, Progress, Done, Started, Critical
    <2> QED
        BY <1>6, IdleThreadEffect, <2>1, <2>2, MovesOn DEF Started
<1>7. ASSUME NEW c \in Cpu, Lock(c) PROVE SInv'
    <2>1. /\ cpus[c].pc = "lock" /\ cpus'[c].pc = "redirect" /\ UNCHANGED boot
          /\ cal'.stray = cal.stray
          /\ cpus'[c].ctx = cpus[c].ctx /\ cpus'[c].idle = cpus[c].idle
        BY <1>7, LockEffect DEF Moves, KeepsCal
    <2>2. Progress(c)'
        BY <2>1 DEF SInv, Progress, Done, Started, Critical
    <2> QED
        BY <1>7, LockEffect, <2>1, <2>2, MovesOn DEF Started
<1>8. ASSUME NEW c \in Cpu, RedirectLow(c) PROVE SInv'
    <2>1. /\ cpus[c].pc = "redirect" /\ cpus'[c].pc = "redirect high" /\ UNCHANGED boot
          /\ cal'.stray = cal.stray
          /\ cpus'[c].ctx = cpus[c].ctx /\ cpus'[c].idle = cpus[c].idle
        BY <1>8, RedirectLowEffect DEF Moves, KeepsCal
    <2>2. Progress(c)'
        BY <2>1 DEF SInv, Progress, Done, Started, Critical
    <2> QED
        BY <1>8, RedirectLowEffect, <2>1, <2>2, MovesOn DEF Started
<1>9. ASSUME NEW c \in Cpu, RedirectHigh(c) PROVE SInv'
    <2>1. /\ cpus[c].pc = "redirect high" /\ cpus'[c].pc = "register" /\ UNCHANGED boot
          /\ cal'.stray = cal.stray
          /\ cpus'[c].ctx = cpus[c].ctx /\ cpus'[c].idle = cpus[c].idle
        BY <1>9, RedirectHighEffect DEF Moves, KeepsCal
    <2>2. Progress(c)'
        BY <2>1 DEF SInv, Progress, Done, Started, Critical
    <2> QED
        BY <1>9, RedirectHighEffect, <2>1, <2>2, MovesOn DEF Started
<1>10. ASSUME NEW c \in Cpu, Register(c) PROVE SInv'
    <2>1. /\ cpus[c].pc = "register" /\ cpus'[c].pc = "wait" /\ UNCHANGED boot
          /\ cal'.stray = cal.stray
          /\ cpus'[c].ctx = cpus[c].ctx /\ cpus'[c].idle = cpus[c].idle
        BY <1>10, RegisterEffect DEF Moves, KeepsCal
    <2>2. Progress(c)'
        BY <2>1 DEF SInv, Progress, Done, Started, Critical
    <2> QED
        BY <1>10, RegisterEffect, <2>1, <2>2, MovesOn DEF Started
<1>11. ASSUME NEW c \in Cpu, RemoveIrq(c) PROVE SInv'
    <2>1. /\ cpus[c].pc = "wait" /\ cpus'[c].pc = "erase" /\ UNCHANGED boot
          /\ cal'.stray = cal.stray
          /\ cpus'[c].ctx = cpus[c].ctx /\ cpus'[c].idle = cpus[c].idle
        BY <1>11, RemoveIrqEffect DEF Moves, KeepsCal
    <2>2. Progress(c)'
        BY <2>1 DEF SInv, Progress, Done, Started, Critical
    <2> QED
        BY <1>11, RemoveIrqEffect, <2>1, <2>2, MovesOn DEF Started
<1>12. ASSUME NEW c \in Cpu, Erase(c) PROVE SInv'
    <2>1. /\ cpus[c].pc = "erase" /\ cpus'[c].pc = "unlock" /\ UNCHANGED boot
          /\ cal'.stray = cal.stray
          /\ cpus'[c].ctx = cpus[c].ctx /\ cpus'[c].idle = cpus[c].idle
        BY <1>12, EraseEffect DEF Moves, KeepsCal
    <2>2. Progress(c)'
        BY <2>1 DEF SInv, Progress, Done, Started, Critical
    <2> QED
        BY <1>12, EraseEffect, <2>1, <2>2, MovesOn DEF Started
<1>13. ASSUME NEW c \in Cpu, Unlock(c) PROVE SInv'
    <2>1. /\ cpus[c].pc = "unlock" /\ cpus'[c].pc = "load" /\ UNCHANGED boot
          /\ cal'.stray = cal.stray
          /\ cpus'[c].ctx = cpus[c].ctx /\ cpus'[c].idle = cpus[c].idle
          /\ cpus'[c].measured = <<cal.start, cal.end>>
        BY <1>13, UnlockEffect DEF Moves, KeepsCal
    <2>a. /\ cal.start # 0 /\ cal.start \in Some /\ cal.end \in Some
          /\ Exact' => cal.start = c /\ cal.end = c
        <3>1. Readout(c) /\ cal.probe >= PROBES
            BY <2>1 DEF KInv, Holding, Holder
        <3>2. cal.probe >= 1
            BY <1>0, <3>1
        <3> QED
            BY <2>1, <3>1, <3>2 DEF Readout, Exact, Types, CalRecord
    <2>b. cpus'[c].measured # <<0, 0>> /\ (Exact' => cpus'[c].measured = <<c, c>>)
        BY <2>1, <2>a
    <2>2. Progress(c)'
        BY <2>1, <2>b DEF SInv, Progress, Done, Started, Critical
    <2> QED
        BY <1>13, UnlockEffect, <2>1, <2>2, MovesOn DEF Started
<1>14. ASSUME NEW c \in Cpu, Load(c) PROVE SInv'
    <2>1. /\ cpus[c].pc = "load" /\ cpus'[c].pc = "store" /\ UNCHANGED boot
          /\ cal'.stray = cal.stray
          /\ cpus'[c].ctx = cpus[c].ctx /\ cpus'[c].idle = cpus[c].idle
          /\ cpus'[c].measured = cpus[c].measured
          /\ cpus'[c].reg = boot.checksum
        BY <1>14, LoadEffect DEF Moves, KeepsCal
    <2>2. Progress(c)'
        BY <2>1 DEF SInv, Progress, Done, Started, Critical, Exact
    <2>3. cpus'[c].reg <= Cardinality(Done)
        BY <2>1 DEF SInv, Counted
    <2> QED
        BY <1>14, LoadEffect, <2>1, <2>2, <2>3, MovesOn DEF Started
<1>15. ASSUME NEW c \in Cpu, Store(c) PROVE SInv'
    <2>1. /\ cpus[c].pc = "store" /\ cpus'[c].pc = IF c = Bsp THEN "loop" ELSE "booted"
          /\ cpus'[c].ctx = cpus[c].ctx /\ cpus'[c].idle = cpus[c].idle
          /\ cpus'[c].measured = cpus[c].measured
          /\ \A d \in Cpu \ {c} : cpus'[d] = cpus[d]
        BY <1>15, StoreEffect DEF Moves
    <2>2. /\ boot'.checksum = cpus[c].reg + 1 /\ boot'.i = boot.i
          /\ boot'.smp_initialized = boot.smp_initialized /\ cal' = cal
        BY <1>15, StoreEffect
    <2>3. Ready(c) /\ cpus[c].measured # <<0, 0>>
        BY <1>0, <2>1 DEF SInv, Progress, Ready
    <2>4. c \notin Done /\ Done' = Done \cup {c}
        BY <2>1, <2>3 DEF Done, Started
    <2>5. Cardinality(Done') = Cardinality(Done) + 1
        BY <2>4, DoneFinite, FS_AddElement
    <2>6. ASSUME NEW d \in Cpu PROVE Progress(d)'
        <3>1. CASE d = c
            BY <2>1, <2>3, <3>1 DEF Progress, Ready, Critical, Started
        <3>2. CASE d # c
            BY <2>1, <2>2, <2>4, <3>2 DEF SInv, Progress, Ready, Exact
        <3> QED
            BY <3>1, <3>2
    <2>7. ASSUME NEW d \in Cpu PROVE NotYet(d)'
        BY <2>1, <2>2 DEF SInv, NotYet
    <2>8. BspOnce'
        BY <1>0, <2>1, <2>2 DEF SInv, BspOnce
    <2>9. Counted'
        <3>1. cpus[c].reg \in Nat /\ \A d \in Cpu : cpus[d].reg \in Nat
            BY DEF Types, CpuRecord
        <3>2. cpus[c].reg <= Cardinality(Done)
            BY <2>1 DEF SInv, Counted
        <3>3. boot'.checksum <= Cardinality(Done')
            BY <2>2, <2>5, <3>1, <3>2, DoneFinite
        <3>4. ASSUME NEW d \in Cpu, cpus'[d].pc = "store" PROVE cpus'[d].reg <= Cardinality(Done')
            <4>1. d # c /\ cpus'[d] = cpus[d]
                BY <2>1, <3>4
            <4>2. cpus[d].reg <= Cardinality(Done)
                BY <3>4, <4>1 DEF SInv, Counted
            <4> QED
                BY <2>5, <3>1, <4>1, <4>2, DoneFinite
        <3> QED
            BY <3>3, <3>4 DEF Counted
    <2>10. boot'.smp_initialized => Done' = Cpu
        BY <2>2, <2>4 DEF SInv
    <2> QED
        BY <2>6, <2>7, <2>8, <2>9, <2>10 DEF SInv
<1>16. ASSUME NEW c \in Cpu, EnableInterrupts(c) PROVE SInv'
    <2>1. /\ cpus[c].pc \in Started /\ cpus'[c].pc \in Started \ {"store"}
          /\ cpus'[c].ctx = cpus[c].ctx /\ cpus'[c].idle = cpus[c].idle
          /\ cpus'[c].measured = cpus[c].measured /\ cal'.stray = cal.stray
          /\ \A d \in Cpu \ {c} : cpus'[d] = cpus[d]
        BY <1>16, EnableInterruptsEffect DEF Moves, KeepsCal, Started
    <2> QED
        BY <1>16, <2>1, EnableInterruptsEffect, MovesNot
<1>17. ASSUME NEW c \in Cpu, Unhandled(c) PROVE SInv'
    <2>1. /\ cpus[c].pc \in Started /\ cpus'[c].pc \in Started \ {"store"}
          /\ cpus'[c].ctx = cpus[c].ctx /\ cpus'[c].idle = cpus[c].idle
          /\ cpus'[c].measured = cpus[c].measured /\ cal'.stray = cal.stray
          /\ \A d \in Cpu \ {c} : cpus'[d] = cpus[d]
        BY <1>17, UnhandledEffect DEF Moves, KeepsCal, Started, KInv, Holding, Holder, Critical
    <2> QED
        BY <1>17, <2>1, UnhandledEffect, MovesNot
<1>18. ASSUME NEW c \in Cpu, Ipi(c) PROVE SInv'
    <2>1. /\ cpus[c].pc \in Started /\ cpus'[c].pc \in Started \ {"store"}
          /\ cpus'[c].ctx = cpus[c].ctx /\ cpus'[c].idle = cpus[c].idle
          /\ cpus'[c].measured = cpus[c].measured /\ cal'.stray = cal.stray
          /\ \A d \in Cpu \ {c} : cpus'[d] = cpus[d]
        BY <1>18, IpiEffect DEF Moves, KeepsCal, Started
    <2> QED
        BY <1>18, <2>1, IpiEffect, MovesNot
<1>19. CASE Spin \/ UNCHANGED smpvars
    BY <1>19, MovesNot DEF Spin, smpvars
<1> QED
    BY <1>1, <1>2, <1>3, <1>4, <1>5, <1>6, <1>7, <1>8, <1>9, <1>10, <1>11, <1>12, <1>13,
       <1>14, <1>15, <1>16, <1>17, <1>18, <1>19 DEF SmpNext

(* IInv is an inductive invariant of the start-up.                         *)
THEOREM SmpInvariant == SmpSpec => []IInv
<1>0. Bsp \in Cpu /\ 0 \notin Cpu /\ Bsp \in Nat /\ Bsp >= 1
    BY SmpAssumption DEF Cpu
<1>1. SmpInit => IInv
    <2> SUFFICES ASSUME SmpInit PROVE IInv
        OBVIOUS
    <2>1. Types
        <3>1. <<0, 0>> \in Readings /\ 0 \in Some
            BY DEF Readings, Some
        <3> QED
            BY <3>1 DEF SmpInit, Types, CpuRecord, CalRecord, BootRecord, PC
    <2>2. \A c \in Cpu : /\ cpus[c].pc = (IF c = Bsp THEN "loop" ELSE "off")
                         /\ ~ cpus[c].iflag /\ ~ cpus[c].irr /\ cpus[c].measured = <<0, 0>>
        BY DEF SmpInit
    <2>3. Done = {}
        BY <2>2 DEF Done, Started
    <2>4. SInv
        <3>1. boot.checksum = 0 /\ ~ boot.smp_initialized
            BY DEF SmpInit
        <3>2. ASSUME NEW c \in Cpu PROVE Progress(c) /\ NotYet(c)
            BY <2>2, <2>3 DEF Progress, NotYet, Critical, Started
        <3>3. BspOnce
            BY <1>0, <2>2 DEF BspOnce
        <3>4. Counted
            BY <2>2, <2>3, <3>1, FS_EmptySet DEF Counted
        <3> QED
            BY <3>1, <3>2, <3>3, <3>4 DEF SInv
    <2>5. KInv
        BY <1>0, <2>2 DEF SmpInit, KInv, Holding, Holder, Critical
    <2> QED
        BY <2>1, <2>4, <2>5 DEF IInv
<1>2. IInv /\ [SmpNext]_smpvars => IInv'
    BY TypesStep, SInvStep, KInvStep DEF IInv
<1> QED
    BY <1>1, <1>2, PTL DEF SmpSpec

(* Whatever increments of startup_checksum are lost when processors make   *)
(* them together, boot_other_cores goes on only when every processor has   *)
(* the kernel's page map, an idle thread and a frequency.                  *)
THEOREM AllReadyHolds == SmpSpec => []AllReady
<1>1. IInv => AllReady
    BY DEF IInv, SInv, Progress, Ready, AllReady
<1> QED
    BY <1>1, SmpInvariant, PTL

(* somelock keeps the calibrations apart.  Unless a tick falls between the *)
(* two halves of the I/O APIC's entry, each processor measures its own     *)
(* timer and none panics on a PIT interrupt without a handler; and when    *)
(* local APIC 0 is the bsp's, the first holds whatever the PIT does.       *)
THEOREM CalibrationExactHolds == SmpSpec => []CalibrationExact
<1>1. IInv => CalibrationExact
    BY DEF IInv, SInv, KInv, Progress, Exact, OwnTimer, CalibrationExact
<1> QED
    BY <1>1, SmpInvariant, PTL
=============================================================================
