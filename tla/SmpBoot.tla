------------------------------ MODULE SmpBoot ------------------------------
(***************************************************************************)
(* Starting the processors (src/arch/x86-64/smp.c): boot_other_cores on    *)
(* the bsp, processor_core_entry on every processor, and the calibration   *)
(* of the local APIC's timer (src/arch/x86-64/cpu/apic.c) against the PIT, *)
(* whose interrupt is routed to the calibrating processor and its vector   *)
(* (src/arch/x86-64/interrupt.c).                                          *)
(*                                                                         *)
(* A processor takes a pending interrupt before its next step when its     *)
(* interrupts are enabled.  pc = "loop" is the bsp in boot_other_cores,    *)
(* "booted" a processor that has left start-up with its interrupts off,    *)
(* "running" one that has enabled them, "panic" one that kpanic halted.    *)
(***************************************************************************)
EXTENDS Naturals

CONSTANTS
    NCpu,       \* smp_cpu_count; processors are numbered as in smp_response
    Bsp,        \* the processor with bsp_lapic_id
    Lapic0,     \* the processor whose local APIC has id 0; 0: there is none
    PROBES      \* LAPIC_TIMER_CALIBRATION_PROBES

ASSUME SmpAssumption ==
    NCpu \in Nat /\ Bsp \in 1 .. NCpu /\ Lapic0 \in 0 .. NCpu /\ PROBES \in Nat \ {0, 1}

Cpu == 1 .. NCpu

VARIABLES
    cpus,       \* each processor: pc, interrupts enabled, PIT interrupt pending, a
                \* register, and its entry of global_cpus: kernel_pmc loaded, idle
                \* thread, whose timer its frequency was measured on
    somelock,   \* who holds it, 0: nobody
    cal,        \* calibration: whom the I/O APIC sends the PIT interrupt to (0:
                \* nobody), handlers[INT_VEC_GENERAL_PURPOSE], calibration_probe_count,
                \* whose timer _start and _end were read from; and, as history,
                \* whether default_interrupt_handler has run and whether a tick
                \* went to a processor that does not hold somelock
    boot        \* boot_other_cores: loop index, startup_checksum, smp_initialized;
                \* and whether kpanic has sent INT_VEC_LAPIC_IPI to the others
smpvars == <<cpus, somelock, cal, boot>>

SmpInit ==
    /\ cpus = [c \in Cpu |-> [pc |-> IF c = Bsp THEN "loop" ELSE "off", iflag |-> FALSE,
                              irr |-> FALSE, reg |-> 0, ctx |-> FALSE, idle |-> FALSE,
                              measured |-> <<0, 0>>]]
    /\ somelock = 0
    /\ cal = [route |-> 0, vec |-> "default", probe |-> 0, start |-> 0, end |-> 0,
              unhandled |-> FALSE, stray |-> FALSE]
    /\ boot = [i |-> 1, checksum |-> 0, smp_initialized |-> FALSE, ipi |-> FALSE]

At(c, p) == cpus[c].pc = p /\ ~ (cpus[c].irr /\ cpus[c].iflag)

-----------------------------------------------------------------------------
(* boot_other_cores *)

\* A round of the loop: another processor is told where to go, the bsp goes
\* there itself.
StartCpu ==
    /\ At(Bsp, "loop") /\ boot.i <= NCpu
    /\ cpus' = [cpus EXCEPT ![boot.i].pc = "entry"]
    /\ boot' = [boot EXCEPT !.i = @ + 1]
    /\ UNCHANGED <<somelock, cal>>

\* The wait for startup_checksum: over, or for ever once no processor is left
\* to count.
AllStarted ==
    /\ At(Bsp, "loop") /\ boot.i > NCpu /\ boot.checksum >= NCpu
    /\ boot' = [boot EXCEPT !.smp_initialized = TRUE]
    /\ cpus' = [cpus EXCEPT ![Bsp].pc = "booted"]
    /\ UNCHANGED <<somelock, cal>>
Spin ==
    /\ At(Bsp, "loop") /\ boot.i > NCpu /\ boot.checksum < NCpu
    /\ UNCHANGED smpvars

-----------------------------------------------------------------------------
(* processor_core_entry *)

\* mmu_set_ctx, then scheduler_new_idle_thread.
SetCtx(c) ==
    /\ At(c, "entry")
    /\ cpus' = [cpus EXCEPT ![c].pc = "idle", ![c].ctx = TRUE]
    /\ UNCHANGED <<somelock, cal, boot>>
IdleThread(c) ==
    /\ At(c, "idle")
    /\ cpus' = [cpus EXCEPT ![c].pc = "lock", ![c].idle = TRUE]
    /\ UNCHANGED <<somelock, cal, boot>>

\* init_lapic and calibrate_lapic_timer until the interrupt is routed.
Reset(K) == [K EXCEPT !.probe = 0]

\* Mutant: somelock is not waited for.
Lock_NoWait(c) ==
    /\ At(c, "lock")
    /\ somelock' = c /\ cal' = Reset(cal)
    /\ cpus' = [cpus EXCEPT ![c].pc = "redirect"]
    /\ UNCHANGED boot

\* spin_lock_global of somelock; init_lapic up to calibration_probe_count = 0.
Lock(c) ==
    /\ At(c, "lock") /\ somelock = 0
    /\ somelock' = c /\ cal' = Reset(cal)
    /\ cpus' = [cpus EXCEPT ![c].pc = "redirect"]
    /\ UNCHANGED boot

\* calibrate_lapic_timer: route the interrupt, then register its handler, then
\* enable interrupts and wait.  ioapic_set_irq writes the low half of the
\* entry, with the vector, before the high half, with the processor: in
\* between the interrupt goes to local APIC 0.
RedirectLow(c) ==
    /\ At(c, "redirect")
    /\ cal' = [cal EXCEPT !.route = Lapic0]
    /\ cpus' = [cpus EXCEPT ![c].pc = "redirect high"]
    /\ UNCHANGED <<somelock, boot>>
RedirectHigh(c) ==
    /\ At(c, "redirect high")
    /\ cal' = [cal EXCEPT !.route = c]
    /\ cpus' = [cpus EXCEPT ![c].pc = "register"]
    /\ UNCHANGED <<somelock, boot>>
Register(c) ==
    /\ At(c, "register")
    /\ cal' = [cal EXCEPT !.vec = "calibrate"]
    /\ cpus' = [cpus EXCEPT ![c].pc = "wait", ![c].iflag = TRUE]
    /\ UNCHANGED <<somelock, boot>>

\* The wait is over: ioapic_remove_irq, then interrupts_erase_vector.
RemoveIrq(c) ==
    /\ At(c, "wait") /\ cal.probe >= PROBES
    /\ cal' = [cal EXCEPT !.route = 0]
    /\ cpus' = [cpus EXCEPT ![c].pc = "erase"]
    /\ UNCHANGED <<somelock, boot>>
Erase(c) ==
    /\ At(c, "erase") /\ cal.vec # "default"
    /\ cal' = [cal EXCEPT !.vec = "default"]
    /\ cpus' = [cpus EXCEPT ![c].pc = "unlock"]
    /\ UNCHANGED <<somelock, boot>>

\* Interrupts off, the frequency from the two readings, and the unlock, which
\* restores interrupts to off.
Unlock(c) ==
    /\ At(c, "unlock")
    /\ somelock' = 0
    /\ cpus' = [cpus EXCEPT ![c].pc = "load", ![c].iflag = FALSE,
                            ![c].measured = <<cal.start, cal.end>>]
    /\ UNCHANGED <<cal, boot>>

\* startup_checksum++ is a load and a store; then the bsp returns to
\* boot_other_cores and the others switch to their idle threads.
Load(c) ==
    /\ At(c, "load")
    /\ cpus' = [cpus EXCEPT ![c].pc = "store", ![c].reg = boot.checksum]
    /\ UNCHANGED <<somelock, cal, boot>>

\* Mutant: the count is the number of the processor.
Store_Id(c) ==
    /\ At(c, "store")
    /\ boot' = [boot EXCEPT !.checksum = c]
    /\ cpus' = [cpus EXCEPT ![c].pc = IF c = Bsp THEN "loop" ELSE "booted", ![c].reg = 0]
    /\ UNCHANGED <<somelock, cal>>

Store(c) ==
    /\ At(c, "store")
    /\ boot' = [boot EXCEPT !.checksum = cpus[c].reg + 1]
    /\ cpus' = [cpus EXCEPT ![c].pc = IF c = Bsp THEN "loop" ELSE "booted", ![c].reg = 0]
    /\ UNCHANGED <<somelock, cal>>

-----------------------------------------------------------------------------
\* Interrupts are enabled: kernel_idle, and on the bsp the first thread,
\* kernel_reaper or kernel_main.
EnableInterrupts(c) ==
    /\ At(c, "booted")
    /\ cpus' = [cpus EXCEPT ![c].pc = "running", ![c].iflag = TRUE]
    /\ UNCHANGED <<somelock, cal, boot>>

\* The PIT ticks: the I/O APIC passes the interrupt on.
PitTick ==
    /\ cal.route # 0 /\ ~ cpus[cal.route].irr
    /\ cpus' = [cpus EXCEPT ![cal.route].irr = TRUE]
    /\ cal' = [cal EXCEPT !.stray = @ \/ cal.route # somelock]
    /\ UNCHANGED <<somelock, boot>>

\* calibrate_lapic_timer_pit_callback.  The count is only told apart up to
\* PROBES + 1.
Probe(c) ==
    LET n == IF cal.probe > PROBES THEN cal.probe ELSE cal.probe + 1 IN
    /\ cpus[c].irr /\ cpus[c].iflag /\ cal.vec = "calibrate"
    /\ cpus' = [cpus EXCEPT ![c].irr = FALSE]
    /\ cal' = [cal EXCEPT !.probe = n, !.start = IF n = 1 THEN c ELSE @,
                          !.end = IF n = PROBES THEN c ELSE @]
    /\ UNCHANGED <<somelock, boot>>

\* default_interrupt_handler: kpanic halts this processor and, once
\* smp_initialized is set, sends the others an interrupt that halts them.
Unhandled(c) ==
    /\ cpus[c].irr /\ cpus[c].iflag /\ cal.vec = "default"
    /\ cpus' = [cpus EXCEPT ![c].pc = "panic", ![c].iflag = FALSE, ![c].irr = FALSE]
    /\ cal' = [cal EXCEPT !.unhandled = TRUE]
    /\ boot' = [boot EXCEPT !.ipi = @ \/ boot.smp_initialized]
    /\ UNCHANGED somelock

\* ipi_handler
Ipi(c) ==
    /\ boot.ipi /\ cpus[c].pc = "running"
    /\ cpus' = [cpus EXCEPT ![c].pc = "panic", ![c].iflag = FALSE]
    /\ UNCHANGED <<somelock, cal, boot>>

SmpNext ==
    \/ StartCpu \/ AllStarted \/ Spin \/ PitTick
    \/ \E c \in Cpu :
        \/ SetCtx(c) \/ IdleThread(c) \/ Lock(c) \/ RedirectLow(c) \/ RedirectHigh(c)
        \/ Register(c) \/ RemoveIrq(c)
        \/ Erase(c) \/ Unlock(c) \/ Load(c) \/ Store(c) \/ EnableInterrupts(c)
        \/ Probe(c) \/ Unhandled(c) \/ Ipi(c)

-----------------------------------------------------------------------------
\* Once the bsp goes on (smp_initialized), every processor has loaded the kernel's
\* page map, has an idle thread and a frequency: startup_checksum may lose
\* counts when processors increment it together, but never has one too many.
AllReady ==
    boot.smp_initialized =>
        \A c \in Cpu : cpus[c].ctx /\ cpus[c].idle /\ cpus[c].measured # <<0, 0>>

\* Every frequency comes from two readings of the processor's own timer.
OwnTimer ==
    \A c \in Cpu : cpus[c].pc \in {"load", "store"} => cpus[c].measured = <<c, c>>

\* A processor's frequency comes from two readings of its own timer, and no
\* processor panics on a PIT interrupt whose vector has no handler: somelock
\* keeps the calibrations apart, the interrupt is routed before but enabled after
\* its handler is registered, and removed before the handler is erased.  The
\* exception is a tick between the two halves of the I/O APIC's entry, which
\* goes to local APIC 0: it stays pending there, after the processor's own
\* calibration until its interrupts are enabled for good.  Even then, when local
\* APIC 0 is the bsp's, as the bsp enables them last, no frequency is mixed up.
CalibrationExact ==
    /\ ~ cal.stray => OwnTimer /\ ~ cal.unhandled
    /\ Lapic0 = Bsp => OwnTimer
=============================================================================
