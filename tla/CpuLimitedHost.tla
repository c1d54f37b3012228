--------------------------- MODULE CpuLimitedHost ---------------------------
(* A host with a control group of its own (class CPULimitedHost, node.py): the
   share of the processors that setCPUFrac() asks for, the processors of
   setCPUs(), the processes that popen() puts there, and the removal of the
   group with its retries.

   A fraction is a pair <<num, den>>; the unlimited one is <<-1, 1>>.        *)
EXTENDS Integers, FiniteSets

CONSTANTS
    NumCores,    \* numCores()
    PeriodUs,    \* period_us
    Fractions,   \* what setCPUFrac() is asked for
    MaxRetries   \* retries of cleanup()

(* The limits of the kernel: a quota of a millisecond at least, periods from one
   to a thousand milliseconds. *)
MinQuota == 1000
MaxPeriod == 1000000
Periods == MinQuota..MaxPeriod

ASSUME CpuAssumption ==
    /\ NumCores \in Nat \ {0} /\ PeriodUs \in Periods
    /\ Fractions \subseteq Int \X (Nat \ {0})
    /\ MaxRetries \in Nat

VARIABLES
    sched,      \* the scheduler the host was made with
    cgroup,     \* the group in the kernel
    share,      \* history: the fraction asked for last, if the call went through
    children,   \* history: how the processes of popen() started
    fate        \* "runs", "terminated", or "gave up" when cleanup() ended the program

cpuVars == <<sched, cgroup, share, children, fate>>

NoGroup == [exists |-> FALSE]
NoShare == <<0, 1>>
Unlimited == -1

(* 95 percent of the time are for real-time. *)
AcceptsCfsPeriod(period) == period \in Periods
AcceptsCfsQuota(quota) == quota = Unlimited \/ quota >= MinQuota
AcceptsRt(runtime, period) == 100 * runtime <= 95 * period

NewGroup == [exists |-> TRUE, period |-> 100000, quota |-> Unlimited,
             rtPeriod |-> 1000000, runtime |-> 0, cpus |-> {}, placed |-> FALSE]

CpuInit ==
    /\ sched \in {"cfs", "rt"}
    /\ cgroup = NewGroup
    /\ share = NoShare /\ children = {} /\ fate = "runs"

-----------------------------------------------------------------------------
(* setCPUFrac() *)

Floor(num, den) == num \div den
Negative(f) == f[1] < 0

CfsInfoSamePeriod(f) ==    \* mutant: the period is not scaled with the quota
    LET quota == Floor(PeriodUs * f[1] * NumCores, f[2])
    IN  [period |-> PeriodUs, quota |-> IF quota < MinQuota THEN MinQuota ELSE quota]
CfsInfo(f) ==
    LET quota == Floor(PeriodUs * f[1] * NumCores, f[2])
    IN  IF Negative(f) THEN [period |-> PeriodUs, quota |-> Unlimited]
        ELSE IF f[1] > 0 /\ quota < MinQuota
             THEN [period |-> Floor(MinQuota * f[2], f[1] * NumCores), quota |-> MinQuota]
             ELSE [period |-> PeriodUs, quota |-> quota]
RtInfo(f) == [period |-> PeriodUs, quota |-> Floor(PeriodUs * f[1], f[2])]

(* cgroupSet(): what the kernel refuses is reported and left as it is. *)
CfsSet(g, info) ==
    LET period == IF AcceptsCfsPeriod(info.period) THEN info.period ELSE g.period
    IN  [g EXCEPT !.period = period,
                  !.quota = IF AcceptsCfsQuota(info.quota) THEN info.quota ELSE @]
RtSet(g, info) ==
    LET period == IF AcceptsRt(g.runtime, info.period) THEN info.period ELSE g.rtPeriod
    IN  [g EXCEPT !.rtPeriod = period,
                  !.runtime = IF AcceptsRt(info.quota, period) THEN info.quota ELSE @]

(* A scheduler that is neither is left alone; real-time takes positive fractions
   only.  Of another host than one made for real-time the group is changed, and
   then chrt() misses the priority: ok tells that nothing was raised. *)
WithFraction(g, f, s) ==
    CASE s = "rt" /\ f[1] <= 0 -> [g |-> g, share |-> share, ok |-> FALSE]
      [] s = "rt" /\ f[1] > 0 -> [g |-> RtSet(g, RtInfo(f)), share |-> share, ok |-> sched = "rt"]
      [] s = "cfs" -> [g |-> CfsSet(g, CfsInfo(f)), share |-> f, ok |-> TRUE]
      [] OTHER -> [g |-> g, share |-> share, ok |-> TRUE]
(* The group gets its processors before the shell is put there: what is read back
   of several is no number, which raises in between. *)
Placed(g, cores) ==
    IF cores = {} THEN g
    ELSE [g EXCEPT !.cpus = cores, !.placed = @ \/ Cardinality(cores) = 1]

SetCPUFrac(f, s) ==
    LET r == WithFraction(cgroup, f, s)
    IN  /\ fate = "runs"
        /\ cgroup' = r.g /\ share' = r.share
        /\ UNCHANGED <<sched, children, fate>>

SetCPUs(cores) ==
    /\ fate = "runs"
    /\ cgroup' = Placed(cgroup, cores)
    /\ UNCHANGED <<sched, share, children, fate>>

(* config(): without a fraction it asks for the unlimited one, which a real-time
   host does not have. *)
ConfigCpu(f, cores) ==
    LET r == WithFraction(cgroup, f, sched)
    IN  /\ fate = "runs"
        /\ cgroup' = IF r.ok THEN Placed(r.g, cores) ELSE r.g
        /\ share' = r.share
        /\ UNCHANGED <<sched, children, fate>>

-----------------------------------------------------------------------------
(* Processes and the end *)

(* popen(): a group without time gets the option -r, which the kernel refuses,
   a group with time goes without. *)
Started(g) ==
    IF sched = "cfs" THEN "cfs" ELSE IF g.runtime <= 0 THEN "refused" ELSE "cfs"
Popen ==
    /\ fate = "runs"
    /\ children' = children \cup {Started(cgroup)}
    /\ UNCHANGED <<sched, cgroup, share, fate>>

(* retry(): the try numbered n from 0 was the first to succeed, or none was. *)
GivesUp(n) == n >= MaxRetries

(* cleanup(): the group may be busy for a while, or for good; one more failure
   than there are retries, or as many, ends the program. *)
Cleanup ==
    /\ fate = "runs"
    /\ \E n \in 0..(MaxRetries + 1) :
          /\ cgroup' = IF n > MaxRetries THEN cgroup ELSE NoGroup
          /\ fate' = IF GivesUp(n) THEN "gave up" ELSE "terminated"
    /\ UNCHANGED <<sched, share, children>>

CpuNext ==
    \/ \E f \in Fractions, s \in {"cfs", "rt", "host"} : SetCPUFrac(f, s)
    \/ \E cores \in SUBSET (0..(NumCores - 1)) : SetCPUs(cores)
    \/ \E f \in Fractions, cores \in SUBSET (0..(NumCores - 1)) : ConfigCpu(f, cores)
    \/ Popen
    \/ Cleanup

-----------------------------------------------------------------------------
(* Properties *)

(* Fractions that periods of the kernel can hold. *)
Feasible(f) == f[1] > 0 /\ MinQuota * f[2] <= MaxPeriod * f[1] * NumCores

(* Of the time of all processors the host gets the fraction asked for last, to a
   microsecond of quota or period, whatever was asked for before; a host that was
   terminated has no group left (cfsInfo(), setCPUFrac(), cgroupSet(), cgroupDel()). *)
ShareAsAsked ==
    /\ fate = "terminated" => ~cgroup.exists
    /\ cgroup.exists =>
        /\ Negative(share) => cgroup.quota = Unlimited
        /\ Feasible(share) =>
             LET want == cgroup.period * share[1] * NumCores
                 have == cgroup.quota * share[2]
             IN  /\ cgroup.quota # Unlimited
                 /\ have <= want + share[1] * NumCores
                 /\ want < have + share[2] + share[1] * NumCores

=============================================================================
