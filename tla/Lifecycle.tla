----------------------------- MODULE Lifecycle ------------------------------
(***************************************************************************)
(* The router as the init process, from power-on to power-off: mounts,     *)
(* kernel modules, interfaces and firewall in order, then the tasks that   *)
(* handle signals, the power button and orphans, the panic hook, and the   *)
(* ways in which the process ends.  The services are other modules; one    *)
(* of them is here for its panic.                                          *)
(*                                                                         *)
(* Sources: src/src/main.rs, system.rs, signal.rs, reaper.rs, network.rs,  *)
(* netfilter.rs.                                                           *)
(***************************************************************************)
EXTENDS Kmod

CONSTANTS
    NetDriver,       \* the module without which there is no interface but lo
    FirewallModules, \* what the kernel needs to take the rules
    Buttons,         \* the input devices that there are
    Workers,         \* threads that run tasks
    MaxOrphans       \* orphans that die before any of them is reaped

ASSUME LifecycleAssumption ==
    /\ NetDriver \in Modules /\ FirewallModules \subseteq Modules
    /\ Workers \in Nat \ {0} /\ MaxOrphans \in Nat

\* The list of load_required_modules is complete.
ASSUME RequiredAssumption ==
    \A m \in FirewallModules \cup {NetDriver} :
        \E i \in 1 .. Len(Required) : m \in Needs[Required[i]] \cup {Required[i]}

VARIABLES
    machine,    \* whether the machine runs, and why not
    stage,      \* how far main is
    autoload,   \* whether the kernel knows what to run as modprobe
    up,         \* what has been set up
    asked_for,  \* the aliases that the kernel has asked a helper for
    shutdown_flag,
    monitor,    \* the task that waits for a signal
    listening,  \* the devices watched for the power button; None before
    clock,      \* the SNTP task, by whether it is stuck in the panic hook
    reaper,     \* the task that reaps orphans
    stream,     \* whether it has a stream of SIGCHLD
    sigchld,    \* whether a SIGCHLD is pending in that stream
    zombies,    \* dead orphans not yet waited for
    backlog,    \* history: orphans died before the stream and none was reaped since
    hopeless    \* history: RB_AUTOBOOT was refused in this boot

startup == <<stage, autoload, up, asked_for>>
reaping == <<reaper, stream, sigchld, zombies, backlog>>
tasks == <<shutdown_flag, monitor, listening, clock>>
lifeVars == <<machine, startup, tasks, reaping, hopeless>>
vars == <<kmodVars, lifeVars>>

Facilities == {"forwarding", "lo", "lan", "address", "wan", "firewall"}

LifecycleTypeOK ==
    /\ KmodTypeOK
    /\ machine \in {"up", "off", "restarting", "crashed"}
    /\ stage \in {"mount", "modules", "forwarding", "lo", "lan", "wan", "firewall",
                  "fatal", "running", "returned"}
    /\ autoload \in BOOLEAN /\ shutdown_flag \in BOOLEAN /\ hopeless \in BOOLEAN
    /\ up \subseteq Facilities
    /\ asked_for \subseteq Aliases
    /\ monitor \in {"new", "waiting", "grace", "fallback", "done", "stuck"}
    /\ listening = None \/ listening \subseteq Buttons
    /\ clock \in {"running", "stuck"}
    /\ reaper \in {"new", "asleep", "reaping", "stopped"}
    /\ stream \in BOOLEAN /\ sigchld \in BOOLEAN /\ backlog \in BOOLEAN
    /\ zombies \in 0 .. MaxOrphans

\* The memory of a machine that has been started.
LifeBoot ==
    /\ stage = "mount"
    /\ autoload = FALSE /\ up = {} /\ asked_for = {}
    /\ shutdown_flag = FALSE
    /\ monitor = "new" /\ listening = None /\ clock = "running"
    /\ reaper = "new" /\ stream = FALSE /\ sigchld = FALSE
    /\ zombies = 0 /\ backlog = FALSE

LifeReboot ==
    /\ stage' = "mount"
    /\ autoload' = FALSE /\ up' = {} /\ asked_for' = {}
    /\ shutdown_flag' = FALSE
    /\ monitor' = "new" /\ listening' = None /\ clock' = "running"
    /\ reaper' = "new" /\ stream' = FALSE /\ sigchld' = FALSE
    /\ zombies' = 0 /\ backlog' = FALSE

\* modules.dep is as depmod left it, or it is missing.
Init ==
    /\ \/ dep_lines \in [Modules -> UNION {DepLines(m) : m \in Modules}]
             /\ \A m \in Modules : dep_lines[m] \in DepLines(m)
       \/ dep_lines = [m \in Modules |-> None]
    /\ machine = "up" /\ KmodBoot /\ LifeBoot
    /\ hopeless = FALSE

\* The machine stops, and what is in its memory is gone.
Stops(state) ==
    /\ machine' = state
    /\ KmodReboot /\ LifeReboot
    /\ UNCHANGED <<dep_lines, hopeless>>

\* The hypervisor starts it again, with the same disk.
PowerOn ==
    /\ machine # "up"
    /\ machine' = "up" /\ hopeless' = FALSE
    /\ UNCHANGED <<kmodVars, startup, tasks, reaping>>

\* reboot(2) either does not return or is refused.
Refused == Fails /\ UNCHANGED machine
AutobootRefused == Refused /\ hopeless' = TRUE
-----------------------------------------------------------------------------
(***************************************************************************)
(* Start-up, in the order of run_as_init                                   *)
(***************************************************************************)
At(s) == machine = "up" /\ stage = s
Goes(s) == stage' = s
Sets(s) == up' = up \cup s

\* What no step of start-up touches, but for the loading of modules.
NoTask == UNCHANGED <<machine, tasks, reaping, hopeless>>
NoLoading == UNCHANGED <<dep_lines, kernel, processes, failed, refused>>

\* mount_virtual_filesystems; without the path of modprobe start-up goes on.
Mount ==
    /\ At("mount")
    /\ \/ /\ Goes("modules")
          /\ asked' = [asked EXCEPT ![Main] = Required]
          /\ \/ autoload' = TRUE /\ Succeeds
             \/ Fails /\ UNCHANGED autoload
       \/ Goes("fatal") /\ Fails /\ UNCHANGED <<asked, autoload>>
    /\ UNCHANGED <<up, asked_for, dep_lines, kernel, loaded, plan, failed, refused>>
    /\ NoTask

LoadRequired ==
    /\ At("modules")
    /\ LoaderStep(Main)
    /\ UNCHANGED lifeVars

\* Mistake: start-up goes on while modules are being loaded.
ModulesLoading ==
    /\ At("modules")
    /\ Goes("forwarding")
    /\ UNCHANGED <<autoload, up, asked_for, kmodVars>> /\ NoTask

ModulesLoaded ==
    /\ At("modules") /\ Idle(Main)
    /\ Goes("forwarding")
    /\ UNCHANGED <<autoload, up, asked_for, kmodVars>> /\ NoTask

\* The write to ip_forward, then the netlink socket; either may fail, and with
\* it all of configure_network.
EnableForwarding ==
    /\ At("forwarding")
    /\ \/ Goes("lo") /\ Sets({"forwarding"}) /\ Succeeds
       \/ Goes("firewall") /\ Fails /\ \E s \in {{}, {"forwarding"}} : Sets(s)
    /\ UNCHANGED <<autoload, asked_for>> /\ NoLoading /\ NoTask

\* A loopback that cannot be set up is only reported.
SetUpLo ==
    /\ At("lo")
    /\ Goes("lan")
    /\ \/ Sets({"lo"}) /\ Succeeds
       \/ Sets({}) /\ Fails
    /\ UNCHANGED <<autoload, asked_for>> /\ NoLoading /\ NoTask

\* Mistake: the LAN is waited for.
SetUpLanRetries ==
    /\ At("lan")
    /\ \/ NetDriver \in kernel /\ Goes("wan") /\ Sets({"lan", "address"}) /\ Succeeds
       \/ NetDriver \in kernel /\ Goes("wan") /\ Sets({"lan"}) /\ Fails
       \/ NetDriver \notin kernel /\ Goes("lan") /\ Sets({}) /\ Succeeds
    /\ UNCHANGED <<autoload, asked_for>> /\ NoLoading /\ NoTask

\* configure_interface of the LAN: link up, then the address.  An error of the
\* link, or an address that cannot be parsed, ends configure_network, so that
\* the WAN link stays down; an address that the kernel refuses is only printed.
SetUpLan ==
    /\ At("lan")
    /\ \/ NetDriver \in kernel /\ Goes("wan") /\ Sets({"lan", "address"}) /\ Succeeds
       \/ NetDriver \in kernel /\ Goes("wan") /\ Sets({"lan"}) /\ Fails
       \/ NetDriver \in kernel /\ Goes("firewall") /\ Sets({"lan"}) /\ Fails
       \/ Goes("firewall") /\ Sets({}) /\ Fails
       \/ NetDriver \notin kernel /\ Goes("firewall") /\ Sets({}) /\ Succeeds
    /\ UNCHANGED <<autoload, asked_for>> /\ NoLoading /\ NoTask

SetUpWan ==
    /\ At("wan")
    /\ Goes("firewall")
    /\ \/ NetDriver \in kernel /\ Sets({"wan"}) /\ Succeeds
       \/ Sets({}) /\ Fails
       \/ NetDriver \notin kernel /\ Sets({}) /\ Succeeds
    /\ UNCHANGED <<autoload, asked_for>> /\ NoLoading /\ NoTask

\* The kernel takes the whole batch of rules or none of it.  A module that it
\* misses it first asks for, and waits.
Missing == FirewallModules \ kernel
Waits == autoload /\ (asked_for # Aliases \/ \E p \in Helpers : ~Idle(p))

ConfigureFirewall ==
    /\ At("firewall")
    /\ \/ Missing = {} /\ Goes("running") /\ Sets({"firewall"}) /\ Succeeds
       \/ Missing # {} /\ ~Waits /\ Goes("fatal") /\ Sets({}) /\ Succeeds
       \/ Goes("fatal") /\ Sets({}) /\ Fails
    /\ UNCHANGED <<autoload, asked_for>> /\ NoLoading /\ NoTask

\* A fatal error: reboot, and leave main if that is refused.
Fatal ==
    /\ At("fatal")
    /\ \/ Stops("restarting")
       \/ /\ AutobootRefused /\ Goes("returned")
          /\ UNCHANGED <<autoload, up, asked_for, tasks, reaping>> /\ NoLoading

\* The kernel asks for something by an alias, once a boot.
KernelAsks(p) ==
    /\ machine = "up" /\ autoload
    /\ \E alias \in Aliases \ asked_for :
          /\ StartHelper(p, alias)
          /\ asked_for' = asked_for \cup {alias}
    /\ UNCHANGED <<stage, autoload, up>> /\ NoTask

HelperLoads(p) ==
    /\ machine = "up"
    /\ LoaderStep(p)
    /\ UNCHANGED lifeVars

StartupStep ==
    \/ Mount \/ LoadRequired \/ ModulesLoaded \/ EnableForwarding \/ SetUpLo
    \/ SetUpLan \/ SetUpWan \/ ConfigureFirewall \/ Fatal
-----------------------------------------------------------------------------
(***************************************************************************)
(* The panic hook                                                          *)
(***************************************************************************)

\* A task that panics holds its thread for good if the reboot is refused.
Stuck == Cardinality({t \in {"monitor", "clock"} :
                        IF t = "monitor" THEN monitor = "stuck" ELSE clock = "stuck"})
TaskRuns == At("running") /\ Stuck < Workers
Quiet == UNCHANGED <<startup, dep_lines, kernel, processes, failed, refused>>

\* The SNTP client panics on a time before 1970.
ClockPanics ==
    /\ TaskRuns /\ clock = "running"
    /\ \/ Stops("restarting")
       \/ /\ AutobootRefused /\ clock' = "stuck"
          /\ UNCHANGED <<shutdown_flag, monitor, listening, reaping>> /\ Quiet
-----------------------------------------------------------------------------
(***************************************************************************)
(* start_signal_monitor, and the end of main                               *)
(***************************************************************************)

OnlyMonitor == UNCHANGED <<machine, shutdown_flag, listening, clock, reaping>> /\ Quiet

\* A handler that cannot be bound is a panic.
MonitorStarts ==
    /\ TaskRuns /\ monitor = "new"
    /\ \/ monitor' = "waiting" /\ Succeeds /\ UNCHANGED hopeless /\ OnlyMonitor
       \/ failures < MaxFailures /\ Stops("restarting")
       \/ /\ failures + 2 <= MaxFailures /\ failures' = failures + 2
          /\ monitor' = "stuck" /\ hopeless' = TRUE /\ OnlyMonitor

\* SIGINT, SIGTERM or SIGPWR.
Signal ==
    /\ TaskRuns /\ monitor = "waiting"
    /\ monitor' = "grace"
    /\ shutdown_flag' = TRUE
    /\ UNCHANGED <<machine, listening, clock, reaping, hopeless, failures>> /\ Quiet

\* Mistake: a power-off that is refused waits for the next signal.
MonitorPowersOffAgain ==
    /\ TaskRuns /\ monitor = "grace"
    /\ \/ Stops("off")
       \/ Refused /\ monitor' = "waiting" /\ UNCHANGED hopeless /\ OnlyMonitor

\* Mistake: no fallback.
MonitorPowersOffOnce ==
    /\ TaskRuns /\ monitor = "grace"
    /\ \/ Stops("off")
       \/ Refused /\ monitor' = "done" /\ UNCHANGED hopeless /\ OnlyMonitor

\* After the 500 ms.
MonitorPowersOff ==
    /\ TaskRuns /\ monitor = "grace"
    /\ \/ Stops("off")
       \/ Refused /\ monitor' = "fallback" /\ UNCHANGED hopeless /\ OnlyMonitor

MonitorFallsBack ==
    /\ TaskRuns /\ monitor = "fallback"
    /\ \/ Stops("restarting")
       \/ AutobootRefused /\ monitor' = "done" /\ OnlyMonitor

\* main ends with the monitor, which drops the tasks with the runtime...
MainReturns ==
    /\ At("running") /\ monitor = "done"
    /\ Goes("returned")
    /\ UNCHANGED <<autoload, up, asked_for, kmodVars>> /\ NoTask

\* ...and waits for their threads.  The kernel panics when PID 1 exits.
InitExits ==
    /\ At("returned") /\ Stuck = 0
    /\ Stops("crashed")
-----------------------------------------------------------------------------
(***************************************************************************)
(* start_power_button_monitor                                              *)
(***************************************************************************)

\* The devices that can be opened when the task runs.
OpenButtons ==
    /\ TaskRuns /\ listening = None
    /\ \/ listening' = Buttons /\ Succeeds
       \/ Fails /\ \E b \in Buttons : listening' = Buttons \ {b}
    /\ UNCHANGED <<machine, shutdown_flag, monitor, clock, reaping, hopeless>> /\ Quiet

\* A device that is gone, or whose stream cannot be read, is not watched again.
ButtonGone(b) ==
    /\ TaskRuns /\ listening # None /\ b \in listening
    /\ listening' = listening \ {b} /\ Fails
    /\ UNCHANGED <<machine, shutdown_flag, monitor, clock, reaping, hopeless>> /\ Quiet

\* The refusal of the power-off is ignored, and the device no longer watched.
PowerButton(b) ==
    /\ TaskRuns /\ listening # None /\ b \in listening
    /\ \/ Stops("off")
       \/ /\ Refused /\ shutdown_flag' = TRUE
          /\ listening' = listening \ {b}
          /\ UNCHANGED <<monitor, clock, reaping, hopeless>> /\ Quiet
-----------------------------------------------------------------------------
(***************************************************************************)
(* start_orphan_reaper                                                     *)
(***************************************************************************)
ReaperOnly == UNCHANGED <<machine, tasks, hopeless>> /\ Quiet

\* Mistake: without a stream nothing is reaped.
ReaperGivesUp ==
    /\ TaskRuns /\ reaper = "new"
    /\ \/ ~shutdown_flag /\ reaper' = "asleep" /\ stream' = TRUE /\ Succeeds
       \/ ~shutdown_flag /\ reaper' = "stopped" /\ Fails /\ UNCHANGED stream
       \/ shutdown_flag /\ reaper' = "stopped" /\ Succeeds /\ UNCHANGED stream
    /\ UNCHANGED <<sigchld, zombies, backlog>> /\ ReaperOnly

\* With a stream the loop first waits; without, it first reaps, unless the flag
\* is set.
ReaperStarts ==
    /\ TaskRuns /\ reaper = "new"
    /\ \/ ~shutdown_flag /\ reaper' = "asleep" /\ stream' = TRUE /\ Succeeds
       \/ ~shutdown_flag /\ reaper' = "reaping" /\ Fails /\ UNCHANGED stream
       \/ shutdown_flag /\ reaper' = "stopped" /\ Succeeds /\ UNCHANGED stream
    /\ UNCHANGED <<sigchld, zombies, backlog>> /\ ReaperOnly

\* SIGCHLD, or the end of the sleep: 5 s with a stream, 500 ms without.  Only a
\* poller looks at the flag between its sleep and its reaping.
ReaperWakes ==
    /\ TaskRuns /\ reaper = "asleep"
    /\ reaper' = IF ~stream /\ shutdown_flag THEN "stopped" ELSE "reaping"
    /\ sigchld' \in {FALSE, sigchld}
    /\ UNCHANGED <<stream, zombies, backlog, failures>> /\ ReaperOnly

\* Mistake: one child a round.
ReapOnlyOne ==
    /\ TaskRuns /\ reaper = "reaping" /\ zombies > 0
    /\ zombies' = zombies - 1
    /\ reaper' = "asleep"
    /\ UNCHANGED <<stream, sigchld, backlog, failures>> /\ ReaperOnly

\* Mistake: a child that is still alive counts as reaped.
ReapAnyway ==
    /\ TaskRuns /\ reaper = "reaping"
    /\ zombies' = zombies - 1
    /\ UNCHANGED <<reaper, stream, sigchld, backlog, failures>> /\ ReaperOnly

\* reap_zombies: a call of waitpid.
ReapOne ==
    /\ TaskRuns /\ reaper = "reaping" /\ zombies > 0
    /\ zombies' = zombies - 1
    /\ UNCHANGED <<reaper, stream, sigchld, backlog, failures>> /\ ReaperOnly

\* No child left that is dead.
ReapDone ==
    /\ TaskRuns /\ reaper = "reaping" /\ zombies = 0
    /\ reaper' = IF stream /\ shutdown_flag THEN "stopped" ELSE "asleep"
    /\ backlog' = FALSE
    /\ UNCHANGED <<stream, sigchld, zombies, failures>> /\ ReaperOnly

\* An orphan dies; one that dies earlier is like one that dies before the
\* reaper starts.
OrphanDies ==
    /\ At("running") /\ zombies < MaxOrphans
    /\ zombies' = zombies + 1
    /\ sigchld' = stream
    /\ backlog' = (backlog \/ ~stream)
    /\ UNCHANGED <<reaper, stream, failures>> /\ ReaperOnly
-----------------------------------------------------------------------------
MonitorStep == MonitorStarts \/ MonitorPowersOff \/ MonitorFallsBack
ReaperStep == ReaperStarts \/ ReaperWakes \/ ReapOne \/ ReapDone
MainStep == StartupStep \/ MainReturns \/ InitExits

Next ==
    \/ PowerOn
    \/ MainStep
    \/ \E p \in Helpers : KernelAsks(p) \/ HelperLoads(p)
    \/ MonitorStep \/ Signal
    \/ OpenButtons \/ \E b \in Buttons : PowerButton(b) \/ ButtonGone(b)
    \/ ReaperStep \/ OrphanDies
    \/ ClockPanics

Spec == Init /\ [][Next]_vars

\* The scheduler runs main, each process and each task; the kernel asks for the
\* modules that it misses.
FairSpec ==
    /\ Spec
    /\ WF_vars(MainStep) /\ WF_vars(MonitorStep) /\ WF_vars(ReaperStep)
    /\ \A p \in Helpers : WF_vars(KernelAsks(p) \/ HelperLoads(p))
-----------------------------------------------------------------------------
(***************************************************************************)
(* Properties                                                              *)
(***************************************************************************)

\* A boot in which no operation fails ends with everything set up, whatever
\* the helpers load meanwhile.
CleanBoot ==
    machine = "up" /\ failures = 0 /\ HasModulesDep =>
        /\ stage # "fatal"
        /\ stage = "running" => up = Facilities

\* What a failure costs start-up is bounded: once main is done with its list, the
\* kernel misses a module of it, or one that such a module needs, only if that one's
\* own file or a file it needs could not be loaded, never because another failed
\* before it, whatever the helpers load and fail to load meanwhile.  So the rules
\* are refused, and the router restarted, for no other missing module.
OnlyFailuresMissing ==
    HasModulesDep /\ stage \in {"forwarding", "lo", "lan", "wan", "firewall", "running"} =>
        \A i \in DOMAIN Required : \A m \in Needs[Required[i]] \cup {Required[i]} :
            m \in kernel \/ ({m} \cup Needs[m]) \cap failed # {}

\* Init exits, which makes the kernel panic, only when even the emergency
\* reboot was refused.
InitExitsLast == machine = "crashed" => hopeless

\* No dead orphan goes unnoticed: while the reaper sleeps on its stream a
\* SIGCHLD is pending, unless the orphans died before the stream was there.
NoZombieUnnoticed ==
    reaper = "asleep" /\ stream /\ zombies > 0 => sigchld \/ backlog

\* A boot comes to an end: the services run, or the machine stops.
BootSettles == (machine = "up") ~> (stage \in {"running", "returned"} \/ machine # "up")

\* A shutdown that a signal starts ends with the machine off, rebooted or
\* crashed, unless a task in the panic hook keeps the others, or the process,
\* from ending.
ShutdownEnds ==
    (machine = "up" /\ monitor = "grace") ~>
        \/ machine # "up"
        \/ Stuck = Workers
        \/ stage = "returned" /\ Stuck > 0

\* Orphans are reaped until a shutdown has begun: they never stay as many as
\* they can be, however SIGCHLDs are lost or coalesced.
ZombiesReaped ==
    (zombies = MaxOrphans) ~>
        \/ zombies < MaxOrphans
        \/ shutdown_flag \/ Stuck = Workers \/ machine # "up"

\* Once the kernel knows modprobe, whatever it asks for is resolved to the module
\* of the first line of modules.alias whose pattern matches.
AliasesResolve ==
    [][~autoload /\ autoload' => \A alias \in Strings : ResolveAlias(alias) = RightModule(alias)]_vars
=============================================================================
