-------------------------------- MODULE VmHost --------------------------------
(***************************************************************************)
(* tools/vm/vm.py: the Linux machine the native client is tested on.  One  *)
(* command runs at a time; it may be interrupted between any two of its    *)
(* steps, which leaves its files and the QEMU process behind, and so may   *)
(* any of its ssh calls fail.  What it had started in the guest then runs  *)
(* on there, beside the commands that follow.  The guest (its boot,        *)
(* cloud-init, ssh) and the network are external; what provision.sh        *)
(* installs is left out.                                                   *)
(***************************************************************************)
EXTENDS Integers, FiniteSets

CONSTANTS
  MaxCommands,     \* bound: commands given
  MaxInterrupts    \* bound: commands interrupted

ASSUME VmAssumption == MaxCommands \in Nat /\ MaxInterrupts \in Nat

VARIABLES
  v_command,    \* "none", "up", "start", "stop", "build", "smoke"
  v_pc,         \* the next step of the command
  v_first,      \* up()'s first_boot
  v_seed,       \* the seed server of this command answers
  v_base,       \* the base image: "absent", "whole", "bad"
  v_partial,    \* its download: "absent", "whole", "bad"
  v_disk,       \* "absent", "blank", "user", "seeded", "unseeded"
  v_machine,    \* the pid of the QEMU that runs, or 0
  v_serial,     \* it was given the seed's address
  v_boot,       \* the guest: "off", "booted"
  v_child,      \* the pid of the QEMU this command started, or 0
  v_pid,        \* qemu.pid: a pid, or 0
  v_pids,       \* pids used so far
  v_tree,       \* the guest's source tree: "none", "whole" (this command's), "old" (an earlier one's), "cut"
  v_built,      \* the builds: of which tree, and whether v_overlap
  v_window,     \* a window of gui-smoke is open in the guest
  v_left,       \* it is none that a running gui-smoke still closes
  v_scripts,    \* scripts of ended commands that run on in the guest
  v_overlap,    \* one of them changed the tree while this command synced or built it
  v_commands, v_interrupts,
  v_cut,        \* history: the first boot was not an uninterrupted up's
  v_torn        \* history: interrupted between starting QEMU and writing qemu.pid, or refused by the disk's lock

hostFiles == <<v_base, v_partial, v_pid>>
machineVars == <<v_machine, v_serial, v_boot, v_pids>>
treeVars == <<v_tree, v_built, v_overlap>>
windowVars == <<v_window, v_left>>
guestVars == <<treeVars, windowVars, v_scripts>>
vmHistory == <<v_commands, v_interrupts, v_cut, v_torn>>
vmVars == <<v_command, v_pc, v_first, v_seed, v_disk, v_child, hostFiles, machineVars, guestVars, vmHistory>>

VmInit ==
  /\ v_command = "none" /\ v_pc = "shell" /\ v_first = FALSE /\ v_seed = FALSE
  /\ v_base = "absent" /\ v_partial = "absent" /\ v_disk = "absent"
  /\ v_machine = 0 /\ v_serial = FALSE /\ v_boot = "off" /\ v_child = 0 /\ v_pid = 0 /\ v_pids = 0
  /\ v_tree = "none" /\ v_built = {} /\ v_window = FALSE /\ v_left = FALSE
  /\ v_scripts = {} /\ v_overlap = FALSE
  /\ v_commands = 0 /\ v_interrupts = 0 /\ v_cut = FALSE /\ v_torn = FALSE

(* running_pid(): the file's process is there; pids are not used again. *)
Running == v_pid # 0 /\ v_pid = v_machine

(* ssh reaches the guest once cloud-init made the user. *)
Reachable == v_boot = "booted" /\ v_disk \in {"user", "seeded"}

(* The process of the command ends, and its seed server with it. *)
Ends == v_command' = "none" /\ v_pc' = "shell" /\ v_seed' = FALSE /\ v_first' = FALSE /\ v_child' = 0
Goes(pc) == v_pc' = pc /\ UNCHANGED <<v_command, v_first, v_seed, v_child>>

(* What a step may have running in the guest when its command ends early:  *)
(* without a terminal nothing stops it.  An archive that ends early may    *)
(* end at a member: the guest then cannot tell it from a whole one.        *)
RunsOn(pc) == CASE pc = "sync" -> {"old", "cut"}
                [] pc \in {"build", "open", "close"} -> {pc}
                [] OTHER -> {}
LeavesScript == v_scripts' \in {v_scripts} \cup (IF Running /\ Reachable THEN {v_scripts \cup {s} : s \in RunsOn(v_pc)} ELSE {})

(* The scripts that replace the tree. *)
Replacing == {"old", "cut"}

--------------------------------------------------------------------------------
(* Mutant: up() looks for the disk after launch() made it. *)
FirstBootAfterLaunch == FALSE

(* up(): the first boot is the one before which there is no disk. *)
FirstBoot == v_disk = "absent"

(* main(): the commands; shell, exec and run only use the guest. *)
Command ==
  /\ v_pc = "shell" /\ v_commands < MaxCommands
  /\ v_command' \in {"up", "start", "stop", "build", "smoke"}
  /\ v_first' = (v_command' = "up" /\ FirstBoot) /\ v_seed' = v_first'
  /\ v_pc' = CASE v_command' \in {"up", "start"} -> "launch"
               [] v_command' = "stop" -> "stop"
               [] OTHER -> "sync"
  /\ v_commands' = v_commands + 1
  /\ v_tree' = (IF v_tree = "whole" THEN "old" ELSE v_tree) /\ v_overlap' = FALSE
  /\ UNCHANGED <<v_disk, v_child, hostFiles, machineVars, v_built, windowVars, v_scripts, v_interrupts, v_cut, v_torn>>

(* launch(): a machine that runs is left alone. *)
Launch ==
  /\ v_pc = "launch"
  /\ Goes(IF Running THEN "ssh" ELSE IF v_base = "absent" THEN "download" ELSE "disk")
  /\ UNCHANGED <<v_disk, hostFiles, machineVars, guestVars, vmHistory>>

(* Mutant: the download goes to the base image's own name. *)
DownloadTarget(got) == v_base' = got /\ v_partial' = got

(* fetch_base_image() downloads to a name of its own. *)
DownloadTo(got) == v_partial' = got /\ UNCHANGED v_base

(* The file grows from the first byte on: an interruption leaves part of it. *)
BeginDownload ==
  /\ v_pc = "download" /\ DownloadTo("bad") /\ Goes("downloading")
  /\ UNCHANGED <<v_disk, v_pid, machineVars, guestVars, vmHistory>>

EndDownload ==
  /\ v_pc = "downloading"
  /\ \/ \E got \in {"whole", "bad"} : DownloadTo(got) /\ Goes("verify")
     \/ Ends /\ UNCHANGED <<v_base, v_partial>>
  /\ UNCHANGED <<v_disk, v_pid, machineVars, guestVars, vmHistory>>

(* The checksum decides between the base image and a failure. *)
Verify ==
  /\ v_pc = "verify" /\ v_partial' = "absent"
  /\ \/ v_partial = "whole" /\ v_base' = "whole" /\ Goes("disk")
     \/ v_partial = "bad" /\ Ends /\ UNCHANGED v_base
  /\ UNCHANGED <<v_disk, v_pid, machineVars, guestVars, vmHistory>>

(* create_disk(): history notes a disk that start, or no first boot, made. *)
CreateDisk ==
  /\ v_pc = "disk" /\ Goes("popen")
  /\ v_disk' = IF v_disk = "absent" THEN "blank" ELSE v_disk
  /\ v_cut' = (v_cut \/ (v_disk = "absent" /\ v_command = "start"))
  /\ UNCHANGED <<hostFiles, machineVars, guestVars, v_commands, v_interrupts, v_torn>>

(* QEMU starts; it exits at once when another holds the disk, or fails. *)
StartQemu ==
  /\ v_pc = "popen" /\ v_pc' = "pid"
  /\ v_pids' = v_pids + 1 /\ v_child' = v_pids'
  /\ \/ /\ v_machine = 0
        /\ v_machine' = v_child' /\ v_serial' = v_first /\ v_boot' = "off"
     \/ UNCHANGED <<v_machine, v_serial, v_boot>>
  /\ UNCHANGED <<v_command, v_first, v_seed, v_disk, hostFiles, guestVars, vmHistory>>

(* qemu.pid is written; a child that has exited ends the command. *)
WritePid ==
  /\ v_pc = "pid" /\ v_pid' = v_child
  /\ IF v_child = v_machine
     THEN Goes("ssh") /\ UNCHANGED v_cut
     ELSE Ends /\ v_cut' = (v_cut \/ v_first)
  /\ v_torn' = (v_torn \/ v_machine \notin {0, v_child})
  /\ UNCHANGED <<v_disk, v_base, v_partial, machineVars, guestVars, v_commands, v_interrupts>>

(* wait_for_ssh(): it returns, finds QEMU gone, or times out. *)
WaitForSsh ==
  /\ v_pc = "ssh"
  /\ \/ Reachable /\ v_command = "start" /\ Ends /\ UNCHANGED v_cut
     \/ Reachable /\ v_command = "up" /\ Goes(IF v_first THEN "cloud" ELSE "provision") /\ UNCHANGED v_cut
     \/ Ends /\ v_cut' = (v_cut \/ v_first)
  /\ UNCHANGED <<v_disk, hostFiles, machineVars, guestVars, v_commands, v_interrupts, v_torn>>

(* Mutant: the seed is shut down as soon as ssh answers. *)
CloudInitAnswered == TRUE

(* cloud-init status --wait returns at the end of the first boot. *)
CloudInitDone == v_disk = "seeded"

(* guest() raises when the machine is gone or ssh fails while it waits:    *)
(* "|| true" is for the guest's command only.  The seed goes down with it. *)
AwaitCloudInit ==
  /\ v_pc = "cloud"
  /\ \/ /\ Running /\ Reachable /\ CloudInitDone
        /\ v_seed' = FALSE /\ v_pc' = "provision" /\ UNCHANGED <<v_command, v_first, v_child, v_cut>>
     \/ Ends /\ v_cut' = (v_cut \/ v_disk # "seeded")
  /\ UNCHANGED <<v_disk, hostFiles, machineVars, guestVars, v_commands, v_interrupts, v_torn>>

Provision ==
  /\ v_pc = "provision"
  /\ \/ Running /\ Reachable /\ Goes("sync")
     \/ Ends
  /\ UNCHANGED <<v_disk, hostFiles, machineVars, guestVars, vmHistory>>

(* Mutant: the exit status of the sync is not looked at. *)
StatusIgnored == Goes("build")

(* "Working tree sync failed". *)
SyncRaises == Ends

(* sync(): the archive is unpacked in a staging directory, which then      *)
(* replaces the tree file by file.  It fails before or within that, or ssh *)
(* does, whose script may run on.                                          *)
SyncTree ==
  /\ v_pc = "sync"
  /\ \/ Running /\ Reachable /\ Goes("build") /\ UNCHANGED v_scripts
        /\ v_tree' \in IF v_overlap THEN {"whole", "cut"} ELSE {"whole"}
     \/ Running /\ Reachable /\ v_tree' \in {v_tree, "cut"} /\ SyncRaises /\ LeavesScript
     \/ ~(Running /\ Reachable) /\ Ends /\ UNCHANGED <<v_tree, v_scripts>>
  /\ UNCHANGED <<v_disk, hostFiles, machineVars, v_built, v_overlap, windowVars, vmHistory>>

(* build(): zig build reads the tree, or fails, or its ssh does. *)
BuildTree ==
  /\ v_pc = "build"
  /\ \/ Running /\ Reachable /\ v_built' = v_built \cup {[tree |-> v_tree, overlap |-> v_overlap]}
        /\ (IF v_command = "smoke" THEN Goes("open") ELSE Ends) /\ UNCHANGED v_scripts
     \/ Ends /\ LeavesScript /\ UNCHANGED v_built
  /\ UNCHANGED <<v_disk, hostFiles, machineVars, v_tree, v_overlap, windowVars, vmHistory>>

(* gui_smoke(): the window opens; or it fails the check that it came       *)
(* through the login shell, which raises before the try; or it exits       *)
(* early, or ssh fails.                                                    *)
OpenWindow ==
  /\ v_pc = "open"
  /\ \/ Running /\ Reachable /\ v_window' = TRUE /\ Goes("shot") /\ UNCHANGED <<v_left, v_scripts>>
     \/ Running /\ Reachable /\ v_window' = TRUE /\ Ends /\ v_left' = TRUE /\ UNCHANGED v_scripts
     \/ Ends /\ LeavesScript /\ UNCHANGED windowVars
  /\ UNCHANGED <<v_disk, hostFiles, machineVars, treeVars, vmHistory>>

(* The screenshot is taken or raises; the window is closed after either. *)
Screenshot ==
  /\ v_pc = "shot" /\ Goes("close")
  /\ UNCHANGED <<v_disk, hostFiles, machineVars, guestVars, vmHistory>>

CloseSmoke ==
  /\ v_pc = "close" /\ Ends
  /\ \/ Running /\ Reachable /\ v_window' = FALSE /\ v_left' = FALSE /\ UNCHANGED v_scripts
     \/ v_left' = v_window /\ LeavesScript /\ UNCHANGED v_window
  /\ UNCHANGED <<v_disk, hostFiles, machineVars, treeVars, vmHistory>>

(* The guest stops: its windows and scripts end, in the middle of what     *)
(* they were replacing.                                                    *)
GuestStops ==
  /\ v_machine' = 0 /\ v_boot' = "off" /\ v_window' = FALSE /\ v_left' = FALSE /\ v_scripts' = {}
  /\ v_tree' \in IF v_pc = "sync" \/ v_scripts \cap Replacing # {} THEN {v_tree, "cut"} ELSE {v_tree}

(* stop(): a machine the file does not name is "not running"; one it names *)
(* powers down, or is killed after a minute.                               *)
Stop ==
  /\ v_pc = "stop" /\ Ends
  /\ IF Running THEN GuestStops ELSE UNCHANGED <<v_machine, v_boot, windowVars, v_scripts, v_tree>>
  /\ v_cut' = (v_cut \/ v_disk = "blank")
  /\ UNCHANGED <<v_disk, hostFiles, v_serial, v_pids, v_built, v_overlap, v_commands, v_interrupts, v_torn>>

(* An interruption of the command, or the loss of its terminal. *)
Interrupt ==
  /\ v_pc # "shell" /\ v_interrupts < MaxInterrupts
  /\ Ends /\ v_interrupts' = v_interrupts + 1
  /\ v_cut' = (v_cut \/ v_disk = "blank" \/ (v_first /\ v_disk = "user"))
  /\ v_torn' = (v_torn \/ v_pc = "pid")
  /\ v_left' = v_window /\ LeavesScript
  /\ UNCHANGED <<v_disk, hostFiles, machineVars, treeVars, v_window, v_commands>>

--------------------------------------------------------------------------------
(* The guest: QEMU boots it; cloud-init reads the seed to the end of the   *)
(* first boot and never again.                                             *)
GuestBoots ==
  /\ v_machine # 0 /\ v_boot = "off" /\ v_boot' = "booted"
  /\ v_disk' = IF v_disk # "blank" THEN v_disk ELSE IF v_serial /\ v_seed THEN "user" ELSE "unseeded"
  /\ UNCHANGED <<v_command, v_pc, v_first, v_seed, v_child, hostFiles, v_machine, v_serial, v_pids, guestVars, vmHistory>>

CloudInitEnds ==
  /\ v_boot = "booted" /\ v_disk = "user"
  /\ v_disk' = IF v_seed THEN "seeded" ELSE "unseeded"
  /\ UNCHANGED <<v_command, v_pc, v_first, v_seed, v_child, hostFiles, machineVars, guestVars, vmHistory>>

(* The guest powers itself off, or QEMU dies. *)
QemuExits ==
  /\ v_machine # 0 /\ GuestStops
  /\ v_cut' = (v_cut \/ v_disk \in {"blank", "user"})
  /\ UNCHANGED <<v_command, v_pc, v_first, v_seed, v_child, v_disk, hostFiles, v_serial, v_pids, v_built, v_overlap,
                 v_commands, v_interrupts, v_torn>>

(* A script of an ended command goes on: it replaces the tree or a part of *)
(* it, builds what it finds, opens its window or closes all of them.  It   *)
(* may be the last of its kind or not.                                     *)
ScriptReplaces(s) ==
  /\ s \in Replacing /\ v_tree' \in {s, "cut"}
  /\ v_overlap' = (v_overlap \/ v_pc \in {"sync", "build"})
  /\ UNCHANGED <<v_built, windowVars>>

ScriptBuilds(s) ==
  /\ s = "build" /\ v_built' = v_built \cup {[tree |-> v_tree, overlap |-> TRUE]}
  /\ UNCHANGED <<v_tree, v_overlap, windowVars>>

ScriptWindow(s) ==
  /\ s \in {"open", "close"} /\ v_window' = (s = "open") /\ v_left' = v_window'
  /\ UNCHANGED treeVars

ScriptRunsOn ==
  \E s \in v_scripts :
    /\ ScriptReplaces(s) \/ ScriptBuilds(s) \/ ScriptWindow(s)
    /\ v_scripts' \in {v_scripts, v_scripts \ {s}}
    /\ UNCHANGED <<v_command, v_pc, v_first, v_seed, v_disk, v_child, hostFiles, machineVars, vmHistory>>

VmNext ==
  \/ Command \/ Launch \/ BeginDownload \/ EndDownload \/ Verify \/ CreateDisk \/ StartQemu \/ WritePid
  \/ WaitForSsh \/ AwaitCloudInit \/ Provision \/ SyncTree \/ BuildTree \/ OpenWindow \/ Screenshot
  \/ CloseSmoke \/ Stop \/ Interrupt \/ GuestBoots \/ CloudInitEnds \/ QemuExits \/ ScriptRunsOn

--------------------------------------------------------------------------------
(* Interruptions and failed ssh calls spare the machine.  A base image is  *)
(* a verified one (vm.py:103); a disk misses its seed only when its first  *)
(* boot was not an up's or was cut short (vm.py:416); a machine that runs  *)
(* is the one in qemu.pid unless the command that started it was cut short *)
(* before it wrote the file; a build reads the whole archive that its own  *)
(* command sent (vm.py:330), unless the script of an earlier command ran   *)
(* on and replaced the tree meanwhile; and a window outlives gui-smoke     *)
(* only when its check of the login shell or the ssh call that closes it   *)
(* failed, when the command was cut short, or when its script opened it    *)
(* after that.                                                             *)
MachineKept ==
  /\ v_base # "bad"
  /\ v_disk = "unseeded" => v_cut
  /\ v_machine # 0 /\ v_machine # v_pid => v_torn \/ v_pc = "pid"
  /\ \A b \in v_built : b.tree = "whole" \/ b.overlap
  /\ v_window => v_left \/ v_command = "smoke"

================================================================================
