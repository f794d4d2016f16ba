-------------------------------- MODULE Scanners --------------------------------
(***************************************************************************)
(* The two scanner pages of the app: finding and saving disks              *)
(* (features/DiskScanner.tsx, pages/Disk.tsx, stores/useDiskStore.ts) and  *)
(* finding and adding devices (features/DeviceScanner.tsx,                 *)
(* pages/Device.tsx), with the server's AddDevice (api/devices_api.go).    *)
(*                                                                         *)
(* The step of the disk page is in a store and outlives the page; that of  *)
(* the device page does not.  A scan is not stopped by leaving the page:   *)
(* its answer comes and its timer goes off whatever the app shows then.    *)
(***************************************************************************)
EXTENDS Integers, FiniteSets

CONSTANTS
  Disks,      (* disks the server may list, by device                     *)
  Devices,    (* names for devices                                        *)
  MaxScans,   (* scans of disks under way at the same time, at most       *)
  NumPosts,   (* devices submitted, at most                               *)
  MaxActs,    (* what the user does, at most                              *)
  NoName      (* an empty name field                                      *)

ASSUME ScannersAssumption ==
  /\ MaxScans \in Nat /\ NumPosts \in Nat /\ MaxActs \in Nat
  /\ NoName \notin Devices

Posts == 1 .. NumPosts

VARIABLES
  page,         (* "disk", "device" or "elsewhere"                         *)
  scanStep,     (* of the disk page: 0 welcome, 1 scanning, 2 results      *)
  disks,        (* the disks in the store                                  *)
  stored,       (* the disks in localStorage                               *)
  selected,     (* disks ticked in the results on the screen               *)
  asking,       (* scans of disks that have not been answered              *)
  waiting,      (* scans of disks whose timer is running                   *)
  deviceStep,   (* of the device page on the screen                        *)
  deviceScan,   (* its scan                                                *)
  form,         (* its dialog                                              *)
  posts,        (* devices submitted                                       *)
  saved,        (* history: the disks saved last, and whether they were    *)
  quiet,        (* saved with no scan unanswered, and none started since   *)
  acts

diskVars   == <<scanStep, disks, stored, selected, asking, waiting, saved, quiet>>
deviceVars == <<deviceStep, deviceScan, form, posts>>
vars       == <<page, diskVars, deviceVars, acts>>

Blank  == [open |-> FALSE, name |-> NoName, address |-> FALSE, error |-> FALSE]
NoPost == [stage |-> "none", name |-> NoName, address |-> FALSE, here |-> FALSE,
           answer |-> "none", rows |-> 0]

Init ==
  /\ page \in {"disk", "device", "elsewhere"}
  /\ scanStep = 0 /\ disks = {} /\ stored \in SUBSET Disks /\ selected = {}
  /\ asking = 0 /\ waiting = 0
  /\ deviceStep = 0 /\ deviceScan = "none" /\ form = Blank
  /\ posts = [i \in Posts |-> NoPost]
  /\ saved = {} /\ quiet = FALSE
  /\ acts = 0

\* Bound on what the user does.
Act == acts < MaxActs /\ acts' = acts + 1

--------------------------------------------------------------------------------
(* Pages. *)

\* What becomes of a page that is left: its own state is gone, and what comes
\* back to it has no effect.
LeaveDevicePage ==
  /\ deviceStep' = 0 /\ deviceScan' = "none" /\ form' = Blank
  /\ posts' = [i \in Posts |-> [posts[i] EXCEPT !.here = FALSE]]

\* The disk page comes up as its step says, which for 1 starts a scan that the
\* user has not asked for; then its effect puts the step back ('lastScanStep'
\* is never stored).
MountDiskPage ==
  /\ scanStep' = 0
  /\ IF scanStep = 1
     THEN asking + waiting < MaxScans /\ asking' = asking + 1
     ELSE UNCHANGED asking

Go(p) ==
  /\ p # page
  /\ Act
  /\ page' = p
  /\ IF p = "disk" THEN MountDiskPage ELSE UNCHANGED <<scanStep, asking>>
  /\ selected' = {}
  /\ LeaveDevicePage
  /\ UNCHANGED <<disks, stored, waiting, saved, quiet>>

\* The app is loaded again.  What is in localStorage is not read.
Reload ==
  /\ Act
  /\ scanStep' = 0 /\ disks' = {} /\ selected' = {}
  /\ asking' = 0 /\ waiting' = 0
  /\ LeaveDevicePage
  /\ UNCHANGED <<page, stored, saved, quiet>>

--------------------------------------------------------------------------------
(* Disks. *)

Shows(step) == page = "disk" /\ scanStep = step

\* The button of DiskScannerWelcome; the effect of DiskScannerScanDisks.
ScanDisks ==
  /\ Shows(0)
  /\ Act
  /\ asking + waiting < MaxScans
  /\ scanStep' = 1 /\ asking' = asking + 1
  /\ quiet' = FALSE
  /\ UNCHANGED <<page, disks, stored, selected, waiting, saved, deviceVars>>

\* Fault: localStorage is not written.
SetDisksOnly(list) == disks' = list /\ UNCHANGED stored

SetDisks(list) == disks' = list /\ stored' = list

Found == \E list \in SUBSET Disks \ {{}} : SetDisks(list)

\* An answer that is no use: a failure, or an empty list, or null.
NotFound == UNCHANGED <<disks, stored>>

\* Fault: the timer is set when disks were found.
AnsweredIfFound ==
  /\ asking' = asking - 1
  /\ \/ Found /\ waiting' = waiting + 1
     \/ NotFound /\ UNCHANGED waiting

\* Whatever the answer, the timer is set.
Answered ==
  /\ asking' = asking - 1
  /\ Found \/ NotFound
  /\ waiting' = waiting + 1

DisksListed ==
  /\ asking > 0
  /\ Answered
  /\ UNCHANGED <<page, scanStep, selected, saved, quiet, deviceVars, acts>>

\* The step is in the store: the timer sets it whatever page is shown.
DiskTimer ==
  /\ waiting > 0
  /\ waiting' = waiting - 1
  /\ scanStep' = 2
  /\ UNCHANGED <<page, disks, stored, selected, asking, saved, quiet, deviceVars, acts>>

Toggle(d) ==
  /\ Shows(2) /\ d \in disks
  /\ Act
  /\ selected' = IF d \in selected THEN selected \ {d} ELSE selected \union {d}
  /\ UNCHANGED <<page, scanStep, disks, stored, asking, waiting, saved, quiet, deviceVars>>

\* Fault: back to the screen that scans.
StepAfterSaveOne == 1

StepAfterSave == 0

\* handleSaveDisks.
SaveDisks ==
  /\ Shows(2)
  /\ Act
  /\ SetDisks(disks \intersect selected)
  /\ scanStep' = StepAfterSave
  /\ page' = "elsewhere"
  /\ selected' = {}
  /\ saved' = disks \intersect selected
  /\ quiet' = (asking = 0)
  /\ UNCHANGED <<asking, waiting, deviceVars>>

--------------------------------------------------------------------------------
(* Devices. *)

\* What is found is stored and never read.
ScanDevices ==
  /\ page = "device" /\ deviceStep = 0
  /\ Act
  /\ deviceStep' = 1 /\ deviceScan' = "asked"
  /\ UNCHANGED <<page, diskVars, form, posts>>

DevicesListed ==
  /\ deviceScan = "asked"
  /\ deviceScan' = "waiting"
  /\ UNCHANGED <<page, diskVars, deviceStep, form, posts, acts>>

DeviceTimer ==
  /\ deviceScan = "waiting"
  /\ deviceScan' = "none" /\ deviceStep' = 2
  /\ UNCHANGED <<page, diskVars, form, posts, acts>>

\* "Add a device", and Cancel, which leaves the fields as they are.
Dialog(open) ==
  /\ deviceStep = 2 /\ form.open # open
  /\ Act
  /\ form' = [form EXCEPT !.open = open]
  /\ UNCHANGED <<page, diskVars, deviceStep, deviceScan, posts>>

\* The fields are filled in.  The address is optional, says the dialog.
Fill(name, address) ==
  /\ form.open
  /\ Act
  /\ form' = [form EXCEPT !.name = name, !.address = address]
  /\ UNCHANGED <<page, diskVars, deviceStep, deviceScan, posts>>

\* addDevice up to its await.  Nothing keeps the user from pressing again.
Submit ==
  /\ form.open
  /\ Act
  /\ form' = [form EXCEPT !.error = form.name = NoName]
  /\ IF form.name = NoName
     THEN UNCHANGED posts
     ELSE \E i \in Posts :
            /\ posts[i].stage = "none"
            /\ \A j \in Posts : j < i => posts[j].stage # "none"
            /\ posts' = [posts EXCEPT ![i] =
                 [NoPost EXCEPT !.stage = "sent", !.name = form.name,
                                !.address = form.address, !.here = TRUE]]
  /\ UNCHANGED <<page, diskVars, deviceStep, deviceScan>>

\* What the server makes of a post: the answer, and the rows it inserts.
Outcome(answer, rows) == [answer |-> answer, rows |-> rows]

\* Fault: the row is inserted before the fields are looked at.
AddDeviceFirst(p) ==
  {Outcome("refused", 0), Outcome("created", 0)} \union
  {Outcome(IF p.address THEN "created" ELSE "refused", 1)}

\* AddDevice of the API.  It refuses who is not logged in and what has no
\* name or no address, and does not look at the error of the insert.
AddDevice(p) ==
  {Outcome("refused", 0)} \union
  (IF p.name # NoName /\ p.address THEN {Outcome("created", 0), Outcome("created", 1)} ELSE {})

Serve(i) ==
  /\ posts[i].stage = "sent"
  /\ \E o \in AddDevice(posts[i]) :
       posts' = [posts EXCEPT ![i].stage = "answered",
                              ![i].answer = o.answer, ![i].rows = o.rows]
  /\ UNCHANGED <<page, diskVars, deviceStep, deviceScan, form, acts>>

\* The server is not reached, or its answer is lost.
Lose(i) ==
  /\ posts[i].stage \in {"sent", "answered"}
  /\ posts' = [posts EXCEPT ![i].stage = "answered", ![i].answer = "lost"]
  /\ posts[i].answer # "lost"
  /\ UNCHANGED <<page, diskVars, deviceStep, deviceScan, form, acts>>

\* addDevice after its await: a success closes the dialog and empties it,
\* whatever has been filled in since.
Added(i) ==
  /\ posts[i].stage = "answered"
  /\ posts' = [posts EXCEPT ![i].stage = "over"]
  /\ form' = CASE ~posts[i].here -> form
               [] posts[i].answer = "created" -> [Blank EXCEPT !.error = form.error]
               [] OTHER -> [form EXCEPT !.error = TRUE]
  /\ UNCHANGED <<page, diskVars, deviceStep, deviceScan, acts>>

UserStep ==
  \/ \E p \in {"disk", "device", "elsewhere"} : Go(p)
  \/ Reload
  \/ ScanDisks
  \/ \E d \in Disks : Toggle(d)
  \/ SaveDisks
  \/ ScanDevices
  \/ \E open \in BOOLEAN : Dialog(open)
  \/ \E name \in Devices \union {NoName}, address \in BOOLEAN : Fill(name, address)
  \/ Submit

PostStep == \E i \in Posts : Serve(i) \/ Lose(i) \/ Added(i)

Next == UserStep \/ PostStep \/ DisksListed \/ DiskTimer \/ DevicesListed \/ DeviceTimer

(* A request is answered, or the browser gives it up; timers go off.       *)
Fairness ==
  /\ WF_vars(DisksListed) /\ WF_vars(DiskTimer)
  /\ WF_vars(DevicesListed) /\ WF_vars(DeviceTimer)

Spec == Init /\ [][Next]_vars /\ Fairness

--------------------------------------------------------------------------------
(* Types; there is a selection only where it can be seen, a scan of devices *)
(* and a dialog only on their page, and what is listed has been stored.     *)
TypeOK ==
  /\ page \in {"disk", "device", "elsewhere"}
  /\ scanStep \in 0 .. 2 /\ deviceStep \in 0 .. 2
  /\ stored \subseteq Disks /\ disks \in {{}, stored}
  /\ selected \subseteq Disks /\ (selected # {} => Shows(2))
  /\ asking \in 0 .. MaxScans /\ waiting \in 0 .. MaxScans
  /\ asking + waiting <= MaxScans
  /\ deviceScan \in {"none", "asked", "waiting"}
  /\ deviceScan # "none" <=> deviceStep = 1
  /\ deviceStep # 0 => page = "device"
  /\ form.name \in Devices \union {NoName}
  /\ form.open => deviceStep = 2
  /\ \A i \in Posts : posts[i].here => deviceStep = 2
  /\ saved \subseteq Disks /\ quiet \in BOOLEAN
  /\ acts \in 0 .. MaxActs

(* The disks a user saves stay saved until the user starts another scan,   *)
(* if no scan was unanswered at the time: scans begun by coming back to    *)
(* the page and timers that go off late do not bring the full list back.   *)
(* (A scan that was left and not answered when the disks were saved does.) *)
SavedStaySaved == quiet => stored = saved /\ disks \in {{}, saved}

(* Nobody is left on the screen that says "Scanning for disks": whether or *)
(* not a scan finds anything, its results follow, unless the page is left. *)
ScanLeadsOn ==
  /\ Shows(1) ~> ~Shows(1)
  /\ deviceStep = 1 ~> deviceStep # 1

(* What the dialog tells of a device is so, however posts overlap: what was *)
(* refused is not in the table, and if the device submitted last was        *)
(* refused or its answer lost, the dialog says so until the next attempt,   *)
(* although a late success of an earlier one closes and empties it.  (That  *)
(* something was created need not mean that it is in the table.)            *)
AnswersAreTrue ==
  \A i \in Posts :
    /\ posts[i].answer = "refused" => posts[i].rows = 0
    /\ /\ posts[i].stage = "over" /\ posts[i].here
       /\ posts[i].answer \in {"refused", "lost"}
       /\ \A j \in Posts : j > i => posts[j].stage = "none"
       => form.error
================================================================================
