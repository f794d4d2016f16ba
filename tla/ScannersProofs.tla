----------------------------- MODULE ScannersProofs -----------------------------
(***************************************************************************)
(* Proofs about Scanners, for any disks and devices, and any number of     *)
(* scans, submissions and acts of the user.                                *)
(***************************************************************************)
EXTENDS Scanners, TLAPS

--------------------------------------------------------------------------------
(* The inductive invariant, in three parts. *)

Post == [stage : {"none", "sent", "answered", "over"}, name : Devices \union {NoName},
         address : BOOLEAN, here : BOOLEAN,
         answer : {"none", "refused", "created", "lost"}, rows : {0, 1}]

Form == [open : BOOLEAN, name : Devices \union {NoName}, address : BOOLEAN, error : BOOLEAN]

TypeInv ==
  /\ TypeOK
  /\ asking \in Nat /\ waiting \in Nat /\ acts \in Nat
  /\ form \in Form
  /\ posts \in [Posts -> Post]

(* No scan is unanswered, and none will begin when the page comes up.      *)
DisksInv ==
  quiet => /\ asking = 0
           /\ scanStep # 1
           /\ stored = saved
           /\ disks \in {{}, saved}

(* Submissions are numbered in the order they are made in.                 *)
InOrder == \A i, j \in Posts : i < j /\ posts[i].stage = "none" => posts[j].stage = "none"

PostsInv == InOrder /\ AnswersAreTrue

--------------------------------------------------------------------------------
(* Types. *)

(* Who leaves the device page leaves it closed, and its submissions behind. *)
LEMMA LeaveDevicePageType ==
  ASSUME posts \in [Posts -> Post], LeaveDevicePage
  PROVE  /\ deviceStep' = 0 /\ deviceScan' = "none"
         /\ form' \in Form /\ ~form'.open /\ form'.name = NoName
         /\ posts' \in [Posts -> Post] /\ \A i \in Posts : ~posts'[i].here
BY DEF LeaveDevicePage, Blank, Form, Post

(* The types hold at first. *)
LEMMA TypeInit == Init => TypeInv
<1> SUFFICES ASSUME Init PROVE TypeInv
  OBVIOUS
<1>1. form \in Form /\ posts \in [Posts -> Post]
  BY DEF Init, Form, Blank, Post, NoPost
<1>2. ~form.open /\ form.name = NoName /\ \A i \in Posts : ~posts[i].here
  BY DEF Init, Blank, NoPost
<1>3. quiet \in BOOLEAN
  BY Zenon DEF Init
<1>4. TypeOK
  BY <1>2, <1>3, ScannersAssumption DEF Init, TypeOK, Shows
<1> QED
  BY <1>1, <1>4 DEF TypeInv, Init

(* What the user does keeps the types. *)
LEMMA TypeUser ==
  ASSUME TypeInv, UserStep
  PROVE  TypeInv'
<1> USE ScannersAssumption
<1>1. ASSUME NEW p \in {"disk", "device", "elsewhere"}, Go(p)
      PROVE  TypeInv'
  <2>1. LeaveDevicePage /\ Act
    BY <1>1 DEF Go
  <2> QED
    BY <1>1, <2>1, LeaveDevicePageType DEF TypeInv, TypeOK, Go, Act, MountDiskPage, Shows
<1>2. CASE Reload
  <2>1. LeaveDevicePage /\ Act
    BY <1>2 DEF Reload
  <2> QED
    BY <1>2, <2>1, LeaveDevicePageType DEF TypeInv, TypeOK, Reload, Act, Shows
<1>3. CASE ScanDisks
  <2>1. quiet' \in BOOLEAN
    BY <1>3, Zenon DEF ScanDisks
  <2> QED
    BY <1>3, <2>1 DEF TypeInv, TypeOK, ScanDisks, Act, Shows, deviceVars
<1>4. ASSUME NEW d \in Disks, Toggle(d)
      PROVE  TypeInv'
  BY <1>4 DEF TypeInv, TypeOK, Toggle, Act, Shows, deviceVars
<1>5. CASE SaveDisks
  BY <1>5 DEF TypeInv, TypeOK, SaveDisks, SetDisks, StepAfterSave, Act, Shows, deviceVars
<1>6. CASE ScanDevices
  BY <1>6 DEF TypeInv, TypeOK, ScanDevices, Act, Shows, diskVars
<1>7. ASSUME NEW open \in BOOLEAN, Dialog(open)
      PROVE  TypeInv'
  <2>1. form' \in Form /\ form'.name = form.name
    BY <1>7 DEF TypeInv, Dialog, Form
  <2> QED
    BY <1>7, <2>1 DEF TypeInv, TypeOK, Dialog, Act, Shows, diskVars
<1>8. ASSUME NEW name \in Devices \union {NoName}, NEW address \in BOOLEAN, Fill(name, address)
      PROVE  TypeInv'
  <2>1. form' \in Form /\ form'.open = form.open /\ form'.name = name
    BY <1>8 DEF TypeInv, Fill, Form
  <2> QED
    BY <1>8, <2>1 DEF TypeInv, TypeOK, Fill, Act, Shows, diskVars
<1>9. CASE Submit
  <2>1. (form.name = NoName) \in BOOLEAN
    OBVIOUS
  <2>2. form' \in Form /\ form'.open = form.open /\ form'.name = form.name
    BY <1>9, <2>1 DEF TypeInv, Submit, Form
  <2>3. deviceStep = 2
    BY <1>9 DEF TypeInv, TypeOK, Submit
  <2>4. [NoPost EXCEPT !.stage = "sent", !.name = form.name,
                       !.address = form.address, !.here = TRUE] \in Post
    BY DEF TypeInv, Form, Post, NoPost
  <2>5. posts' \in [Posts -> Post]
    BY <1>9, <2>4 DEF TypeInv, Submit
  <2> QED
    BY <1>9, <2>2, <2>3, <2>5 DEF TypeInv, TypeOK, Submit, Act, Shows, diskVars
<1> QED
  BY <1>1, <1>2, <1>3, <1>4, <1>5, <1>6, <1>7, <1>8, <1>9 DEF UserStep

(* A device that is refused adds no row. *)
LEMMA OutcomeTypes ==
  ASSUME NEW p, NEW o \in AddDevice(p)
  PROVE  /\ o.answer \in {"refused", "created"} /\ o.rows \in {0, 1}
         /\ o.answer = "refused" => o.rows = 0
BY DEF AddDevice, Outcome

(* What becomes of submissions keeps the types. *)
LEMMA TypePosts ==
  ASSUME TypeInv, PostStep
  PROVE  TypeInv'
<1>1. ASSUME NEW i \in Posts, Serve(i)
      PROVE  TypeInv'
  <2>1. PICK o \in AddDevice(posts[i]) :
          posts' = [posts EXCEPT ![i].stage = "answered",
                                 ![i].answer = o.answer, ![i].rows = o.rows]
    BY <1>1 DEF Serve
  <2>2. o.answer \in {"refused", "created"} /\ o.rows \in {0, 1}
    BY OutcomeTypes
  <2>3. [posts[i] EXCEPT !.stage = "answered", !.answer = o.answer, !.rows = o.rows] \in Post
    BY <2>2 DEF TypeInv, Post
  <2>4. posts' \in [Posts -> Post]
    BY <2>1, <2>3 DEF TypeInv
  <2>5. \A j \in Posts : posts'[j].here = posts[j].here
    BY <2>1 DEF TypeInv, Post
  <2> QED
    BY <1>1, <2>4, <2>5 DEF TypeInv, TypeOK, Serve, Shows, diskVars
<1>2. ASSUME NEW i \in Posts, Lose(i)
      PROVE  TypeInv'
  <2>1. posts' \in [Posts -> Post] /\ \A j \in Posts : posts'[j].here = posts[j].here
    BY <1>2 DEF TypeInv, Lose, Post
  <2> QED
    BY <1>2, <2>1 DEF TypeInv, TypeOK, Lose, Shows, diskVars
<1>3. ASSUME NEW i \in Posts, Added(i)
      PROVE  TypeInv'
  <2>1. posts' \in [Posts -> Post] /\ \A j \in Posts : posts'[j].here = posts[j].here
    BY <1>3 DEF TypeInv, Added, Post
  <2>2. /\ form' \in Form /\ form'.name \in {form.name, NoName}
        /\ form'.open => form.open
    BY <1>3 DEF TypeInv, Added, Form, Blank
  <2> QED
    BY <1>3, <2>1, <2>2 DEF TypeInv, TypeOK, Added, Shows, diskVars
<1> QED
  BY <1>1, <1>2, <1>3 DEF PostStep

(* Every step keeps the types. *)
LEMMA TypeStep ==
  ASSUME TypeInv, [Next]_vars
  PROVE  TypeInv'
<1> USE ScannersAssumption
<1>1. CASE UserStep
  BY <1>1, TypeUser
<1>2. CASE PostStep
  BY <1>2, TypePosts
<1>3. CASE DisksListed
  BY <1>3 DEF TypeInv, TypeOK, DisksListed, Answered, Found, NotFound, SetDisks, Shows, deviceVars
<1>4. CASE DiskTimer
  BY <1>4 DEF TypeInv, TypeOK, DiskTimer, Shows, deviceVars
<1>5. CASE DevicesListed
  BY <1>5 DEF TypeInv, TypeOK, DevicesListed, Shows, diskVars
<1>6. CASE DeviceTimer
  BY <1>6 DEF TypeInv, TypeOK, DeviceTimer, Shows, diskVars
<1>7. CASE UNCHANGED vars
  BY <1>7 DEF TypeInv, TypeOK, Shows, vars, diskVars, deviceVars
<1> QED
  BY <1>1, <1>2, <1>3, <1>4, <1>5, <1>6, <1>7 DEF Next

--------------------------------------------------------------------------------
(* Disks. *)

(* Every step keeps what is known of the disks once they were saved. *)
LEMMA DisksStep ==
  ASSUME TypeInv, DisksInv, [Next]_vars
  PROVE  DisksInv'
<1>1. CASE UserStep
  <2>1. ASSUME NEW p \in {"disk", "device", "elsewhere"}, Go(p)
        PROVE  DisksInv'
    BY <2>1 DEF DisksInv, Go, MountDiskPage
  <2>2. CASE Reload
    BY <2>2 DEF DisksInv, Reload
  <2>3. CASE ScanDisks
    BY <2>3 DEF DisksInv, ScanDisks
  <2>4. ASSUME NEW d \in Disks, Toggle(d)
        PROVE  DisksInv'
    BY <2>4 DEF DisksInv, Toggle
  <2>5. CASE SaveDisks
    <3>1. quiet' => asking = 0
      BY <2>5 DEF SaveDisks
    <3> QED
      BY <2>5, <3>1 DEF DisksInv, SaveDisks, SetDisks, StepAfterSave
  <2>6. CASE UNCHANGED diskVars
    BY <2>6 DEF DisksInv, diskVars
  <2> QED
    BY <1>1, <2>1, <2>2, <2>3, <2>4, <2>5, <2>6
       DEF UserStep, ScanDevices, Dialog, Fill, Submit
<1>2. CASE DisksListed
  BY <1>2 DEF DisksInv, DisksListed
<1>3. CASE DiskTimer
  BY <1>3 DEF DisksInv, DiskTimer
<1>4. CASE UNCHANGED diskVars
  BY <1>4 DEF DisksInv, diskVars
<1>5. PostStep \/ DevicesListed \/ DeviceTimer \/ UNCHANGED vars => UNCHANGED diskVars
  BY DEF PostStep, Serve, Lose, Added, DevicesListed, DeviceTimer, vars
<1> QED
  BY <1>1, <1>2, <1>3, <1>4, <1>5 DEF Next

--------------------------------------------------------------------------------
(* Devices. *)

(* A step that leaves the submissions and the error as they are, or takes  *)
(* the page they were made on away.                                        *)
LEMMA PostsQuiet ==
  ASSUME PostsInv, posts' = posts, form'.error = form.error
  PROVE  PostsInv'
BY DEF PostsInv, InOrder, AnswersAreTrue

(* Who leaves the device page keeps the order of submissions. *)
LEMMA PostsLeft ==
  ASSUME TypeInv, PostsInv, LeaveDevicePage
  PROVE  PostsInv'
<1>1. \A i \in Posts : /\ ~posts'[i].here /\ posts'[i].stage = posts[i].stage
                       /\ posts'[i].answer = posts[i].answer /\ posts'[i].rows = posts[i].rows
  BY DEF TypeInv, LeaveDevicePage, Post
<1> QED
  BY <1>1 DEF PostsInv, InOrder, AnswersAreTrue

(* So does a submission: it has the next number. *)
LEMMA PostsSubmit ==
  ASSUME TypeInv, PostsInv, Submit
  PROVE  PostsInv'
<1>1. CASE form.name = NoName
  <2>1. posts' = posts /\ form'.error
    BY <1>1 DEF Submit, TypeInv, Form
  <2> QED
    BY <2>1 DEF PostsInv, InOrder, AnswersAreTrue
<1>2. CASE form.name # NoName
  <2>1. PICK i \in Posts :
          /\ posts[i].stage = "none"
          /\ \A j \in Posts : j < i => posts[j].stage # "none"
          /\ posts' = [posts EXCEPT ![i] =
               [NoPost EXCEPT !.stage = "sent", !.name = form.name,
                              !.address = form.address, !.here = TRUE]]
    BY <1>2 DEF Submit
  <2>2. posts'[i].stage = "sent" /\ posts'[i].answer = "none"
    BY <2>1 DEF TypeInv, NoPost
  <2>3. \A j \in Posts : j # i => posts'[j] = posts[j]
    BY <2>1 DEF TypeInv
  <2>4. \A j \in Posts : j > i => posts[j].stage = "none"
    BY <2>1 DEF PostsInv, InOrder, Posts
  <2>5. InOrder'
    BY <2>1, <2>2, <2>3 DEF PostsInv, InOrder, Posts
  <2>6. ASSUME NEW j \in Posts, posts'[j].stage = "over",
               \A k \in Posts : k > j => posts'[k].stage = "none"
        PROVE  FALSE
    BY <2>1, <2>2, <2>3, <2>4, <2>6 DEF Posts
  <2>7. \A j \in Posts : posts'[j].answer = "refused" => posts'[j].rows = 0
    BY <2>2, <2>3 DEF PostsInv, AnswersAreTrue
  <2> QED
    BY <2>5, <2>6, <2>7 DEF PostsInv, AnswersAreTrue
<1> QED
  BY <1>1, <1>2

(* So does everything else that the user does. *)
LEMMA PostsUser ==
  ASSUME TypeInv, PostsInv, UserStep
  PROVE  PostsInv'
<1>1. ASSUME NEW p \in {"disk", "device", "elsewhere"}, Go(p)
      PROVE  PostsInv'
  BY <1>1, PostsLeft DEF Go
<1>2. CASE Reload
  BY <1>2, PostsLeft DEF Reload
<1>3. CASE \/ ScanDisks \/ SaveDisks \/ ScanDevices
           \/ \E d \in Disks : Toggle(d)
  BY <1>3, PostsQuiet DEF ScanDisks, SaveDisks, ScanDevices, Toggle, deviceVars
<1>4. ASSUME NEW open \in BOOLEAN, Dialog(open)
      PROVE  PostsInv'
  BY <1>4, PostsQuiet DEF Dialog, TypeInv, Form
<1>5. ASSUME NEW name \in Devices \union {NoName}, NEW address \in BOOLEAN, Fill(name, address)
      PROVE  PostsInv'
  BY <1>5, PostsQuiet DEF Fill, TypeInv, Form
<1>6. CASE Submit
  BY <1>6, PostsSubmit
<1> QED
  BY <1>1, <1>2, <1>3, <1>4, <1>5, <1>6 DEF UserStep

(* So does everything that becomes of submissions. *)
LEMMA PostsServed ==
  ASSUME TypeInv, PostsInv, PostStep
  PROVE  PostsInv'
<1>1. ASSUME NEW i \in Posts, Serve(i)
      PROVE  PostsInv'
  <2>1. PICK o \in AddDevice(posts[i]) :
          posts' = [posts EXCEPT ![i].stage = "answered",
                                 ![i].answer = o.answer, ![i].rows = o.rows]
    BY <1>1 DEF Serve
  <2>2. /\ posts'[i].stage = "answered"
        /\ posts'[i].answer = "refused" => posts'[i].rows = 0
    BY <2>1, OutcomeTypes DEF TypeInv, Post
  <2>3. \A j \in Posts : j # i => posts'[j] = posts[j]
    BY <2>1 DEF TypeInv
  <2>4. posts[i].stage = "sent" /\ form' = form
    BY <1>1 DEF Serve
  <2> QED
    BY <2>2, <2>3, <2>4 DEF PostsInv, InOrder, AnswersAreTrue
<1>2. ASSUME NEW i \in Posts, Lose(i)
      PROVE  PostsInv'
  <2>1. posts'[i].stage = "answered" /\ posts'[i].answer = "lost"
    BY <1>2 DEF Lose, TypeInv, Post
  <2>2. \A j \in Posts : j # i => posts'[j] = posts[j]
    BY <1>2 DEF Lose, TypeInv
  <2>3. posts[i].stage # "none" /\ form' = form
    BY <1>2 DEF Lose
  <2> QED
    BY <2>1, <2>2, <2>3 DEF PostsInv, InOrder, AnswersAreTrue
<1>3. ASSUME NEW i \in Posts, Added(i)
      PROVE  PostsInv'
  <2>1. /\ posts'[i].stage = "over" /\ posts'[i].here = posts[i].here
        /\ posts'[i].answer = posts[i].answer /\ posts'[i].rows = posts[i].rows
    BY <1>3 DEF Added, TypeInv, Post
  <2>2. \A j \in Posts : j # i => posts'[j] = posts[j]
    BY <1>3 DEF Added, TypeInv
  <2>3. posts[i].stage = "answered"
    BY <1>3 DEF Added
  <2>4. form.error => form'.error
    BY <1>3 DEF Added, TypeInv, Form, Blank
  <2>5. posts[i].here /\ posts[i].answer \in {"refused", "lost"} => form'.error
    BY <1>3 DEF Added, TypeInv, Form
  <2>6. InOrder'
    BY <2>1, <2>2, <2>3 DEF PostsInv, InOrder
  <2>7. \A j \in Posts : \/ posts'[j].stage = "none" /\ posts[j].stage = "none"
                         \/ posts'[j].stage # "none" /\ posts[j].stage # "none"
    BY <2>1, <2>2, <2>3
  <2> QED
    BY <2>1, <2>2, <2>4, <2>5, <2>6, <2>7 DEF PostsInv, AnswersAreTrue
<1> QED
  BY <1>1, <1>2, <1>3 DEF PostStep

(* So does every step. *)
LEMMA PostsStep ==
  ASSUME TypeInv, PostsInv, [Next]_vars
  PROVE  PostsInv'
<1>1. CASE UserStep
  BY <1>1, PostsUser
<1>2. CASE PostStep
  BY <1>2, PostsServed
<1>3. CASE DisksListed \/ DiskTimer \/ DevicesListed \/ DeviceTimer \/ UNCHANGED vars
  BY <1>3, PostsQuiet DEF DisksListed, DiskTimer, DevicesListed, DeviceTimer, vars, deviceVars
<1> QED
  BY <1>1, <1>2, <1>3 DEF Next

--------------------------------------------------------------------------------
(* The invariant always holds. *)
LEMMA Always == Spec => [](TypeInv /\ DisksInv /\ PostsInv)
<1>1. Init => TypeInv /\ DisksInv /\ PostsInv
  <2>1. Init => DisksInv
    BY DEF Init, DisksInv
  <2>2. Init => PostsInv
    BY DEF Init, PostsInv, InOrder, AnswersAreTrue, NoPost
  <2> QED
    BY <2>1, <2>2, TypeInit
<1>2. TypeInv /\ DisksInv /\ PostsInv /\ [Next]_vars => (TypeInv /\ DisksInv /\ PostsInv)'
  BY TypeStep, DisksStep, PostsStep
<1> QED
  BY <1>1, <1>2, PTL DEF Spec

(* The types, where selections, scans and dialogs can be, and that what is *)
(* listed on the disk page has been stored.                                *)
THEOREM TypeCorrect == Spec => []TypeOK
<1>1. TypeInv => TypeOK
  BY DEF TypeInv
<1> QED
  BY <1>1, Always, PTL

(* Disks that handleSaveDisks saved while no scan was unanswered stay      *)
(* saved until the user starts another scan: the step in the store is not  *)
(* 1 in the meantime, so the page starts none of its own.                  *)
THEOREM SavedStay == Spec => []SavedStaySaved
<1>1. DisksInv => SavedStaySaved
  BY DEF DisksInv, SavedStaySaved
<1> QED
  BY <1>1, Always, PTL

(* What addDevice and AddDevice say of a device is so, for any number of   *)
(* submissions that overlap.                                               *)
THEOREM DialogIsTrue == Spec => []AnswersAreTrue
<1>1. PostsInv => AnswersAreTrue
  BY DEF PostsInv
<1> QED
  BY <1>1, Always, PTL
================================================================================
