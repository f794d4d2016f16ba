------------------------------ MODULE FileExplorer ------------------------------
(***************************************************************************)
(* The file explorer of the app: where the user is, what is shown, and     *)
(* what is done to files (useFileExplorerStore.ts, lib/files.ts, the menu  *)
(* and the hooks that use them, ListFiles of files_api.go).                *)
(*                                                                         *)
(* A handler runs from one await to the next without interruption.  A file *)
(* operation and the code after its await are one step: what could come    *)
(* between commutes with it.  A listing is asked for, read, checked entry  *)
(* by entry and shown in four steps, for here the order does matter; any   *)
(* number of listings may be under way.                                    *)
(*                                                                         *)
(* The tree is the one file system that app and server share: a function   *)
(* from paths, which are sequences of names, to what is there.  The files  *)
(* that an upload writes on arrival are not among the operations.          *)
(***************************************************************************)
EXTENDS Integers, Sequences, FiniteSets

CONSTANTS
  Names,        (* names of files and directories                           *)
  Contents,     (* contents of files that exist at the start                *)
  FirstTree,    (* the tree at the start                                    *)
  Places,       (* paths the user goes to                                   *)
  NewNames,     (* "file", "folder" -> names for new ones, in order         *)
  TypedPaths,   (* what the user types when asked for a name: any path      *)
  DiskPath,     (* device path that is set when a disk is selected          *)
  HomeRoot,     (* the homelib directory of the disk, found later           *)
  NumListings,  (* listings under way at the same time, at most             *)
  NumGestures,  (* clicks and messages that start something, at most        *)
  None          (* no path                                                  *)

Root == <<>>

ASSUME ExplorerAssumption ==
  /\ NumGestures \in Nat /\ NumListings \in Nat \ {0}
  /\ Places \subseteq Seq(Names) /\ DiskPath \in Seq(Names) /\ HomeRoot \in Seq(Names)
  /\ NewNames \in [{"file", "folder"} -> Seq(Names)]
  /\ TypedPaths \subseteq [ups : Nat, down : Seq(Names) \ {<<>>}]
  /\ None \notin Seq(Names)
  /\ \A p \in DOMAIN FirstTree :
       p \in Seq(Names) /\ FirstTree[p] \in Contents \union {"dir", "blank"}
  /\ Root \in DOMAIN FirstTree /\ FirstTree[Root] = "dir"
  /\ \A p \in DOMAIN FirstTree : \A n \in 0 .. Len(p) - 1 :
       SubSeq(p, 1, n) \in DOMAIN FirstTree /\ FirstTree[SubSeq(p, 1, n)] = "dir"
  /\ Contents \cap {"dir", "blank"} = {}

VARIABLES
  tree,         (* path -> "dir", "blank" (an empty new file) or contents   *)
  currentPath, backStack, forwardStack,
  shown,        (* the listing on the screen, with the number of its fetch  *)
  selected,     (* selectedFiles: paths                                     *)
  astray,       (* history: the selection is from a listing of another path *)
  dialog,       (* the menu of the right click on a file is open            *)
  kept,         (* history: the menu of a selected file went without a click *)
  mounted,      (* the home page is on the screen                           *)
  unlisted,     (* history: the path was set without asking for a listing   *)
  asked,        (* listings asked for so far                                *)
  fetches,      (* listings under way                                       *)
  creations,    (* handleNewFile, handleNewFolder between their awaits      *)
  deletions,    (* handleDelete                                             *)
  renames,      (* handleRename                                             *)
  disks,        (* handleDiskSelect waiting for the homelib directory       *)
  gestures      (* clicks and messages that have started something          *)

historyVars == <<currentPath, backStack, forwardStack>>
choiceVars  == <<selected, astray, dialog, kept>>
operationVars == <<creations, deletions, renames>>
vars        == <<tree, historyVars, shown, choiceVars, mounted, unlisted,
                 asked, fetches, operationVars, disks, gestures>>

--------------------------------------------------------------------------------
(* Trees. *)

Parent(p)    == SubSeq(p, 1, Len(p) - 1)
Above(p)     == {SubSeq(p, 1, n) : n \in 0 .. Len(p)}
IsDir(d)     == d \in DOMAIN tree /\ tree[d] = "dir"
Children(d)  == {p \in DOMAIN tree \ {Root} : Parent(p) = d}
Listing(d)   == IF IsDir(d) THEN Children(d) ELSE {}
Under(p)     == {q \in DOMAIN tree : p \in Above(q)}

Removed(p) == [q \in DOMAIN tree \ Under(p) |-> tree[q]]

MadeDirs(p) == [q \in DOMAIN tree \union Above(p) |->
                  IF q \in DOMAIN tree THEN tree[q] ELSE "dir"]

Written(p) == [q \in DOMAIN tree \union {p} |-> IF q = p THEN "blank" ELSE tree[q]]

(* Where q is once p has been moved to r. *)
Moved(q, p, r) == r \o SubSeq(q, Len(p) + 1, Len(q))

Renamed(p, r) ==
  LET rest  == (DOMAIN tree \ Under(p)) \ {r}
      moved == {Moved(q, p, r) : q \in Under(p)}
  IN  [q \in rest \union moved |->
         IF q \in moved THEN tree[CHOOSE o \in Under(p) : Moved(o, p, r) = q] ELSE tree[q]]

(* rename(2): over a file by a file, over an empty directory by a directory. *)
CanRename(p, r) ==
  /\ p \in DOMAIN tree \ {Root}
  /\ r # Root
  /\ IsDir(Parent(r))
  /\ p = r \/ p \notin Above(r)
  /\ \/ r \notin DOMAIN tree
     \/ r = p
     \/ ~IsDir(p) /\ ~IsDir(r)
     \/ IsDir(p) /\ IsDir(r) /\ Children(r) = {}

--------------------------------------------------------------------------------
Init ==
  /\ tree = FirstTree
  /\ currentPath = Root /\ backStack = <<>> /\ forwardStack = <<>>
  /\ shown = [no |-> 0, path |-> Root, here |-> FALSE, files |-> {}]
  /\ selected = <<>> /\ astray = FALSE /\ dialog = FALSE /\ kept = FALSE
  /\ mounted = TRUE
  /\ unlisted = FALSE
  /\ asked = 1
  /\ fetches = {[no |-> 1, path |-> Root, here |-> TRUE, stage |-> "asked", files |-> {}]}
  /\ creations = {} /\ deletions = {} /\ renames = {}
  /\ disks = 0
  /\ gestures = 0

\* Bound on what the user and the server start.
Gesture == gestures < NumGestures /\ gestures' = gestures + 1

(* fetchFiles up to its first await, added to the listings in others.  here *)
(* is history: it was not asked for by an operation that began elsewhere.   *)
AskWith(others, d, here) ==
  /\ Cardinality(others) < NumListings
  /\ asked' = asked + 1
  /\ fetches' = others \union
       {[no |-> asked', path |-> d, here |-> here, stage |-> "asked", files |-> {}]}

Ask(d) == AskWith(fetches, d, TRUE)

\* At the end of an operation that began in d.
AskAfter(d) == AskWith(fetches, d, d = currentPath)

\* Fault: a click outside is not noticed.
ClickUnnoticed == UNCHANGED choiceVars

Deselect == selected' = <<>> /\ astray' = FALSE /\ dialog' = FALSE /\ kept' = FALSE

\* useClickOutside, before the click does what it is meant for.
ClickOutside == IF dialog THEN Deselect ELSE UNCHANGED choiceVars

--------------------------------------------------------------------------------
(* Going places. *)

\* A double click on a directory or a path that is typed.
NavigateTo(p) ==
  /\ mounted
  /\ Gesture
  /\ ClickOutside
  /\ backStack' = Append(backStack, currentPath)
  /\ forwardStack' = <<>>
  /\ currentPath' = p
  /\ unlisted' = FALSE
  /\ Ask(p)
  /\ UNCHANGED <<tree, shown, mounted, operationVars, disks>>

\* Fault: back asks for the listing of the path it leaves.
ListedByBackLeft(prev) == currentPath

ListedByBack(prev) == prev

GoBack ==
  /\ mounted
  /\ Gesture
  /\ backStack # <<>>
  /\ ClickOutside
  /\ currentPath' = backStack[Len(backStack)]
  /\ backStack' = SubSeq(backStack, 1, Len(backStack) - 1)
  /\ forwardStack' = Append(forwardStack, currentPath)
  /\ unlisted' = FALSE
  /\ Ask(ListedByBack(currentPath'))
  /\ UNCHANGED <<tree, shown, mounted, operationVars, disks>>

\* Fault: the path that forward leaves is not kept.
BackAfterForwardLost == backStack

BackAfterForward == Append(backStack, currentPath)

GoForward ==
  /\ mounted
  /\ Gesture
  /\ forwardStack # <<>>
  /\ ClickOutside
  /\ currentPath' = forwardStack[Len(forwardStack)]
  /\ forwardStack' = SubSeq(forwardStack, 1, Len(forwardStack) - 1)
  /\ backStack' = BackAfterForward
  /\ unlisted' = FALSE
  /\ Ask(currentPath')
  /\ UNCHANGED <<tree, shown, mounted, operationVars, disks>>

\* The page goes, and its menu with it; nobody clears what was selected.
RedirectToLogin ==
  /\ Gesture
  /\ dialog' = FALSE /\ astray' = FALSE
  /\ kept' = (selected # <<>>)
  /\ UNCHANGED selected

\* By a click on another page, or because the check of the user has failed,
\* which may be at any time here.
LeaveHome ==
  /\ mounted
  /\ mounted' = FALSE
  /\ \/ ClickOutside /\ UNCHANGED gestures
     \/ RedirectToLogin
  /\ UNCHANGED <<tree, historyVars, shown, unlisted, asked, fetches, operationVars, disks>>

\* The effects of the home page run in order: useLastPath stores the path and
\* the stacks of the store, then HomeView reads them back and asks for a
\* listing.  Nothing older can be found.  The empty path, which can be typed
\* and for which HomeView starts elsewhere, is left out.
MountWith(path, back, forward, others) ==
  LET saved == [lastPath |-> path, backStack |-> back, forwardStack |-> forward] IN
  /\ mounted' = TRUE
  /\ currentPath' = saved.lastPath
  /\ backStack' = saved.backStack
  /\ forwardStack' = saved.forwardStack
  /\ unlisted' = FALSE
  /\ AskWith(others, saved.lastPath, TRUE)

VisitHome ==
  /\ ~mounted
  /\ Gesture
  /\ MountWith(currentPath, backStack, forwardStack, fetches)
  /\ UNCHANGED <<tree, shown, choiceVars, operationVars, disks>>

\* The reload button; it is left alone here while a file operation is under way.
Reload ==
  /\ mounted
  /\ Gesture
  /\ creations = {} /\ deletions = {} /\ renames = {}
  /\ MountWith(Root, <<>>, <<>>, {})
  /\ shown' = [no |-> 0, path |-> Root, here |-> FALSE, files |-> {}]
  /\ Deselect
  /\ disks' = 0
  /\ UNCHANGED <<tree, operationVars>>

\* setCurrentPath and navigate('/'): a listing is asked for only if that
\* brings the home page up.
SetPathAndGoHome(p) ==
  IF mounted
  THEN /\ currentPath' = p
       /\ unlisted' = TRUE
       /\ UNCHANGED <<backStack, forwardStack, mounted, asked, fetches>>
  ELSE MountWith(p, backStack, forwardStack, fetches)

DiskSelect ==
  /\ Gesture
  /\ ClickOutside
  /\ SetPathAndGoHome(DiskPath)
  /\ disks' = disks + 1
  /\ UNCHANGED <<tree, shown, operationVars>>

\* Fault: the path is set without asking whether a directory was found.
DiskRootUnchecked == {HomeRoot, None}

FoundRoots == {HomeRoot}

DiskRoot ==
  /\ disks > 0
  /\ disks' = disks - 1
  /\ \E p \in FoundRoots : SetPathAndGoHome(p)
  /\ UNCHANGED <<tree, shown, choiceVars, operationVars, gestures>>

DiskWithoutRoot ==
  /\ disks > 0
  /\ disks' = disks - 1
  /\ UNCHANGED <<tree, historyVars, shown, choiceVars, mounted, unlisted,
                 asked, fetches, operationVars, gestures>>

--------------------------------------------------------------------------------
(* Listings. *)

\* handleChannelResponse: an upload has been announced as complete.
UploadCompleted ==
  /\ Gesture
  /\ UNCHANGED historyVars
  /\ Ask(currentPath)
  /\ UNCHANGED <<tree, shown, choiceVars, mounted, unlisted, operationVars, disks>>

ListingVars == <<tree, historyVars, choiceVars, mounted, unlisted, asked, operationVars, disks, gestures>>

MovedTo(f, stage, files) ==
  [no |-> f.no, path |-> f.path, here |-> f.here, stage |-> stage, files |-> files]

\* The path is checked and the directory read; a failure answers with none.
ReadDir(f) ==
  /\ f.stage = "asked"
  /\ fetches' = (fetches \ {f}) \union
       {MovedTo(f, IF IsDir(f.path) THEN "read" ELSE "answered", Listing(f.path))}
  /\ UNCHANGED <<ListingVars, shown>>

\* A file that has gone since fails the whole listing.
FileInfos(f) ==
  /\ f.stage = "read"
  /\ fetches' = (fetches \ {f}) \union
       {MovedTo(f, "answered", IF f.files \subseteq DOMAIN tree THEN f.files ELSE {})}
  /\ UNCHANGED <<ListingVars, shown>>

SetFiles(f) ==
  /\ f.stage = "answered"
  /\ shown' = [no |-> f.no, path |-> f.path, here |-> f.here, files |-> f.files]
  /\ fetches' = fetches \ {f}
  /\ UNCHANGED ListingVars

\* A right click on a file: the click is outside of a menu that is open.
HandleContextMenu(p) ==
  /\ mounted
  /\ p \in shown.files
  /\ dialog' = TRUE
  /\ selected' = Append(IF dialog THEN <<>> ELSE selected, p)
  /\ kept' = (kept /\ ~dialog)
  /\ astray' = (shown.path # currentPath)
  /\ UNCHANGED <<tree, historyVars, shown, mounted, unlisted, asked, fetches, operationVars, disks, gestures>>

\* A click outside of the file's menu or of that of the background, which
\* can be open when a file has stayed selected without one.
CloseMenu ==
  /\ mounted
  /\ selected # <<>>
  /\ Deselect
  /\ UNCHANGED <<tree, historyVars, shown, mounted, unlisted, asked, fetches, operationVars, disks, gestures>>

--------------------------------------------------------------------------------
(* File operations. *)

PlaceVars == <<historyVars, shown, choiceVars, mounted, unlisted, disks>>

\* Tells operations apart that are alike.
Unused(ops) ==
  CHOOSE n \in 1 .. NumGestures : \A o \in ops : o.no # n

\* History: the name that was chosen has been taken by another operation.
Overtaken(others) ==
  {[c EXCEPT !.late = @ \/ c.to \in DOMAIN tree' \ DOMAIN tree] : c \in others}

HandleNew(kind) ==
  /\ Gesture
  /\ creations' = creations \union
       {[no |-> Unused(creations), kind |-> kind, dir |-> currentPath, to |-> None, late |-> FALSE]}
  /\ UNCHANGED <<tree, PlaceVars, asked, fetches, deletions, renames>>

IsFree(kind, d, i) == Append(d, NewNames[kind][i]) \notin DOMAIN tree

\* Fault: the first name is taken without a look at the names that are there.
IsFirst(kind, d, i) == i = 1

IsFirstFree(kind, d, i) ==
  IsFree(kind, d, i) /\ \A j \in 1 .. i - 1 : ~IsFree(kind, d, j)

\* Bound: NewNames ends, the numbers in the code do not.
ChooseName(c) ==
  /\ c.to = None
  /\ IsDir(c.dir)
  /\ \E i \in 1 .. Len(NewNames[c.kind]) :
       /\ IsFirstFree(c.kind, c.dir, i)
       /\ creations' = (creations \ {c}) \union
            {[c EXCEPT !.to = Append(c.dir, NewNames[c.kind][i])]}
  /\ UNCHANGED <<tree, PlaceVars, gestures, asked, fetches, deletions, renames>>

\* handleNewFile asks for a listing even then.
NewFails(c) ==
  /\ creations' = creations \ {c}
  /\ UNCHANGED <<tree, PlaceVars, gestures, deletions, renames>>
  /\ IF c.kind = "file" THEN AskAfter(c.dir) ELSE UNCHANGED <<asked, fetches>>

WriteFile(c) ==
  /\ c.kind = "file" /\ c.to # None
  /\ IsDir(c.dir) /\ ~IsDir(c.to)
  /\ tree' = Written(c.to)
  /\ creations' = Overtaken(creations \ {c})
  /\ UNCHANGED <<PlaceVars, gestures, deletions, renames>>
  /\ AskAfter(c.dir)

\* mkdir makes what is missing above it, too.
MakeFolder(c) ==
  /\ c.kind = "folder" /\ c.to # None
  /\ \A d \in Above(c.to) : d \in DOMAIN tree => IsDir(d)
  /\ tree' = MadeDirs(c.to)
  /\ creations' = Overtaken(creations \ {c})
  /\ UNCHANGED <<PlaceVars, gestures, deletions, renames>>
  /\ AskAfter(c.dir)

HandleDelete ==
  /\ dialog
  /\ selected # <<>>
  /\ Gesture
  /\ deletions' = deletions \union {[no |-> Unused(deletions), confirmed |-> FALSE, files |-> selected]}
  /\ UNCHANGED <<tree, PlaceVars, asked, fetches, creations, renames>>

Confirm(d) ==
  /\ ~d.confirmed
  /\ deletions' = (deletions \ {d}) \union {[d EXCEPT !.confirmed = TRUE]}
  /\ UNCHANGED <<tree, PlaceVars, gestures, asked, fetches, creations, renames>>

Cancel(d) ==
  /\ ~d.confirmed
  /\ deletions' = deletions \ {d}
  /\ UNCHANGED <<tree, PlaceVars, gestures, asked, fetches, creations, renames>>

\* The loop of handleDelete goes on to the next file, if there is one.
OneDone(d) ==
  deletions' = (deletions \ {d}) \union
    (IF Len(d.files) > 1 THEN {[d EXCEPT !.files = Tail(@)]} ELSE {})

\* Fault: no listing is asked for after a removal.
NoRefresh == UNCHANGED <<asked, fetches>>

RefreshAfterRemoval == Ask(currentPath)

Remove(d) ==
  /\ d.confirmed
  /\ Head(d.files) \in DOMAIN tree
  /\ tree' = Removed(Head(d.files))
  /\ OneDone(d)
  /\ UNCHANGED <<PlaceVars, gestures, creations, renames>>
  /\ RefreshAfterRemoval

RemoveFails(d) ==
  /\ d.confirmed
  /\ OneDone(d)
  /\ UNCHANGED <<tree, PlaceVars, gestures, asked, fetches, creations, renames>>

\* What is typed is joined to the current path unchecked: leading ".." and
\* names.  (".." alone names a directory that is not empty, which fails.)
NoAnswer == [ups |-> 0, down |-> <<>>]

Up(d, n) == IF n < Len(d) THEN SubSeq(d, 1, Len(d) - n) ELSE Root

Resolved(d, text) == Up(d, text.ups) \o text.down

\* The item is there when one file was selected; the prompt blocks the app.
HandleRename ==
  /\ dialog
  /\ Len(selected) = 1
  /\ Gesture
  /\ \E text \in TypedPaths \union {NoAnswer} :
       renames' = renames \union
         {[no |-> Unused(renames), from |-> selected[1], text |-> text,
           to |-> Resolved(currentPath, text), dir |-> currentPath,
           astray |-> astray \/ unlisted]}
  /\ UNCHANGED <<tree, PlaceVars, asked, fetches, creations, deletions>>

\* Without an answer the new path is the directory's, and ends in a slash.
Rename(r) ==
  /\ CanRename(r.from, r.to)
  /\ IF r.text = NoAnswer THEN IsDir(r.from) ELSE IsDir(r.dir)
  /\ tree' = Renamed(r.from, r.to)
  /\ renames' = renames \ {r}
  /\ creations' = Overtaken(creations)
  /\ UNCHANGED <<PlaceVars, gestures, deletions>>
  /\ AskAfter(r.dir)

RenameFails(r) ==
  /\ renames' = renames \ {r}
  /\ UNCHANGED <<tree, PlaceVars, gestures, creations, deletions>>
  /\ AskAfter(r.dir)

--------------------------------------------------------------------------------
Going ==
  \/ \E p \in Places : NavigateTo(p)
  \/ GoBack \/ GoForward
  \/ LeaveHome \/ VisitHome \/ Reload
  \/ DiskSelect \/ DiskRoot \/ DiskWithoutRoot

ListingStep ==
  \/ UploadCompleted
  \/ \E f \in fetches : ReadDir(f) \/ FileInfos(f) \/ SetFiles(f)

Choosing ==
  \/ \E p \in shown.files : HandleContextMenu(p)
  \/ CloseMenu

Creating ==
  \/ \E kind \in {"file", "folder"} : HandleNew(kind)
  \/ \E c \in creations : ChooseName(c) \/ NewFails(c) \/ WriteFile(c) \/ MakeFolder(c)

Deleting ==
  \/ HandleDelete
  \/ \E d \in deletions : Confirm(d) \/ Cancel(d) \/ Remove(d) \/ RemoveFails(d)

Renaming ==
  \/ HandleRename
  \/ \E r \in renames : Rename(r) \/ RenameFails(r)

Next == Going \/ ListingStep \/ Choosing \/ Creating \/ Deleting \/ Renaming

Spec == Init /\ [][Next]_vars

--------------------------------------------------------------------------------
Path    == Seq(Names)
Numbers == 1 .. NumGestures

ListingRecord == [no : Nat, path : Path, here : BOOLEAN, files : SUBSET Path]

FetchRecord == [no : Nat, path : Path, here : BOOLEAN,
                stage : {"asked", "read", "answered"}, files : SUBSET Path]

CreationRecord == [no : Numbers, kind : {"file", "folder"}, dir : Path,
                   to : Path \union {None}, late : BOOLEAN]

DeletionRecord == [no : Numbers, confirmed : BOOLEAN, files : Seq(Path)]

RenameRecord == [no : Numbers, from : Path, text : [ups : Nat, down : Path], to : Path,
                 dir : Path, astray : BOOLEAN]

(* Types; what was shown or is under way was asked for before. *)
TypeOK ==
  /\ \A p \in DOMAIN tree : p \in Path /\ tree[p] \in Contents \union {"dir", "blank"}
  /\ currentPath \in Path
  /\ backStack \in Seq(Path) /\ forwardStack \in Seq(Path)
  /\ shown \in ListingRecord
  /\ selected \in Seq(Path)
  /\ astray \in BOOLEAN /\ dialog \in BOOLEAN /\ kept \in BOOLEAN
  /\ mounted \in BOOLEAN /\ unlisted \in BOOLEAN
  /\ asked \in Nat
  /\ \A f \in fetches   : f \in FetchRecord /\ f.no <= asked
  /\ shown.no <= asked
  /\ \A c \in creations : c \in CreationRecord
  /\ \A d \in deletions : d \in DeletionRecord
  /\ \A r \in renames   : r \in RenameRecord
  /\ disks \in Nat
  /\ gestures \in 0 .. NumGestures

(* The listing that was asked for last, once it is shown, is what the       *)
(* directory holds, whatever has been done to files meanwhile and in which  *)
(* order operations and answers came: every operation that changes          *)
(* something asks for a listing after it has done so, and not before.  A    *)
(* listing that shows what has gone is therefore one that came late.        *)
LastAskedIsTrue == shown.no = asked => shown.files = Listing(shown.path)

(* And it is of the directory the user is in, unless it was asked for by an *)
(* operation that began elsewhere, or a disk has been selected since.       *)
ShowsWhereItIs ==
  shown.no = asked /\ shown.here /\ ~unlisted => shown.path = currentPath

(* Only the file under the menu that is open is selected: nothing that was  *)
(* chosen before is deleted with it, and Rename means that file.  After a   *)
(* redirect to the log-in page this is not so until the next click outside  *)
(* of a menu.                                                               *)
OneSelected == ~kept => Len(selected) = (IF dialog THEN 1 ELSE 0)

(* A rename goes where the text leads from the file's own directory, so a   *)
(* name alone leaves the file in it, unless the file was chosen from the    *)
(* listing of another directory than the current one, or the path was set   *)
(* by the selection of a disk: going elsewhere closes the menu, and a file  *)
(* that a redirect left selected is never the one that is renamed.  In the  *)
(* two exceptions even a name alone moves the file (lib/files.ts:219).      *)
RenamesFromItsDirectory ==
  \A r \in renames : r.astray \/ r.to = Resolved(Parent(r.from), r.text)

(* Contents get lost only by a deletion that was confirmed, by a rename to  *)
(* the name of the file, or by a new file whose name has been taken between *)
(* its choice and its use (lib/files.ts:140).                               *)
LostByRequest(p) ==
  \/ \E d \in deletions : d.confirmed /\ Head(d.files) \in Above(p)
  \/ \E r \in renames : r.to = p
  \/ \E c \in creations : c.to = p /\ c.late

OnlyByRequest ==
  [][\A p \in DOMAIN tree :
       tree[p] \in Contents /\ (\A q \in DOMAIN tree' : tree'[q] # tree[p]) =>
         LostByRequest(p)]_vars

(* Back and forward are those of a browser. *)
Reversed(s) == [i \in 1 .. Len(s) |-> s[Len(s) + 1 - i]]

History == INSTANCE BrowserHistory WITH
  Places <- Places \union {Root, DiskPath, HomeRoot},
  Start  <- Root,
  trail  <- backStack \o <<currentPath>> \o Reversed(forwardStack),
  at     <- Len(backStack) + 1

KeepsHistory == History!Spec
================================================================================
