--------------------------- MODULE FileExplorerProofs ---------------------------
(***************************************************************************)
(* Proofs about FileExplorer, for any tree, any places and names, and any  *)
(* number of clicks, listings and operations that overlap.                 *)
(***************************************************************************)
EXTENDS FileExplorer, SequenceTheorems, FiniteSetTheorems, TLAPS

--------------------------------------------------------------------------------
(* The inductive invariant. *)

Numbered ==
  /\ asked \in Nat
  /\ \A f \in fetches : f.no \in Nat /\ f.no <= asked
  /\ shown.no \in Nat /\ shown.no <= asked

(* The last listing that was asked for is right once it is read. *)
ReadIsTrue ==
  \A f \in fetches : f.no = asked /\ f.stage # "asked" => f.files = Listing(f.path)

(* And it is the one of the current directory. *)
AskedWhereItIs ==
  \A f \in fetches : f.no = asked /\ f.here /\ ~unlisted => f.path = currentPath

(* A listing has files of its directory only, however old it is. *)
FilesOfItsPath ==
  /\ \A f \in fetches : \A p \in f.files : Parent(p) = f.path
  /\ \A p \in shown.files : Parent(p) = shown.path

Listings == Numbered /\ ReadIsTrue /\ LastAskedIsTrue /\ FilesOfItsPath

PathTypes == currentPath \in Path /\ backStack \in Seq(Path) /\ forwardStack \in Seq(Path)

(* The menu is on the home page, and its file is one of the directory; it   *)
(* is not the only one selected if an earlier menu went without a click.    *)
Chosen ==
  /\ dialog \in BOOLEAN
  /\ dialog => mounted
  /\ dialog /\ ~kept => /\ selected = <<selected[1]>>
                        /\ astray \/ unlisted \/ Parent(selected[1]) = currentPath
  /\ dialog /\ kept => Len(selected) > 1
  /\ ~dialog /\ ~kept => selected = <<>>
  /\ ~dialog /\ kept => Len(selected) > 0

(* The tree has paths; whatever is in it has directories above it (Rooted). *)
TreeTypes ==
  \A p \in DOMAIN tree : p \in Path /\ tree[p] \in Contents \union {"dir", "blank"}

Rooted == \A p \in DOMAIN tree : \A d \in Above(p) : d # p => IsDir(d)

(* Operations under way are told apart: there are no more of a kind than   *)
(* clicks, and a number is left for the next.                              *)
AtMost(S, n) == IsFiniteSet(S) /\ Cardinality(S) <= n

OperationTypes ==
  /\ gestures \in 0 .. NumGestures
  /\ disks \in Nat
  /\ AtMost(creations, gestures) /\ AtMost(deletions, gestures) /\ AtMost(renames, gestures)

(* A name that has been chosen is one in the directory, and whoever has     *)
(* taken it since has been noticed.                                         *)
CreationTypes ==
  \A c \in creations :
    /\ c \in CreationRecord
    /\ c.to = None \/ \E x \in Names : c.to = Append(c.dir, x)
    /\ c.to \in DOMAIN tree => c.late

DeletionTypes == \A d \in deletions : d \in DeletionRecord

RenameTypes == \A r \in renames : r \in RenameRecord

ListingTypes ==
  /\ shown \in ListingRecord
  /\ \A f \in fetches : f \in FetchRecord

ChoiceTypes ==
  /\ selected \in Seq(Path)
  /\ astray \in BOOLEAN /\ dialog \in BOOLEAN /\ kept \in BOOLEAN
  /\ mounted \in BOOLEAN /\ unlisted \in BOOLEAN

Types ==
  /\ TreeTypes /\ Rooted
  /\ OperationTypes /\ CreationTypes /\ DeletionTypes /\ RenameTypes
  /\ ListingTypes /\ ChoiceTypes

IInv ==
  /\ Listings
  /\ AskedWhereItIs /\ ShowsWhereItIs
  /\ PathTypes /\ Chosen
  /\ RenamesFromItsDirectory
  /\ Types

--------------------------------------------------------------------------------
(* Listings. *)

(* A listing of a directory has files of it that are there. *)
LEMMA ChildrenAreThere ==
  ASSUME NEW d
  PROVE  /\ Listing(d) \subseteq DOMAIN tree
         /\ \A p \in Listing(d) : Parent(p) = d
BY DEF Listing, Children

(* Whatever a step does to the tree: it asks afterwards. *)
LEMMA AskKeepsListings ==
  ASSUME Listings, NEW others \in SUBSET fetches, NEW d, NEW here,
         AskWith(others, d, here), shown' = shown
  PROVE  Listings'
<1>1. asked' = asked + 1 /\ asked \in Nat /\ asked' \in Nat
  BY DEF Listings, Numbered, AskWith
<1>2. ASSUME NEW f \in fetches'
      PROVE  \/ f \in fetches /\ f.no < asked'
             \/ f = [no |-> asked', path |-> d, here |-> here, stage |-> "asked", files |-> {}]
  BY <1>1, <1>2 DEF Listings, Numbered, AskWith
<1>3. Numbered'
  BY <1>1, <1>2 DEF Listings, Numbered
<1>4. ReadIsTrue'
  BY <1>1, <1>2 DEF Listings, Numbered, ReadIsTrue
<1>5. LastAskedIsTrue'
  BY <1>1 DEF Listings, Numbered, LastAskedIsTrue
<1>6. FilesOfItsPath'
  BY <1>2 DEF Listings, FilesOfItsPath
<1> QED
  BY <1>3, <1>4, <1>5, <1>6 DEF Listings

(* Steps that touch neither tree nor listings keep what is known of them. *)
LEMMA QuietKeepsListings ==
  ASSUME Listings, UNCHANGED <<tree, asked, fetches, shown>>
  PROVE  Listings'
BY DEF Listings, Numbered, ReadIsTrue, LastAskedIsTrue, FilesOfItsPath,
       Listing, Children, IsDir

(* A listing that moves on keeps its number, and is right if it is the last. *)
LEMMA Replaced ==
  ASSUME Listings, UNCHANGED <<tree, asked, shown>>, NEW f \in fetches, NEW g,
         fetches' = (fetches \ {f}) \union {g},
         g.no = f.no,
         f.no = asked => g.files = Listing(g.path),
         \A p \in g.files : Parent(p) = g.path
  PROVE  Listings'
<1>1. \A d : Listing(d)' = Listing(d)
  BY DEF Listing, Children, IsDir
<1>2. \A e \in fetches' : e = g \/ e \in fetches
  OBVIOUS
<1>3. Numbered'
  <2>1. g.no \in Nat /\ g.no <= asked
    BY DEF Listings, Numbered
  <2> QED
    BY <1>2, <2>1 DEF Listings, Numbered
<1>4. ReadIsTrue'
  BY <1>1, <1>2 DEF Listings, ReadIsTrue
<1>5. LastAskedIsTrue'
  BY <1>1 DEF Listings, LastAskedIsTrue
<1>6. FilesOfItsPath'
  BY <1>2 DEF Listings, FilesOfItsPath
<1> QED
  BY <1>3, <1>4, <1>5, <1>6 DEF Listings

(* A listing that comes, at any time, is true if it is the last. *)
LEMMA ListingKeepsListings ==
  ASSUME Listings, NEW f \in fetches, ReadDir(f) \/ FileInfos(f) \/ SetFiles(f)
  PROVE  Listings'
<1>1. tree' = tree /\ asked' = asked
  BY DEF ReadDir, FileInfos, SetFiles, ListingVars
<1>2. \A d : Listing(d)' = Listing(d)
  BY <1>1 DEF Listing, Children, IsDir
<1>3. f.no \in Nat /\ f.no <= asked
  BY DEF Listings, Numbered
<1>4. CASE ReadDir(f)
  <2> DEFINE g == MovedTo(f, IF IsDir(f.path) THEN "read" ELSE "answered", Listing(f.path))
  <2>1. /\ fetches' = (fetches \ {f}) \union {g} /\ shown' = shown
        /\ g.no = f.no /\ g.path = f.path /\ g.files = Listing(f.path)
    BY <1>4 DEF ReadDir, MovedTo
  <2>2. \A p \in g.files : Parent(p) = g.path
    BY <2>1, ChildrenAreThere
  <2> QED
    BY <1>1, <1>2, <2>1, <2>2, Replaced
<1>5. CASE FileInfos(f)
  <2> DEFINE g == MovedTo(f, "answered", IF f.files \subseteq DOMAIN tree THEN f.files ELSE {})
  <2>1. /\ fetches' = (fetches \ {f}) \union {g} /\ shown' = shown
        /\ g.no = f.no /\ g.path = f.path /\ g.files \subseteq f.files
        /\ f.files \subseteq DOMAIN tree => g.files = f.files
    BY <1>5 DEF FileInfos, MovedTo
  <2>2. f.stage = "read"
    BY <1>5 DEF FileInfos
  <2>3. f.no = asked => g.files = Listing(g.path)
    BY <2>1, <2>2, ChildrenAreThere DEF Listings, ReadIsTrue
  <2>4. \A p \in g.files : Parent(p) = g.path
    BY <2>1 DEF Listings, FilesOfItsPath
  <2> QED
    BY <1>1, <2>1, <2>3, <2>4, Replaced
<1>6. CASE SetFiles(f)
  <2>1. /\ fetches' = fetches \ {f}
        /\ shown' = [no |-> f.no, path |-> f.path, here |-> f.here, files |-> f.files]
        /\ f.stage = "answered"
    BY <1>6 DEF SetFiles
  <2> QED
    BY <1>1, <1>2, <1>3, <2>1
    DEF Listings, Numbered, ReadIsTrue, LastAskedIsTrue, FilesOfItsPath
<1> QED
  BY <1>4, <1>5, <1>6

--------------------------------------------------------------------------------
(* Every step either asks for a listing, moves one on, or leaves alone what *)
(* listings are about.                                                      *)
Asking == \E others \in SUBSET fetches : \E d : \E here : AskWith(others, d, here)

(* A reload asks for the newest listing. *)
LEMMA ReloadStep ==
  ASSUME Listings, Reload
  PROVE  Listings'
<1>1. AskWith({}, Root, TRUE)
  BY DEF Reload, MountWith
<1>2. shown' = [no |-> 0, path |-> Root, here |-> FALSE, files |-> {}]
  BY DEF Reload
<1>3. asked' = asked + 1 /\ asked \in Nat
  BY <1>1 DEF AskWith, Listings, Numbered
<1>4. fetches' = {[no |-> asked', path |-> Root, here |-> TRUE, stage |-> "asked", files |-> {}]}
  BY <1>1 DEF AskWith
<1> QED
  BY <1>2, <1>3, <1>4
  DEF Listings, Numbered, ReadIsTrue, LastAskedIsTrue, FilesOfItsPath

(* Every step keeps what is known of the listings. *)
LEMMA ListingsStep ==
  ASSUME Listings, [Next]_vars
  PROVE  Listings'
<1>1. CASE UNCHANGED vars
  BY <1>1, QuietKeepsListings DEF vars
<1>2. CASE Reload
  BY <1>2, ReloadStep
<1>3. CASE Asking /\ shown' = shown
  BY <1>3, AskKeepsListings DEF Asking
<1>4. CASE UNCHANGED <<tree, asked, fetches, shown>>
  BY <1>4, QuietKeepsListings
<1>5. CASE \E f \in fetches : ReadDir(f) \/ FileInfos(f) \/ SetFiles(f)
  BY <1>5, ListingKeepsListings
<1>6. ASSUME Going
      PROVE  \/ Reload \/ (Asking /\ shown' = shown)
             \/ UNCHANGED <<tree, asked, fetches, shown>>
  <2>1. ASSUME NEW p \in Places, NavigateTo(p) PROVE Asking /\ shown' = shown
    BY <2>1 DEF NavigateTo, Ask, Asking
  <2>2. ASSUME GoBack \/ GoForward \/ VisitHome PROVE Asking /\ shown' = shown
    BY <2>2 DEF GoBack, GoForward, VisitHome, MountWith, Ask, Asking
  <2>3. ASSUME LeaveHome \/ DiskWithoutRoot PROVE UNCHANGED <<tree, asked, fetches, shown>>
    BY <2>3 DEF LeaveHome, DiskWithoutRoot
  <2>4. ASSUME NEW p, SetPathAndGoHome(p), UNCHANGED <<tree, shown>>
        PROVE  (Asking /\ shown' = shown) \/ UNCHANGED <<tree, asked, fetches, shown>>
    BY <2>4 DEF SetPathAndGoHome, MountWith, Asking
  <2>5. ASSUME DiskSelect \/ DiskRoot
        PROVE  (Asking /\ shown' = shown) \/ UNCHANGED <<tree, asked, fetches, shown>>
    BY <2>4, <2>5 DEF DiskSelect, DiskRoot
  <2> QED
    BY <1>6, <2>1, <2>2, <2>3, <2>5 DEF Going
<1>7. ASSUME UploadCompleted \/ Choosing
      PROVE  (Asking /\ shown' = shown) \/ UNCHANGED <<tree, asked, fetches, shown>>
  BY <1>7 DEF UploadCompleted, Choosing, HandleContextMenu, CloseMenu, Ask, Asking
<1>8. ASSUME Creating
      PROVE  (Asking /\ shown' = shown) \/ UNCHANGED <<tree, asked, fetches, shown>>
  BY <1>8 DEF Creating, HandleNew, ChooseName, NewFails, WriteFile, MakeFolder,
              AskAfter, Asking, PlaceVars
<1>9. ASSUME Deleting
      PROVE  (Asking /\ shown' = shown) \/ UNCHANGED <<tree, asked, fetches, shown>>
  BY <1>9 DEF Deleting, HandleDelete, Confirm, Cancel, Remove, RemoveFails,
              RefreshAfterRemoval, Ask, Asking, PlaceVars
<1>10. ASSUME Renaming
       PROVE  (Asking /\ shown' = shown) \/ UNCHANGED <<tree, asked, fetches, shown>>
  BY <1>10 DEF Renaming, HandleRename, Rename, RenameFails, AskAfter, Asking, PlaceVars
<1> QED
  BY <1>1, <1>2, <1>3, <1>4, <1>5, <1>6, <1>7, <1>8, <1>9, <1>10 DEF Next, ListingStep

--------------------------------------------------------------------------------
(* Where the user is. *)

(* The parent of a path made longer by a name is that path. *)
LEMMA ParentOfAppend ==
  ASSUME NEW d \in Path, NEW n \in Names
  PROVE  Parent(Append(d, n)) = d
BY DEF Parent, Path

(* A mounted path leaves paths and stacks well-formed. *)
LEMMA MountedKeepsPaths ==
  ASSUME PathTypes, NEW p \in Path, NEW others,
         MountWith(p, backStack, forwardStack, others)
  PROVE  PathTypes'
BY DEF PathTypes, MountWith

(* So does every step. *)
LEMMA PathTypesStep ==
  ASSUME PathTypes, [Next]_vars
  PROVE  PathTypes'
<1>1. CASE UNCHANGED historyVars
  BY <1>1 DEF historyVars, PathTypes
<1>2. ASSUME NEW p \in Places, NavigateTo(p) PROVE PathTypes'
  BY <1>2, ExplorerAssumption DEF NavigateTo, PathTypes, Path
<1>3. CASE GoBack
  <2>1. backStack[Len(backStack)] \in Path /\ Append(forwardStack, currentPath) \in Seq(Path)
    BY <1>3 DEF GoBack, PathTypes
  <2>2. SubSeq(backStack, 1, Len(backStack) - 1) \in Seq(Path)
    BY <1>3 DEF GoBack, PathTypes
  <2> QED
    BY <1>3, <2>1, <2>2 DEF GoBack, PathTypes
<1>4. CASE GoForward
  <2>1. forwardStack[Len(forwardStack)] \in Path /\ Append(backStack, currentPath) \in Seq(Path)
    BY <1>4 DEF GoForward, PathTypes
  <2>2. SubSeq(forwardStack, 1, Len(forwardStack) - 1) \in Seq(Path)
    BY <1>4 DEF GoForward, PathTypes
  <2> QED
    BY <1>4, <2>1, <2>2 DEF GoForward, PathTypes, BackAfterForward
<1>5. CASE VisitHome
  BY <1>5, MountedKeepsPaths DEF VisitHome, PathTypes
<1>6. CASE Reload
  <2>1. Root \in Path /\ <<>> \in Seq(Path)
    BY DEF Root, Path
  <2> QED
    BY <1>6, <2>1 DEF Reload, MountWith, PathTypes
<1>7. ASSUME NEW p \in Path, SetPathAndGoHome(p) PROVE PathTypes'
  BY <1>7, MountedKeepsPaths DEF SetPathAndGoHome, PathTypes
<1>8. CASE DiskSelect \/ DiskRoot
  BY <1>7, <1>8, ExplorerAssumption DEF DiskSelect, DiskRoot, FoundRoots, Path
<1>9. CASE LeaveHome \/ DiskWithoutRoot \/ ListingStep \/ Choosing
  BY <1>1, <1>9
  DEF LeaveHome, DiskWithoutRoot, ListingStep, UploadCompleted, ReadDir, FileInfos, SetFiles,
      ListingVars, Choosing, HandleContextMenu, CloseMenu
<1>10. CASE Creating
  BY <1>1, <1>10 DEF Creating, HandleNew, ChooseName, NewFails, WriteFile, MakeFolder, PlaceVars
<1>11. CASE Deleting \/ Renaming
  BY <1>1, <1>11 DEF Deleting, HandleDelete, Confirm, Cancel, Remove, RemoveFails,
                     Renaming, HandleRename, Rename, RenameFails, PlaceVars
<1>12. CASE UNCHANGED vars
  BY <1>1, <1>12 DEF vars
<1> QED
  BY <1>2, <1>3, <1>4, <1>5, <1>6, <1>8, <1>9, <1>10, <1>11, <1>12 DEF Next, Going

--------------------------------------------------------------------------------
(* What the menu is about. *)

(* A click outside closes the menu and drops the selection with it. *)
LEMMA ClickIsChosen ==
  ASSUME Chosen, ClickOutside
  PROVE  Chosen'
<1>1. CASE dialog
  BY <1>1 DEF ClickOutside, Deselect, Chosen
<1>2. CASE ~dialog
  BY <1>2 DEF ClickOutside, choiceVars, Chosen
<1> QED
  BY <1>1, <1>2

(* Steps that touch neither the choice nor the listing keep what is known of it. *)
LEMMA QuietKeepsChosen ==
  ASSUME Chosen, UNCHANGED <<choiceVars, mounted, unlisted, currentPath>>
  PROVE  Chosen'
BY DEF Chosen, choiceVars

(* A redirect closes the menu, and what was selected stays. *)
LEMMA RedirectIsChosen ==
  ASSUME Chosen, selected \in Seq(Path), RedirectToLogin
  PROVE  Chosen'
<1>1. selected' = selected /\ dialog' = FALSE
  BY DEF RedirectToLogin
<1>2. CASE selected = <<>>
  <2>1. ~kept'
    BY <1>2 DEF RedirectToLogin
  <2> QED
    BY <1>1, <1>2, <2>1 DEF Chosen
<1>3. CASE selected # <<>>
  <2>1. Len(selected) > 0
    BY <1>3, EmptySeq
  <2>2. kept'
    BY <1>3 DEF RedirectToLogin
  <2> QED
    BY <1>1, <2>1, <2>2 DEF Chosen
<1> QED
  BY <1>2, <1>3

(* A right click adds its file to those that are selected and not cleared. *)
LEMMA MenuIsChosen ==
  ASSUME FilesOfItsPath, Chosen, selected \in Seq(Path), shown \in ListingRecord,
         kept \in BOOLEAN, NEW p \in shown.files, HandleContextMenu(p)
  PROVE  Chosen'
<1>1. PICK s : s = IF dialog THEN <<>> ELSE selected
  OBVIOUS
<1>2. selected' = Append(s, p) /\ dialog' = TRUE /\ mounted' /\ kept' = (kept /\ ~dialog)
  BY <1>1 DEF HandleContextMenu
<1>3. p \in Path
  BY DEF ListingRecord
<1>4. CASE kept'
  <2>1. kept /\ ~dialog
    BY <1>2, <1>4
  <2>2. s = selected /\ Len(selected) > 0
    BY <1>1, <2>1 DEF Chosen
  <2>3. Len(selected') = Len(selected) + 1 /\ Len(selected) \in Nat
    BY <1>2, <1>3, <2>2, AppendProperties
  <2> QED
    BY <1>2, <1>4, <2>2, <2>3 DEF Chosen
<1>5. CASE ~kept'
  <2>1. s = <<>>
    BY <1>1, <1>2, <1>5 DEF Chosen
  <2>2. selected' = <<p>>
    BY <1>2, <2>1
  <2>3. selected'[1] = p /\ selected' = <<selected'[1]>>
    BY <2>2
  <2>4. astray' \/ Parent(p) = currentPath'
    BY DEF HandleContextMenu, FilesOfItsPath, historyVars
  <2>5. PICK q : q = selected'[1]
    OBVIOUS
  <2>6. Parent(selected'[1]) = Parent(p)
    BY <2>3
  <2> QED
    BY <1>2, <1>5, <2>3, <2>4, <2>6 DEF Chosen, Parent
<1> QED
  BY <1>4, <1>5

(* Every step keeps what is known of the file that the menu is about. *)
LEMMA ChosenStep ==
  ASSUME FilesOfItsPath, Chosen, ChoiceTypes, shown \in ListingRecord, [Next]_vars
  PROVE  Chosen'
<1>1. CASE ClickOutside /\ UNCHANGED <<mounted, unlisted, currentPath>>
  BY <1>1, ClickIsChosen
<1>2. CASE UNCHANGED <<choiceVars, mounted, unlisted, currentPath>>
  BY <1>2, QuietKeepsChosen
<1>3. CASE VisitHome
  BY <1>3 DEF VisitHome, Chosen, choiceVars
<1>4. CASE Reload
  BY <1>4 DEF Reload, Deselect, Chosen
<1>5. CASE DiskRoot
  BY <1>5 DEF DiskRoot, SetPathAndGoHome, MountWith, Chosen, choiceVars
<1>6. ASSUME NEW p \in shown.files, HandleContextMenu(p) PROVE Chosen'
  BY <1>6, MenuIsChosen DEF ChoiceTypes
<1>7. CASE UNCHANGED vars
  BY <1>2, <1>7 DEF vars, historyVars
<1>8. CASE Going
  <2>1. ASSUME ClickOutside PROVE Chosen'
    BY <2>1, ClickIsChosen
  <2>2. CASE LeaveHome
    BY <2>1, <2>2, RedirectIsChosen DEF LeaveHome, ChoiceTypes
  <2> QED
    BY <1>2, <1>3, <1>4, <1>5, <1>8, <2>1, <2>2
    DEF Going, NavigateTo, GoBack, GoForward, DiskSelect, DiskWithoutRoot, historyVars
<1>9. CASE CloseMenu
  BY <1>9 DEF CloseMenu, Deselect, Chosen
<1>10. CASE ListingStep \/ Choosing
  BY <1>2, <1>6, <1>9, <1>10
  DEF ListingStep, UploadCompleted, ReadDir, FileInfos, SetFiles, ListingVars, historyVars,
      Choosing
<1>11. CASE Creating
  BY <1>2, <1>11 DEF Creating, HandleNew, ChooseName, NewFails, WriteFile, MakeFolder,
                     PlaceVars, historyVars
<1>12. CASE Deleting \/ Renaming
  BY <1>2, <1>12 DEF Deleting, HandleDelete, Confirm, Cancel, Remove, RemoveFails,
                     Renaming, HandleRename, Rename, RenameFails, PlaceVars, historyVars
<1> QED
  BY <1>7, <1>8, <1>10, <1>11, <1>12 DEF Next

(* Only HandleRename starts a rename. *)
LEMMA MovedStep ==
  ASSUME PathTypes, Chosen, RenamesFromItsDirectory, [Next]_vars
  PROVE  RenamesFromItsDirectory'
<1>1. CASE renames' \subseteq renames
  BY <1>1 DEF RenamesFromItsDirectory, Parent, Resolved, Up
<1>2. CASE HandleRename
  <2>1. PICK text \in TypedPaths \union {NoAnswer} :
          renames' = renames \union
            {[no |-> Unused(renames), from |-> selected[1], text |-> text,
              to |-> Resolved(currentPath, text), dir |-> currentPath,
              astray |-> astray \/ unlisted]}
    BY <1>2 DEF HandleRename
  <2>2. dialog /\ ~kept
    BY <1>2 DEF HandleRename, Chosen
  <2>3. astray \/ unlisted \/ Parent(selected[1]) = currentPath
    BY <2>2 DEF Chosen
  <2>4. ASSUME NEW r \in renames', r \notin renames
        PROVE  r.astray \/ r.to = Resolved(Parent(r.from), r.text)
    <3>1. /\ r.from = selected[1] /\ r.text = text /\ r.to = Resolved(currentPath, text)
          /\ r.astray = (astray \/ unlisted)
      BY <2>1, <2>4
    <3>2. CASE astray \/ unlisted
      BY <3>1, <3>2
    <3>3. CASE Parent(selected[1]) = currentPath
      BY <3>1, <3>3
    <3> QED
      BY <2>3, <3>2, <3>3
  <2> QED
    BY <2>4 DEF RenamesFromItsDirectory, Parent, Resolved, Up
<1>3. CASE UNCHANGED operationVars
  BY <1>1, <1>3 DEF operationVars
<1>4. CASE UNCHANGED vars
  BY <1>3, <1>4 DEF vars
<1>5. CASE Going
  BY <1>3, <1>5 DEF Going, NavigateTo, GoBack, GoForward, LeaveHome, VisitHome, Reload,
                    DiskSelect, DiskRoot, DiskWithoutRoot
<1>6. CASE ListingStep \/ Choosing
  BY <1>3, <1>6 DEF ListingStep, UploadCompleted, ReadDir, FileInfos, SetFiles, ListingVars,
                    Choosing, HandleContextMenu, CloseMenu
<1>7. CASE Creating \/ Deleting
  BY <1>1, <1>7 DEF Creating, HandleNew, ChooseName, NewFails, WriteFile, MakeFolder,
                    Deleting, HandleDelete, Confirm, Cancel, Remove, RemoveFails
<1>8. CASE Renaming
  BY <1>1, <1>2, <1>8 DEF Renaming, Rename, RenameFails
<1> QED
  BY <1>4, <1>5, <1>6, <1>7, <1>8 DEF Next

--------------------------------------------------------------------------------
(* The last listing and the current path. *)

Where == AskedWhereItIs /\ ShowsWhereItIs

(* A listing that is asked for is of the current directory. *)
LEMMA AskIsWhere ==
  ASSUME Numbered, NEW others \in SUBSET fetches, NEW d, NEW here,
         AskWith(others, d, here), shown' = shown, here => d = currentPath'
  PROVE  Where'
<1>1. asked' = asked + 1 /\ asked \in Nat
  BY DEF Numbered, AskWith
<1>2. ASSUME NEW f \in fetches', f.no = asked', f.here
      PROVE  f.path = currentPath'
  <2>1. f \notin fetches
    BY <1>1, <1>2 DEF Numbered
  <2>2. f = [no |-> asked', path |-> d, here |-> here, stage |-> "asked", files |-> {}]
    BY <2>1 DEF AskWith
  <2> QED
    BY <1>2, <2>2
<1>3. shown'.no # asked'
  BY <1>1 DEF Numbered
<1> QED
  BY <1>2, <1>3 DEF Where, AskedWhereItIs, ShowsWhereItIs

(* Steps that neither move nor ask keep where the listings are of. *)
LEMMA QuietKeepsWhere ==
  ASSUME Where, UNCHANGED <<currentPath, unlisted, asked, fetches, shown>>
  PROVE  Where'
BY DEF Where, AskedWhereItIs, ShowsWhereItIs

(* A step that asks for a listing of the current path, or of another one   *)
(* at the end of an operation that began there.                            *)
AskingWhere ==
  /\ \E others \in SUBSET fetches : \E d : \E here :
       AskWith(others, d, here) /\ (here => d = currentPath')
  /\ shown' = shown

(* To mount a path is to go there and to ask for its listing. *)
LEMMA MountedIsWhere ==
  ASSUME NEW p, NEW others \in SUBSET fetches, NEW back, NEW forward,
         MountWith(p, back, forward, others)
  PROVE  AskWith(others, p, TRUE) /\ p = currentPath'
BY DEF MountWith

(* Every step keeps where the listing asked for last is of. *)
LEMMA WhereStep ==
  ASSUME Numbered, Where, [Next]_vars
  PROVE  Where'
<1>1. CASE AskingWhere
  BY <1>1, AskIsWhere DEF AskingWhere
<1>2. CASE UNCHANGED <<currentPath, unlisted, asked, fetches, shown>>
  BY <1>2, QuietKeepsWhere
<1>3. CASE unlisted'
  BY <1>3 DEF Where, AskedWhereItIs, ShowsWhereItIs
<1>4. ASSUME Going PROVE Where'
  <2>1. ASSUME NEW p \in Places, NavigateTo(p) PROVE AskingWhere
    BY <2>1 DEF NavigateTo, Ask, AskingWhere
  <2>2. ASSUME GoBack \/ GoForward PROVE AskingWhere
    BY <2>2 DEF GoBack, GoForward, ListedByBack, Ask, AskingWhere
  <2>3. ASSUME VisitHome PROVE AskingWhere
    BY <2>3, MountedIsWhere DEF VisitHome, AskingWhere
  <2>4. CASE Reload
    <3>1. shown'.here = FALSE
      BY <2>4 DEF Reload
    <3>2. fetches' = {[no |-> asked', path |-> Root, here |-> TRUE, stage |-> "asked", files |-> {}]}
      BY <2>4 DEF Reload, MountWith, AskWith
    <3>3. currentPath' = Root
      BY <2>4 DEF Reload, MountWith
    <3> QED
      BY <3>1, <3>2, <3>3 DEF Where, AskedWhereItIs, ShowsWhereItIs
  <2>5. ASSUME NEW p, SetPathAndGoHome(p), shown' = shown PROVE Where'
    <3>1. CASE mounted
      <4>1. unlisted' = TRUE
        BY <2>5, <3>1 DEF SetPathAndGoHome
      <4> QED
        BY <1>3, <4>1
    <3>2. CASE ~mounted
      <4>1. MountWith(p, backStack, forwardStack, fetches)
        BY <2>5, <3>2 DEF SetPathAndGoHome
      <4>2. AskingWhere
        BY <2>5, <4>1, MountedIsWhere DEF AskingWhere
      <4> QED
        BY <1>1, <4>2
    <3> QED
      BY <3>1, <3>2
  <2>6. CASE DiskSelect \/ DiskRoot
    BY <2>5, <2>6 DEF DiskSelect, DiskRoot
  <2>7. CASE LeaveHome \/ DiskWithoutRoot
    BY <1>2, <2>7 DEF LeaveHome, DiskWithoutRoot, historyVars
  <2> QED
    BY <1>1, <1>4, <2>1, <2>2, <2>3, <2>4, <2>6, <2>7 DEF Going
<1>5. ASSUME NEW f \in fetches, ReadDir(f) \/ FileInfos(f) \/ SetFiles(f) PROVE Where'
  <2>1. UNCHANGED <<currentPath, unlisted, asked>>
    BY <1>5 DEF ReadDir, FileInfos, SetFiles, ListingVars, historyVars
  <2>2. CASE SetFiles(f)
    <3>1. shown' = [no |-> f.no, path |-> f.path, here |-> f.here, files |-> f.files]
          /\ fetches' \subseteq fetches
      BY <2>2 DEF SetFiles
    <3> QED
      BY <2>1, <3>1 DEF Where, AskedWhereItIs, ShowsWhereItIs
  <2>3. CASE ReadDir(f) \/ FileInfos(f)
    <3>0. PICK stage, files :
            fetches' = (fetches \ {f}) \union {MovedTo(f, stage, files)} /\ shown' = shown
      BY <2>3 DEF ReadDir, FileInfos
    <3> DEFINE g == MovedTo(f, stage, files)
    <3>1. /\ fetches' = (fetches \ {f}) \union {g} /\ shown' = shown
          /\ g.no = f.no /\ g.path = f.path /\ g.here = f.here
      BY <3>0 DEF MovedTo
    <3>2. \A e \in fetches' : e = g \/ e \in fetches
      BY <3>1
    <3> QED
      BY <2>1, <3>1, <3>2 DEF Where, AskedWhereItIs, ShowsWhereItIs
  <2> QED
    BY <1>5, <2>2, <2>3
<1>6. ASSUME UploadCompleted PROVE AskingWhere
  BY <1>6 DEF UploadCompleted, Ask, AskingWhere, historyVars
<1>7. CASE Choosing
  BY <1>2, <1>7 DEF Choosing, HandleContextMenu, CloseMenu, historyVars
<1>8. ASSUME NEW d, AskAfter(d), UNCHANGED PlaceVars PROVE AskingWhere
  BY <1>8 DEF AskAfter, AskingWhere, PlaceVars, historyVars
<1>9. ASSUME UNCHANGED PlaceVars, UNCHANGED <<asked, fetches>> PROVE Where'
  BY <1>2, <1>9 DEF PlaceVars, historyVars
<1>10. CASE Creating
  BY <1>1, <1>8, <1>9, <1>10
  DEF Creating, HandleNew, ChooseName, NewFails, WriteFile, MakeFolder
<1>11. ASSUME NEW d, Remove(d) PROVE AskingWhere
  BY <1>11 DEF Remove, RefreshAfterRemoval, Ask, AskingWhere, PlaceVars, historyVars
<1>12. CASE Deleting
  BY <1>1, <1>9, <1>11, <1>12 DEF Deleting, HandleDelete, Confirm, Cancel, RemoveFails
<1>13. CASE Renaming
  BY <1>1, <1>8, <1>9, <1>13 DEF Renaming, HandleRename, Rename, RenameFails
<1>14. CASE UNCHANGED vars
  BY <1>2, <1>14 DEF vars, historyVars
<1> QED
  BY <1>1, <1>4, <1>5, <1>6, <1>7, <1>10, <1>12, <1>13, <1>14 DEF Next, ListingStep

--------------------------------------------------------------------------------
(* Back and forward. *)

(* The trail of KeepsHistory, place by place. *)
Trail(b, c, f) ==
  [i \in 1 .. Len(b) + 1 + Len(f) |->
     IF i <= Len(b) THEN b[i] ELSE IF i = Len(b) + 1 THEN c ELSE f[Len(b) + Len(f) + 2 - i]]

(* The two stacks and the path between them are the trail. *)
LEMMA StacksAreTrail ==
  ASSUME NEW b \in Seq(Path), NEW c \in Path, NEW f \in Seq(Path)
  PROVE  /\ b \o <<c>> \o Reversed(f) = Trail(b, c, f)
         /\ Trail(b, c, f) \in Seq(Path)
         /\ Len(Trail(b, c, f)) = Len(b) + 1 + Len(f)
<1>1. PICK n \in Nat : n = Len(b)
  OBVIOUS
<1>2. PICK m \in Nat : m = Len(f)
  OBVIOUS
<1>3. PICK r : r = Reversed(f)
  OBVIOUS
<1>4. r = [i \in 1 .. m |-> f[m + 1 - i]]
  BY <1>2, <1>3 DEF Reversed
<1>5. \A i \in 1 .. m : m + 1 - i \in 1 .. m /\ f[m + 1 - i] \in Path
  BY <1>2, ElementOfSeq
<1>6. r \in Seq(Path) /\ Len(r) = m
  BY <1>4, <1>5
<1>7. PICK s : s = b \o <<c>>
  OBVIOUS
<1>8. /\ s \in Seq(Path) /\ Len(s) = n + 1
      /\ \A i \in 1 .. n + 1 : s[i] = IF i <= n THEN b[i] ELSE c
  <2>1. <<c>> \in Seq(Path) /\ Len(<<c>>) = 1 /\ <<c>>[1] = c
    OBVIOUS
  <2>2. /\ s \in Seq(Path) /\ Len(s) = n + 1
        /\ \A i \in 1 .. n + 1 : s[i] = IF i <= n THEN b[i] ELSE <<c>>[i - n]
    BY <1>1, <1>7, <2>1, ConcatProperties
  <2>3. ASSUME NEW i \in 1 .. n + 1 PROVE s[i] = IF i <= n THEN b[i] ELSE c
    <3>1. CASE i <= n
      BY <2>2, <3>1
    <3>2. CASE i > n
      <4>1. i - n = 1 /\ s[i] = <<c>>[i - n]
        BY <2>2, <3>2
      <4> QED
        BY <2>1, <3>2, <4>1
    <3> QED
      BY <3>1, <3>2
  <2> QED
    BY <2>2, <2>3
<1>9. PICK t : t = s \o r
  OBVIOUS
<1>10. /\ t \in Seq(Path) /\ Len(t) = n + 1 + m
       /\ \A i \in 1 .. n + 1 + m : t[i] = IF i <= n + 1 THEN s[i] ELSE r[i - (n + 1)]
  <2>1. /\ t \in Seq(Path) /\ Len(t) = Len(s) + Len(r)
        /\ \A i \in 1 .. Len(s) + Len(r) : t[i] = IF i <= Len(s) THEN s[i] ELSE r[i - Len(s)]
    <3>1. s \in Seq(Path) /\ r \in Seq(Path)
      BY <1>6, <1>8
    <3> QED
      BY <1>9, <3>1, ConcatProperties
  <2>2. Len(s) = n + 1 /\ Len(r) = m
    BY <1>6, <1>8
  <2> QED
    BY <2>1, <2>2
<1>11. ASSUME NEW i \in 1 .. n + 1 + m
       PROVE  t[i] = IF i <= n THEN b[i] ELSE IF i = n + 1 THEN c ELSE f[n + m + 2 - i]
  <2>1. CASE i <= n + 1
    BY <1>8, <1>10, <2>1
  <2>2. CASE i > n + 1
    <3>1. PICK j \in 1 .. m : j = i - (n + 1)
      BY <2>2
    <3>2. m + 1 - j = n + m + 2 - i
      BY <3>1
    <3>3. t[i] = r[j]
      <4>1. t[i] = r[i - (n + 1)]
        BY <1>10, <2>2
      <4> QED
        BY <3>1, <4>1
    <3>4. r[j] = f[m + 1 - j]
      BY <1>4
    <3> QED
      BY <2>2, <3>2, <3>3, <3>4
  <2> QED
    BY <2>1, <2>2
<1>12. t = [i \in 1 .. n + 1 + m |->
              IF i <= n THEN b[i] ELSE IF i = n + 1 THEN c ELSE f[n + m + 2 - i]]
  <2>1. t = [i \in 1 .. n + 1 + m |-> t[i]]
    BY <1>10
  <2> QED
    BY <1>11, <2>1
<1>13. t = Trail(b, c, f)
  BY <1>1, <1>2, <1>12 DEF Trail
<1> QED
  BY <1>1, <1>2, <1>3, <1>7, <1>9, <1>10, <1>13

(* Going back and forward moves along the trail: the top of one stack      *)
(* becomes the path, and the path the top of the other (goBack, goForward  *)
(* of useFileExplorerStore.ts).                                            *)
LEMMA TrailShifts ==
  ASSUME NEW b \in Seq(Path), NEW c \in Path, NEW f \in Seq(Path), NEW x \in Path
  PROVE  Trail(Append(b, x), c, f) = Trail(b, x, Append(f, c))
<1>1. PICK n \in Nat : n = Len(b)
  OBVIOUS
<1>2. PICK m \in Nat : m = Len(f)
  OBVIOUS
<1>3. PICK b1 : b1 = Append(b, x)
  OBVIOUS
<1>4. PICK f1 : f1 = Append(f, c)
  OBVIOUS
<1>5. Len(b1) = n + 1 /\ b1[n + 1] = x /\ \A i \in 1 .. n : b1[i] = b[i]
  BY <1>1, <1>3, AppendProperties
<1>6. Len(f1) = m + 1 /\ f1[m + 1] = c /\ \A i \in 1 .. m : f1[i] = f[i]
  BY <1>2, <1>4, AppendProperties
<1>7. ASSUME NEW i \in 1 .. n + m + 2
      PROVE  (IF i <= n + 1 THEN b1[i] ELSE IF i = n + 2 THEN c ELSE f[n + m + 3 - i])
               = (IF i <= n THEN b[i] ELSE IF i = n + 1 THEN x ELSE f1[n + m + 3 - i])
  <2>1. CASE i <= n
    BY <1>5, <2>1
  <2>2. CASE i = n + 1
    BY <1>5, <2>2
  <2>3. CASE i = n + 2
    <3>1. n + m + 3 - i = m + 1
      BY <2>3
    <3> QED
      BY <1>6, <2>3, <3>1
  <2>4. CASE i > n + 2
    <3>1. n + m + 3 - i \in 1 .. m
      BY <2>4
    <3> QED
      BY <1>6, <2>4, <3>1
  <2> QED
    BY <2>1, <2>2, <2>3, <2>4
<1>8. Trail(b1, c, f) = [i \in 1 .. n + m + 2 |->
        IF i <= n + 1 THEN b1[i] ELSE IF i = n + 2 THEN c ELSE f[n + m + 3 - i]]
  <2>1. Len(b1) + 1 + Len(f) = n + m + 2 /\ Len(b1) + 1 = n + 2
    BY <1>2, <1>5
  <2>2. \A i \in 1 .. n + m + 2 : Len(b1) + Len(f) + 2 - i = n + m + 3 - i
    BY <1>2, <1>5
  <2> QED
    BY <1>5, <2>1, <2>2 DEF Trail
<1>9. Trail(b, x, f1) = [i \in 1 .. n + m + 2 |->
        IF i <= n THEN b[i] ELSE IF i = n + 1 THEN x ELSE f1[n + m + 3 - i]]
  <2>1. Len(b) + 1 + Len(f1) = n + m + 2
    BY <1>1, <1>6
  <2>2. \A i \in 1 .. n + m + 2 : Len(b) + Len(f1) + 2 - i = n + m + 3 - i
    BY <1>1, <1>6
  <2> QED
    BY <1>1, <2>1, <2>2 DEF Trail
<1> QED
  BY <1>3, <1>4, <1>7, <1>8, <1>9

(* A visit forgets what lay ahead, and adds the new place. *)
LEMMA TrailOfVisit ==
  ASSUME NEW b \in Seq(Path), NEW c \in Path, NEW f \in Seq(Path), NEW p \in Path
  PROVE  Append(SubSeq(Trail(b, c, f), 1, Len(b) + 1), p) = Trail(Append(b, c), p, <<>>)
<1>1. PICK n \in Nat : n = Len(b)
  OBVIOUS
<1>2. PICK t : t = Trail(b, c, f)
  OBVIOUS
<1>3. t \in Seq(Path) /\ Len(t) = n + 1 + Len(f) /\ Len(f) \in Nat
  <2>1. Trail(b, c, f) \in Seq(Path) /\ Len(Trail(b, c, f)) = Len(b) + 1 + Len(f)
    BY StacksAreTrail
  <2>2. Len(f) \in Nat
    OBVIOUS
  <2> QED
    BY <1>1, <1>2, <2>1, <2>2
<1>4. \A i \in 1 .. n + 1 : t[i] = IF i <= n THEN b[i] ELSE c
  BY <1>1, <1>2, <1>3 DEF Trail
<1>5. PICK s : s = SubSeq(t, 1, n + 1)
  OBVIOUS
<1>6. s \in Seq(Path) /\ Len(s) = n + 1 /\ \A i \in 1 .. n + 1 : s[i] = t[i]
  BY <1>3, <1>5, SubSeqProperties
<1>7. PICK u : u = Append(s, p)
  OBVIOUS
<1>8. u \in Seq(Path) /\ Len(u) = n + 2 /\ u[n + 2] = p /\ \A i \in 1 .. n + 1 : u[i] = s[i]
  BY <1>6, <1>7, AppendProperties
<1>9. PICK b1 : b1 = Append(b, c)
  OBVIOUS
<1>10. Len(b1) = n + 1 /\ b1[n + 1] = c /\ \A i \in 1 .. n : b1[i] = b[i]
  BY <1>1, <1>9, AppendProperties
<1>11. ASSUME NEW i \in 1 .. n + 2 PROVE u[i] = IF i <= n + 1 THEN b1[i] ELSE p
  <2>1. CASE i <= n
    BY <1>4, <1>6, <1>8, <1>10, <2>1
  <2>2. CASE i = n + 1
    BY <1>4, <1>6, <1>8, <1>10, <2>2
  <2>3. CASE i = n + 2
    BY <1>8, <2>3
  <2> QED
    BY <2>1, <2>2, <2>3
<1>12. u = [i \in 1 .. n + 2 |-> IF i <= n + 1 THEN b1[i] ELSE p]
  <2>1. u = [i \in 1 .. n + 2 |-> u[i]]
    BY <1>8
  <2> QED
    BY <1>11, <2>1
<1>13. Trail(b1, p, <<>>) = [i \in 1 .. n + 2 |-> IF i <= n + 1 THEN b1[i] ELSE p]
  <2>1. Len(b1) + 1 + Len(<<>>) = n + 2 /\ Len(b1) + 1 = n + 2
    BY <1>10
  <2>2. \A i \in 1 .. n + 2 : ~(i <= n + 1) => i = n + 2
    OBVIOUS
  <2> QED
    BY <1>10, <2>1, <2>2 DEF Trail
<1> QED
  BY <1>1, <1>2, <1>5, <1>7, <1>9, <1>12, <1>13

(* Another path in the place of the current one. *)
LEMMA TrailOfReplace ==
  ASSUME NEW b \in Seq(Path), NEW c \in Path, NEW f \in Seq(Path), NEW p \in Path
  PROVE  [Trail(b, c, f) EXCEPT ![Len(b) + 1] = p] = Trail(b, p, f)
<1>1. PICK n \in Nat : n = Len(b)
  OBVIOUS
<1>2. PICK m \in Nat : m = Len(f)
  OBVIOUS
<1>3. Trail(b, c, f) = [i \in 1 .. n + 1 + m |->
         IF i <= n THEN b[i] ELSE IF i = n + 1 THEN c ELSE f[n + m + 2 - i]]
  BY <1>1, <1>2 DEF Trail
<1>4. Trail(b, p, f) = [i \in 1 .. n + 1 + m |->
         IF i <= n THEN b[i] ELSE IF i = n + 1 THEN p ELSE f[n + m + 2 - i]]
  BY <1>1, <1>2 DEF Trail
<1>5. PICK t : t = Trail(b, c, f)
  OBVIOUS
<1>6. DOMAIN t = 1 .. n + 1 + m /\ t = [i \in 1 .. n + 1 + m |-> t[i]]
  BY <1>3, <1>5
<1>7. [t EXCEPT ![n + 1] = p] = [i \in 1 .. n + 1 + m |-> IF i = n + 1 THEN p ELSE t[i]]
  BY <1>6
<1>8. ASSUME NEW i \in 1 .. n + 1 + m, i # n + 1
      PROVE  t[i] = IF i <= n THEN b[i] ELSE f[n + m + 2 - i]
  BY <1>3, <1>5, <1>8
<1>9. \A i \in 1 .. n + 1 + m : (IF i = n + 1 THEN p ELSE t[i])
        = (IF i <= n THEN b[i] ELSE IF i = n + 1 THEN p ELSE f[n + m + 2 - i])
  BY <1>8
<1>10. [t EXCEPT ![n + 1] = p] = Trail(b, p, f)
  BY <1>4, <1>7, <1>9
<1> QED
  BY <1>1, <1>5, <1>10

(* A stack is what lies under its top, and the top. *)
LEMMA TopOfStack ==
  ASSUME NEW s \in Seq(Path), NEW n \in Nat, n = Len(s), n > 0
  PROVE  /\ SubSeq(s, 1, n - 1) \in Seq(Path) /\ Len(SubSeq(s, 1, n - 1)) = n - 1
         /\ s[n] \in Path
         /\ Append(SubSeq(s, 1, n - 1), s[n]) = s
<1>1. \A i \in 1 .. n : s[i] \in Path
  BY ElementOfSeq
<1>2. PICK b : b = SubSeq(s, 1, n - 1)
  OBVIOUS
<1>3. b \in Seq(Path) /\ Len(b) = n - 1 /\ \A i \in 1 .. n - 1 : b[i] = s[i]
  BY <1>1, <1>2, SubSeqProperties
<1>4. PICK t : t = Append(b, s[n])
  OBVIOUS
<1>5. /\ t \in Seq(Path) /\ Len(t) = n /\ t[n] = s[n]
      /\ \A i \in 1 .. n - 1 : t[i] = b[i]
  BY <1>1, <1>3, <1>4, AppendProperties
<1>6. \A i \in 1 .. n : t[i] = s[i]
  BY <1>3, <1>5
<1>7. t = s
  BY <1>5, <1>6, SeqEqual
<1> QED
  BY <1>1, <1>2, <1>3, <1>4, <1>7

(* The step of BrowserHistory that a step of the stacks is. *)
TrailNow == Trail(backStack, currentPath, forwardStack)
AtNow    == Len(backStack) + 1

HistoryPlaces == Places \union {Root, DiskPath, HomeRoot}

TrailMoves ==
  \/ \E p \in HistoryPlaces :
       \/ TrailNow' = Append(SubSeq(TrailNow, 1, AtNow), p) /\ AtNow' = AtNow + 1
       \/ TrailNow' = [TrailNow EXCEPT ![AtNow] = p] /\ AtNow' = AtNow
  \/ AtNow > 1 /\ AtNow' = AtNow - 1 /\ TrailNow' = TrailNow
  \/ AtNow < Len(TrailNow) /\ AtNow' = AtNow + 1 /\ TrailNow' = TrailNow
  \/ TrailNow' = <<Root>> /\ AtNow' = 1
  \/ UNCHANGED <<TrailNow, AtNow>>

(* The mapping of KeepsHistory, in terms of the trail. *)
LEMMA MapsToTrail ==
  ASSUME PathTypes, PathTypes', TrailMoves
  PROVE  [History!Next]_(<<backStack \o <<currentPath>> \o Reversed(forwardStack), Len(backStack) + 1>>)
<1>1. backStack \o <<currentPath>> \o Reversed(forwardStack) = TrailNow
  BY StacksAreTrail DEF PathTypes, TrailNow
<1>2. (backStack \o <<currentPath>> \o Reversed(forwardStack))' = TrailNow'
  BY StacksAreTrail DEF PathTypes, TrailNow
<1> QED
  BY <1>1, <1>2 DEF TrailMoves, AtNow, HistoryPlaces, History!Next, History!Visit, History!Replace,
                    History!Back, History!Forward, History!Restart

(* The path is set, and the home page brought up if it is not there. *)
LEMMA SetPathMoves ==
  ASSUME PathTypes, NEW p \in HistoryPlaces, p \in Path, SetPathAndGoHome(p)
  PROVE  TrailMoves
<1>1. UNCHANGED <<backStack, forwardStack>> /\ currentPath' = p
  BY DEF SetPathAndGoHome, MountWith
<1>2. TrailNow' = [TrailNow EXCEPT ![AtNow] = p] /\ AtNow' = AtNow
  <2>1. TrailNow' = Trail(backStack, p, forwardStack)
    BY <1>1 DEF TrailNow
  <2>2. [TrailNow EXCEPT ![AtNow] = p] = Trail(backStack, p, forwardStack)
    BY TrailOfReplace DEF PathTypes, TrailNow, AtNow
  <2> QED
    BY <1>1, <2>1, <2>2 DEF AtNow
<1> QED
  BY <1>2 DEF TrailMoves

(* Every step is a step of BrowserHistory on the stacks, or leaves them. *)
LEMMA HistoryStep ==
  ASSUME PathTypes, PathTypes', [Next]_vars
  PROVE  TrailMoves
<1>0. Len(backStack) \in Nat /\ Len(forwardStack) \in Nat
  BY DEF PathTypes
<1>1. CASE UNCHANGED historyVars
  BY <1>1 DEF historyVars, TrailMoves, TrailNow, AtNow
<1>2. ASSUME NEW p \in Places, NavigateTo(p) PROVE TrailMoves
  <2>1. /\ backStack' = Append(backStack, currentPath) /\ forwardStack' = <<>>
        /\ currentPath' = p
    BY <1>2 DEF NavigateTo
  <2>2. p \in Path /\ p \in HistoryPlaces
    BY ExplorerAssumption DEF Path, HistoryPlaces
  <2>3. TrailNow' = Append(SubSeq(TrailNow, 1, AtNow), p)
    BY <2>1, <2>2, TrailOfVisit DEF PathTypes, TrailNow, AtNow
  <2>4. AtNow' = AtNow + 1
    BY <2>1, AppendProperties DEF PathTypes, AtNow
  <2> QED
    BY <2>2, <2>3, <2>4 DEF TrailMoves
<1>3. CASE GoBack
  <2>1. PICK n \in Nat : n = Len(backStack) /\ n > 0
    BY <1>3, <1>0, EmptySeq DEF GoBack, PathTypes
  <2>2. PICK b : b = SubSeq(backStack, 1, n - 1)
    OBVIOUS
  <2>3. PICK x : x = backStack[n]
    OBVIOUS
  <2>4. /\ backStack' = b /\ currentPath' = x
        /\ forwardStack' = Append(forwardStack, currentPath)
    BY <1>3, <2>1, <2>2, <2>3 DEF GoBack
  <2>5. b \in Seq(Path) /\ x \in Path /\ Len(b) = n - 1 /\ Append(b, x) = backStack
    BY <2>1, <2>2, <2>3, TopOfStack DEF PathTypes
  <2>6. TrailNow' = TrailNow
    <3>0. /\ b \in Seq(Path) /\ x \in Path
          /\ currentPath \in Path /\ forwardStack \in Seq(Path)
      BY <2>5 DEF PathTypes
    <3>1. Trail(Append(b, x), currentPath, forwardStack) = Trail(b, x, Append(forwardStack, currentPath))
      BY <3>0, TrailShifts, Zenon
    <3> QED
      BY <2>4, <2>5, <3>1 DEF TrailNow
  <2>7. AtNow > 1 /\ AtNow' = AtNow - 1
    BY <2>1, <2>4, <2>5 DEF AtNow
  <2> QED
    BY <2>6, <2>7 DEF TrailMoves
<1>4. CASE GoForward
  <2>1. PICK n \in Nat : n = Len(forwardStack) /\ n > 0
    BY <1>4, <1>0, EmptySeq DEF GoForward, PathTypes
  <2>2. PICK f : f = SubSeq(forwardStack, 1, n - 1)
    OBVIOUS
  <2>3. PICK x : x = forwardStack[n]
    OBVIOUS
  <2>4. /\ forwardStack' = f /\ currentPath' = x
        /\ backStack' = Append(backStack, currentPath)
    BY <1>4, <2>1, <2>2, <2>3 DEF GoForward, BackAfterForward
  <2>5. f \in Seq(Path) /\ x \in Path /\ Len(f) = n - 1 /\ Append(f, x) = forwardStack
    BY <2>1, <2>2, <2>3, TopOfStack DEF PathTypes
  <2>6. TrailNow' = TrailNow
    <3>0. /\ f \in Seq(Path) /\ x \in Path
          /\ currentPath \in Path /\ backStack \in Seq(Path)
      BY <2>5 DEF PathTypes
    <3>1. Trail(Append(backStack, currentPath), x, f) = Trail(backStack, currentPath, Append(f, x))
      BY <3>0, TrailShifts, Zenon
    <3> QED
      BY <2>4, <2>5, <3>1 DEF TrailNow
  <2>7. AtNow' = AtNow + 1
    BY <2>4, AppendProperties DEF PathTypes, AtNow
  <2>8. AtNow < Len(TrailNow)
    <3>1. Len(TrailNow) = Len(backStack) + 1 + Len(forwardStack)
      BY StacksAreTrail DEF PathTypes, TrailNow
    <3> QED
      BY <1>0, <2>1, <3>1 DEF AtNow
  <2> QED
    BY <2>6, <2>7, <2>8 DEF TrailMoves
<1>5. CASE VisitHome
  BY <1>1, <1>5 DEF VisitHome, MountWith, historyVars
<1>6. CASE Reload
  <2>1. backStack' = <<>> /\ currentPath' = Root /\ forwardStack' = <<>>
    BY <1>6 DEF Reload, MountWith
  <2>2. TrailNow' = [i \in 1 .. 1 |-> Root] /\ AtNow' = 1
    BY <2>1 DEF TrailNow, AtNow, Trail
  <2>3. <<Root>> = [i \in 1 .. 1 |-> Root]
    OBVIOUS
  <2> QED
    BY <2>2, <2>3 DEF TrailMoves
<1>7. CASE DiskSelect \/ DiskRoot
  <2>1. DiskPath \in Path /\ HomeRoot \in Path /\ {DiskPath, HomeRoot} \subseteq HistoryPlaces
    BY ExplorerAssumption DEF Path, HistoryPlaces
  <2> QED
    BY <1>7, <2>1, SetPathMoves DEF DiskSelect, DiskRoot, FoundRoots
<1>8. CASE LeaveHome \/ DiskWithoutRoot \/ ListingStep \/ Choosing
  BY <1>1, <1>8
  DEF LeaveHome, DiskWithoutRoot, ListingStep, UploadCompleted, ReadDir, FileInfos, SetFiles,
      ListingVars, Choosing, HandleContextMenu, CloseMenu
<1>9. CASE Creating
  BY <1>1, <1>9 DEF Creating, HandleNew, ChooseName, NewFails, WriteFile, MakeFolder, PlaceVars
<1>10. CASE Deleting \/ Renaming
  BY <1>1, <1>10 DEF Deleting, HandleDelete, Confirm, Cancel, Remove, RemoveFails,
                     Renaming, HandleRename, Rename, RenameFails, PlaceVars
<1>11. CASE UNCHANGED vars
  BY <1>1, <1>11 DEF vars
<1> QED
  BY <1>2, <1>3, <1>4, <1>5, <1>6, <1>7, <1>8, <1>9, <1>10, <1>11 DEF Next, Going

--------------------------------------------------------------------------------
(* Paths. *)

(* A path above another is one of its beginnings. *)
LEMMA Beginning ==
  ASSUME NEW p \in Path, NEW n \in Nat, n <= Len(p)
  PROVE  /\ SubSeq(p, 1, n) \in Path /\ Len(SubSeq(p, 1, n)) = n
         /\ \A i \in 1 .. n : SubSeq(p, 1, n)[i] = p[i]
         /\ SubSeq(p, 1, n) \in Above(p)
<1>1. \A i \in 1 .. n : p[i] \in Names
  BY ElementOfSeq DEF Path
<1>2. /\ SubSeq(p, 1, n) \in Path /\ Len(SubSeq(p, 1, n)) = n
      /\ \A i \in 1 .. n : SubSeq(p, 1, n)[i] = p[i]
  BY <1>1, SubSeqProperties DEF Path
<1>3. n \in 0 .. Len(p)
  BY DEF Path
<1> QED
  BY <1>2, <1>3 DEF Above

(* What is above a path are its beginnings. *)
LEMMA AboveIsBeginning ==
  ASSUME NEW p \in Path, NEW d
  PROVE  d \in Above(p) <=> /\ d \in Path /\ Len(d) <= Len(p)
                            /\ \A i \in 1 .. Len(d) : d[i] = p[i]
<1>1. ASSUME d \in Above(p)
      PROVE  d \in Path /\ Len(d) <= Len(p) /\ \A i \in 1 .. Len(d) : d[i] = p[i]
  <2>1. PICK n \in 0 .. Len(p) : d = SubSeq(p, 1, n)
    BY <1>1 DEF Above
  <2>2. n \in Nat /\ n <= Len(p)
    BY <2>1 DEF Path
  <2> QED
    BY <2>1, <2>2, Beginning
<1>2. ASSUME d \in Path, Len(d) <= Len(p), \A i \in 1 .. Len(d) : d[i] = p[i]
      PROVE  d \in Above(p)
  <2>1. PICK n \in Nat : n = Len(d)
    BY <1>2 DEF Path
  <2>2. PICK s : s = SubSeq(p, 1, n)
    OBVIOUS
  <2>3. s \in Path /\ Len(s) = n /\ s \in Above(p) /\ \A i \in 1 .. n : s[i] = p[i]
    BY <1>2, <2>1, <2>2, Beginning
  <2>4. s = d
    <3>1. s \in Seq(Names) /\ d \in Seq(Names) /\ Len(s) = Len(d)
      BY <1>2, <2>1, <2>3 DEF Path
    <3>2. \A i \in 1 .. Len(s) : s[i] = d[i]
      BY <1>2, <2>1, <2>3
    <3> QED
      BY <3>1, <3>2, SeqEqual
  <2> QED
    BY <2>3, <2>4
<1> QED
  BY <1>1, <1>2

(* Beginnings of a path: it is its own longest one, and they form a chain. *)
LEMMA AboveFacts ==
  ASSUME NEW p \in Path
  PROVE  /\ p \in Above(p)
         /\ \A d \in Above(p) : d \in Path /\ Len(d) \in Nat /\ Len(d) <= Len(p)
         /\ \A d \in Above(p) : Len(d) = Len(p) => d = p
         /\ \A d \in Above(p) : Above(d) \subseteq Above(p)
         /\ \A d, e \in Above(p) : Len(d) <= Len(e) => d \in Above(e)
<1>0. Len(p) \in Nat
  BY DEF Path
<1>1. p \in Above(p)
  BY <1>0, AboveIsBeginning
<1>2. ASSUME NEW d \in Above(p) PROVE d \in Path /\ Len(d) \in Nat /\ Len(d) <= Len(p)
  <2>1. d \in Path /\ Len(d) <= Len(p)
    BY AboveIsBeginning
  <2> QED
    BY <2>1 DEF Path
<1>3. ASSUME NEW d \in Above(p), Len(d) = Len(p) PROVE d = p
  <2>1. d \in Path /\ \A i \in 1 .. Len(d) : d[i] = p[i]
    BY AboveIsBeginning
  <2> QED
    BY <1>3, <2>1, SeqEqual DEF Path
<1>4. ASSUME NEW d \in Above(p), NEW e \in Above(d) PROVE e \in Above(p)
  <2>1. d \in Path /\ Len(d) \in Nat /\ Len(d) <= Len(p) /\ \A i \in 1 .. Len(d) : d[i] = p[i]
    BY <1>2, AboveIsBeginning
  <2>2. e \in Path /\ Len(e) <= Len(d) /\ \A i \in 1 .. Len(e) : e[i] = d[i]
    BY <2>1, AboveIsBeginning
  <2>3. Len(e) \in Nat
    BY <2>2 DEF Path
  <2>4. Len(e) <= Len(p) /\ \A i \in 1 .. Len(e) : e[i] = p[i]
    BY <1>0, <2>1, <2>2, <2>3
  <2> QED
    BY <2>2, <2>4, AboveIsBeginning
<1>5. ASSUME NEW d \in Above(p), NEW e \in Above(p), Len(d) <= Len(e) PROVE d \in Above(e)
  <2>1. d \in Path /\ e \in Path /\ Len(d) \in Nat /\ Len(e) \in Nat
    BY <1>2
  <2>2. (\A i \in 1 .. Len(d) : d[i] = p[i]) /\ \A i \in 1 .. Len(e) : e[i] = p[i]
    BY AboveIsBeginning
  <2>3. \A i \in 1 .. Len(d) : d[i] = e[i]
    BY <1>5, <2>1, <2>2
  <2> QED
    BY <1>5, <2>1, <2>3, AboveIsBeginning
<1> QED
  BY <1>1, <1>2, <1>3, <1>4, <1>5

(* What is above a name in a directory. *)
LEMMA AboveEntry ==
  ASSUME NEW p \in Path, NEW x \in Names, NEW d \in Above(Append(p, x)), d # Append(p, x)
  PROVE  d \in Above(p)
<1>1. PICK q : q = Append(p, x)
  OBVIOUS
<1>2. q \in Path /\ Len(q) = Len(p) + 1 /\ Len(p) \in Nat
  BY <1>1, AppendProperties DEF Path
<1>3. \A i \in 1 .. Len(p) : p[i] = q[i]
  BY <1>1, <1>2, AppendProperties DEF Path
<1>4. p \in Above(q)
  BY <1>2, <1>3, AboveIsBeginning
<1>5. d \in Above(q) /\ Len(d) # Len(q) /\ Len(d) \in Nat /\ Len(d) <= Len(q)
  BY <1>1, <1>2, AboveFacts
<1>6. Len(d) <= Len(p)
  BY <1>2, <1>5
<1> QED
  BY <1>2, <1>4, <1>5, <1>6, AboveFacts

(* m has the names of r, and then those of q after its first np. *)
LiesBelow(m, r, nr, q, np, nq) ==
  /\ m \in Path /\ Len(m) = nr + (nq - np)
  /\ \A i \in 1 .. nr : m[i] = r[i]
  /\ \A i \in 1 .. nq - np : m[nr + i] = q[np + i]

(* What has been moved lies where it did, below the new path. *)
LEMMA MovedPath ==
  ASSUME NEW p \in Path, NEW q \in Path, p \in Above(q), NEW r \in Path,
         NEW np \in Nat, NEW nq \in Nat, NEW nr \in Nat,
         np = Len(p), nq = Len(q), nr = Len(r), NEW m, m = Moved(q, p, r)
  PROVE  LiesBelow(m, r, nr, q, np, nq) /\ np <= nq /\ r \in Above(m)
<1>4. np <= nq
  BY AboveFacts
<1>5. PICK s : s = SubSeq(q, np + 1, nq)
  OBVIOUS
<1>6. s \in Seq(Names) /\ Len(s) = nq - np /\ \A i \in 1 .. nq - np : s[i] = q[np + i]
  <2>1. \A i \in np + 1 .. nq : q[i] \in Names
    BY ElementOfSeq DEF Path
  <2>2. s \in Seq(Names) /\ Len(s) = IF np + 1 <= nq THEN nq - (np + 1) + 1 ELSE 0
    BY <1>5, <2>1, SubSeqProperties DEF Path
  <2>3. \A i \in 1 .. nq - (np + 1) + 1 : s[i] = q[(np + 1) + i - 1]
    <3>1. PICK n \in Nat : n = np + 1
      OBVIOUS
    <3>2. \A i \in 1 .. nq - n + 1 : SubSeq(q, n, nq)[i] = q[n + i - 1]
      BY <2>1, <3>1, SubSeqProperties DEF Path
    <3> QED
      BY <1>5, <3>1, <3>2
  <2>4. \A i \in 1 .. nq - np : (np + 1) + i - 1 = np + i /\ i \in 1 .. nq - (np + 1) + 1
    OBVIOUS
  <2> QED
    BY <1>4, <2>2, <2>3, <2>4
<1>7. m = r \o s
  BY <1>5 DEF Moved
<1>8. /\ m \in Path /\ Len(m) = nr + (nq - np)
      /\ \A i \in 1 .. nr : m[i] = r[i]
      /\ \A i \in 1 .. nq - np : m[nr + i] = s[i]
  <2>1. r \in Seq(Names)
    BY DEF Path
  <2>2. m \in Seq(Names) /\ Len(m) = nr + (nq - np)
    BY <1>6, <1>7, <2>1, ConcatProperties
  <2>3. \A i \in 1 .. nr + (nq - np) : m[i] = IF i <= nr THEN r[i] ELSE s[i - nr]
    BY <1>6, <1>7, <2>1, ConcatProperties
  <2>4. \A i \in 1 .. nr : i \in 1 .. nr + (nq - np)
    BY <1>4
  <2>5. \A i \in 1 .. nq - np : nr + i \in 1 .. nr + (nq - np) /\ ~(nr + i <= nr) /\ nr + i - nr = i
    BY <1>4
  <2>6. ASSUME NEW i \in 1 .. nr PROVE m[i] = r[i]
    <3>1. i \in 1 .. nr + (nq - np) /\ i <= nr
      BY <2>4
    <3> QED
      BY <2>3, <3>1
  <2>7. ASSUME NEW i \in 1 .. nq - np PROVE m[nr + i] = s[i]
    <3>1. m[nr + i] = IF nr + i <= nr THEN r[nr + i] ELSE s[nr + i - nr]
      BY <2>3, <2>5
    <3> QED
      BY <2>5, <3>1
  <2> QED
    BY <2>2, <2>6, <2>7 DEF Path
<1>9. Len(r) <= Len(m)
  BY <1>4, <1>8
<1>10. r \in Above(m)
  BY <1>8, <1>9, AboveIsBeginning
<1> QED
  BY <1>4, <1>6, <1>8, <1>10 DEF LiesBelow

(* Nothing that is moved takes the place of something else that is. *)
LEMMA MovedApart ==
  ASSUME NEW p \in Path, NEW r \in Path, NEW q1 \in Path, NEW q2 \in Path,
         p \in Above(q1), p \in Above(q2), Moved(q1, p, r) = Moved(q2, p, r)
  PROVE  q1 = q2
<1>1. PICK np \in Nat : np = Len(p)
  BY DEF Path
<1>2. PICK n1 \in Nat : n1 = Len(q1)
  BY DEF Path
<1>3. PICK n2 \in Nat : n2 = Len(q2)
  BY DEF Path
<1>4. PICK nr \in Nat : nr = Len(r)
  BY DEF Path
<1>5. PICK m : m = Moved(q1, p, r)
  OBVIOUS
<1>6. /\ Len(m) = nr + (n1 - np)
      /\ \A i \in 1 .. n1 - np : m[nr + i] = q1[np + i]
  <2>1. LiesBelow(m, r, nr, q1, np, n1)
    BY <1>1, <1>2, <1>4, <1>5, MovedPath, Zenon
  <2> QED
    BY <2>1 DEF LiesBelow
<1>7. /\ Len(m) = nr + (n2 - np)
      /\ \A i \in 1 .. n2 - np : m[nr + i] = q2[np + i]
  <2>1. m = Moved(q2, p, r)
    BY <1>5
  <2>2. LiesBelow(m, r, nr, q2, np, n2)
    BY <1>1, <1>3, <1>4, <2>1, MovedPath, Zenon
  <2> QED
    BY <2>2 DEF LiesBelow
<1>8. n1 = n2
  BY <1>6, <1>7
<1>9. ASSUME NEW i \in 1 .. n1 PROVE q1[i] = q2[i]
  <2>1. CASE i <= np
    <3>1. i \in 1 .. np
      BY <2>1
    <3> QED
      BY <1>1, <3>1, AboveIsBeginning
  <2>2. CASE i > np
    <3>1. PICK j \in 1 .. n1 - np : j = i - np
      BY <2>2
    <3>2. np + j = i
      BY <3>1
    <3> QED
      BY <1>6, <1>7, <1>8, <3>1, <3>2
  <2> QED
    BY <2>1, <2>2
<1>10. q1 \in Seq(Names) /\ q2 \in Seq(Names) /\ Len(q1) = Len(q2)
  BY <1>2, <1>3, <1>8 DEF Path
<1> QED
  BY <1>2, <1>9, <1>10, SeqEqual

(* What is above something that has been moved is above the new path, or *)
(* has been moved with it.                                                *)
LEMMA AboveMoved ==
  ASSUME NEW p \in Path, NEW r \in Path, NEW q \in Path, p \in Above(q),
         NEW d \in Above(Moved(q, p, r)), d # Moved(q, p, r)
  PROVE  \/ d \in Above(r) /\ d # r
         \/ \E o \in Above(q) : o # q /\ p \in Above(o) /\ d = Moved(o, p, r)
<1>1. PICK np \in Nat : np = Len(p)
  BY DEF Path
<1>2. PICK nq \in Nat : nq = Len(q)
  BY DEF Path
<1>3. PICK nr \in Nat : nr = Len(r)
  BY DEF Path
<1>4. PICK m : m = Moved(q, p, r)
  OBVIOUS
<1>5. /\ m \in Path /\ Len(m) = nr + (nq - np) /\ r \in Above(m)
      /\ \A i \in 1 .. nr : m[i] = r[i]
      /\ \A i \in 1 .. nq - np : m[nr + i] = q[np + i]
  <2>1. LiesBelow(m, r, nr, q, np, nq) /\ r \in Above(m)
    BY <1>1, <1>2, <1>3, <1>4, MovedPath, Zenon
  <2> QED
    BY <2>1 DEF LiesBelow
<1>6. /\ d \in Above(m) /\ d \in Path /\ Len(d) <= Len(m) /\ Len(d) # Len(m)
      /\ \A i \in 1 .. Len(d) : d[i] = m[i]
  BY <1>4, <1>5, AboveIsBeginning, AboveFacts
<1>7. PICK nd \in Nat : nd = Len(d)
  BY <1>6 DEF Path
<1>8. np <= nq
  BY <1>1, <1>2, AboveFacts
<1>9. CASE nd < nr
  <2>1. Len(d) <= Len(r) /\ d # r
    BY <1>3, <1>7, <1>9
  <2>2. d \in Above(r)
    BY <1>5, <1>6, <2>1, AboveFacts
  <2> QED
    BY <2>1, <2>2
<1>10. CASE nd >= nr
  <2>1. PICK k \in Nat : k = np + (nd - nr)
    <3>1. np + (nd - nr) \in Nat
      BY <1>10
    <3> QED
      BY <3>1
  <2>2. k < nq /\ np <= k
    BY <1>5, <1>6, <1>7, <1>8, <1>10, <2>1
  <2>3. PICK o : o = SubSeq(q, 1, k)
    OBVIOUS
  <2>4. o \in Path /\ Len(o) = k /\ o \in Above(q) /\ \A i \in 1 .. k : o[i] = q[i]
    <3>1. k <= Len(q)
      BY <1>2, <2>2
    <3> QED
      BY <2>3, <3>1, Beginning
  <2>5. o # q
    BY <1>2, <2>2, <2>4
  <2>6. p \in Above(o)
    BY <1>1, <2>2, <2>4, AboveFacts
  <2>7. PICK e : e = Moved(o, p, r)
    OBVIOUS
  <2>8. /\ e \in Path /\ Len(e) = nr + (k - np)
        /\ \A i \in 1 .. nr : e[i] = r[i]
        /\ \A i \in 1 .. k - np : e[nr + i] = o[np + i]
    <3>1. LiesBelow(e, r, nr, o, np, k)
      BY <1>1, <1>3, <2>1, <2>4, <2>6, <2>7, MovedPath, Zenon
    <3> QED
      BY <3>1 DEF LiesBelow
  <2>9. nd = nr + (k - np) /\ k - np = nd - nr
    BY <1>10, <2>1
  <2>10. ASSUME NEW i \in 1 .. nd PROVE d[i] = e[i]
    <3>1. CASE i <= nr
      <4>1. i \in 1 .. nr
        BY <3>1
      <4> QED
        BY <1>5, <1>6, <1>7, <2>8, <4>1
    <3>2. CASE i > nr
      <4>1. PICK j \in 1 .. nd - nr : j = i - nr
        BY <3>2
      <4>2. nr + j = i /\ j \in 1 .. k - np /\ j \in 1 .. nq - np /\ np + j \in 1 .. k
        BY <2>2, <2>9, <4>1
      <4>3. e[i] = o[np + j] /\ m[i] = q[np + j]
        BY <1>5, <2>8, <4>2
      <4> QED
        BY <1>6, <1>7, <2>4, <4>2, <4>3
    <3> QED
      BY <3>1, <3>2
  <2>11. d = e
    <3>1. d \in Seq(Names) /\ e \in Seq(Names) /\ Len(d) = Len(e)
      BY <1>6, <1>7, <2>8, <2>9 DEF Path
    <3> QED
      BY <1>7, <2>10, <3>1, SeqEqual
  <2> QED
    BY <2>4, <2>5, <2>6, <2>7, <2>11
<1> QED
  BY <1>9, <1>10

--------------------------------------------------------------------------------
(* The tree stays whole. *)

(* What is left of a tree after a path is removed is a tree. *)
LEMMA RemovedTree ==
  ASSUME TreeTypes, Rooted, NEW p, tree' = Removed(p)
  PROVE  TreeTypes' /\ Rooted'
<1>1. DOMAIN tree' = DOMAIN tree \ Under(p) /\ \A q \in DOMAIN tree' : tree'[q] = tree[q]
  BY DEF Removed
<1>2. TreeTypes'
  BY <1>1 DEF TreeTypes
<1>3. ASSUME NEW q \in DOMAIN tree', NEW d \in Above(q), d # q PROVE IsDir(d)'
  <2>1. q \in Path /\ q \in DOMAIN tree /\ p \notin Above(q)
    BY <1>1 DEF TreeTypes, Under
  <2>2. IsDir(d)
    BY <1>3, <2>1 DEF Rooted
  <2>3. p \notin Above(d)
    BY <2>1, AboveFacts
  <2> QED
    BY <1>1, <2>2, <2>3 DEF IsDir, Under
<1> QED
  BY <1>2, <1>3 DEF Rooted

(* A tree with the directories of a path made is a tree. *)
LEMMA MadeTree ==
  ASSUME TreeTypes, Rooted, NEW p \in Path, \A d \in Above(p) : d \in DOMAIN tree => IsDir(d),
         tree' = MadeDirs(p)
  PROVE  TreeTypes' /\ Rooted'
<1>1. /\ DOMAIN tree' = DOMAIN tree \union Above(p)
      /\ \A q \in DOMAIN tree : tree'[q] = tree[q]
      /\ \A q \in DOMAIN tree' \ DOMAIN tree : tree'[q] = "dir"
  BY DEF MadeDirs
<1>2. TreeTypes'
  <2> SUFFICES ASSUME NEW q \in DOMAIN tree'
               PROVE  q \in Path /\ tree'[q] \in Contents \union {"dir", "blank"}
    BY DEF TreeTypes
  <2>1. CASE q \in DOMAIN tree
    BY <1>1, <2>1 DEF TreeTypes
  <2>2. CASE q \notin DOMAIN tree
    BY <1>1, <2>2, AboveFacts
  <2> QED
    BY <2>1, <2>2
<1>3. ASSUME NEW q \in DOMAIN tree', NEW d \in Above(q), d # q PROVE IsDir(d)'
  <2>1. CASE q \in DOMAIN tree
    <3>1. IsDir(d)
      BY <1>3, <2>1 DEF Rooted
    <3> QED
      BY <1>1, <3>1 DEF IsDir
  <2>2. CASE q \in Above(p)
    <3>1. d \in Above(p)
      BY <2>2, AboveFacts
    <3> QED
      BY <1>1, <3>1 DEF IsDir
  <2> QED
    BY <1>1, <2>1, <2>2
<1> QED
  BY <1>2, <1>3 DEF Rooted

(* A tree with a file written into a directory is a tree. *)
LEMMA WrittenTree ==
  ASSUME TreeTypes, Rooted, NEW d \in Path, NEW x \in Names, NEW p, p = Append(d, x),
         IsDir(d), ~IsDir(p), tree' = Written(p)
  PROVE  TreeTypes' /\ Rooted'
<1>1. /\ DOMAIN tree' = DOMAIN tree \union {p}
      /\ tree'[p] = "blank"
      /\ \A q \in DOMAIN tree : q # p => tree'[q] = tree[q]
  BY DEF Written
<1>2. p \in Path
  BY AppendProperties DEF Path
<1>3. TreeTypes'
  <2> SUFFICES ASSUME NEW q \in DOMAIN tree'
               PROVE  q \in Path /\ tree'[q] \in Contents \union {"dir", "blank"}
    BY DEF TreeTypes
  <2>1. CASE q = p
    BY <1>1, <1>2, <2>1
  <2>2. CASE q # p
    BY <1>1, <2>2 DEF TreeTypes
  <2> QED
    BY <2>1, <2>2
<1>4. \A e : IsDir(e) => IsDir(e)'
  BY <1>1 DEF IsDir
<1>5. ASSUME NEW q \in DOMAIN tree', NEW e \in Above(q), e # q PROVE IsDir(e)
  <2>1. CASE q \in DOMAIN tree
    BY <1>5, <2>1 DEF Rooted
  <2>2. CASE q = p
    <3>1. e \in Above(d)
      BY <1>5, <2>2, AboveEntry
    <3>2. CASE e = d
      BY <3>2
    <3>3. CASE e # d
      BY <3>1, <3>3 DEF Rooted, IsDir
    <3> QED
      BY <3>2, <3>3
  <2> QED
    BY <1>1, <2>1, <2>2
<1> QED
  BY <1>3, <1>4, <1>5 DEF Rooted

(* What is above a path, other than itself, is above its directory. *)
LEMMA AboveParent ==
  ASSUME NEW p \in Path, p # Root, NEW d \in Above(p), d # p
  PROVE  Parent(p) \in Above(p) /\ Len(Parent(p)) < Len(p) /\ d \in Above(Parent(p))
<1>1. PICK n \in Nat : n = Len(p)
  BY DEF Path
<1>2. n > 0
  BY <1>1, EmptySeq DEF Path, Root
<1>3. PICK u : u = Parent(p)
  OBVIOUS
<1>4. u \in Path /\ Len(u) = n - 1 /\ u \in Above(p)
  <2>1. n - 1 \in Nat /\ n - 1 <= Len(p) /\ u = SubSeq(p, 1, n - 1)
    BY <1>1, <1>2, <1>3 DEF Parent
  <2> QED
    BY <2>1, Beginning
<1>5. d \in Path /\ Len(d) \in Nat /\ Len(d) <= n /\ Len(d) # n
  BY <1>1, AboveFacts
<1>6. Len(d) <= Len(u)
  BY <1>4, <1>5
<1>7. d \in Above(u)
  BY <1>4, <1>6, AboveFacts
<1> QED
  BY <1>1, <1>3, <1>4, <1>7

(* rename(2) replaces a file or an empty directory: nothing lies below. *)
LEMMA NothingBelow ==
  ASSUME TreeTypes, Rooted, NEW p \in Path, NEW r \in Path, CanRename(p, r),
         NEW q \in DOMAIN tree, q \notin Under(p), r \in Above(q)
  PROVE  q = r
<1> SUFFICES ASSUME q # r PROVE FALSE
  OBVIOUS
<1>1. q \in Path
  BY DEF TreeTypes
<1>2. IsDir(r)
  BY DEF Rooted
<1>3. r # p
  BY DEF Under
<1>4. Children(r) = {}
  BY <1>2, <1>3 DEF CanRename, IsDir
<1>5. PICK n \in Nat : n = Len(r)
  BY DEF Path
<1>6. n < Len(q) /\ Len(q) \in Nat
  <2>1. Len(r) <= Len(q) /\ Len(r) # Len(q)
    BY <1>1, AboveFacts
  <2> QED
    BY <1>1, <1>5, <2>1 DEF Path
<1>7. PICK c : c = SubSeq(q, 1, n + 1)
  OBVIOUS
<1>8. c \in Path /\ Len(c) = n + 1 /\ c \in Above(q)
  BY <1>1, <1>6, <1>7, Beginning
<1>9. c \in DOMAIN tree
  BY <1>8 DEF Rooted, IsDir
<1>10. PICK u : u = Parent(c)
  OBVIOUS
<1>11. u \in Path /\ Len(u) = n /\ u \in Above(c)
  <2>1. u = SubSeq(c, 1, n) /\ n <= Len(c)
    <3>1. Len(c) - 1 = n
      BY <1>8
    <3> QED
      BY <1>8, <1>10, <3>1 DEF Parent
  <2> QED
    BY <1>8, <2>1, Beginning
<1>12. u = r
  <2>1. u \in Above(q)
    BY <1>1, <1>8, <1>11, AboveFacts
  <2>2. Len(r) <= Len(u) /\ Len(r) = Len(u)
    BY <1>5, <1>11
  <2>3. r \in Above(u)
    BY <1>1, <2>1, <2>2, AboveFacts
  <2> QED
    BY <1>11, <2>2, <2>3, AboveFacts
<1>13. c # Root
  BY <1>8 DEF Root
<1>14. c \in Children(r)
  BY <1>9, <1>10, <1>12, <1>13 DEF Children
<1> QED
  BY <1>4, <1>14

(* Where everything is after a rename. *)
LEMMA RenamedTo ==
  ASSUME TreeTypes, NEW p \in Path, NEW r \in Path, tree' = Renamed(p, r)
  PROVE  /\ \A q \in Under(p) : /\ Moved(q, p, r) \in DOMAIN tree'
                                /\ tree'[Moved(q, p, r)] = tree[q]
         /\ \A q \in DOMAIN tree \ Under(p) :
              q # r /\ (\A o \in Under(p) : Moved(o, p, r) # q)
                => q \in DOMAIN tree' /\ tree'[q] = tree[q]
         /\ \A q \in DOMAIN tree' :
              \/ \E o \in Under(p) : q = Moved(o, p, r)
              \/ /\ q \in DOMAIN tree \ Under(p) /\ q # r
                 /\ \A o \in Under(p) : Moved(o, p, r) # q
<1> DEFINE rest  == (DOMAIN tree \ Under(p)) \ {r}
           moved == {Moved(q, p, r) : q \in Under(p)}
           at(q) == IF q \in moved THEN tree[CHOOSE o \in Under(p) : Moved(o, p, r) = q] ELSE tree[q]
<1>1. tree' = [q \in rest \union moved |-> at(q)]
  BY DEF Renamed
<1>2. DOMAIN tree' = rest \union moved /\ \A q \in rest \union moved : tree'[q] = at(q)
  BY <1>1
<1>3. ASSUME NEW q \in Under(p)
      PROVE  Moved(q, p, r) \in DOMAIN tree' /\ tree'[Moved(q, p, r)] = tree[q]
  <2>1. PICK m : m = Moved(q, p, r)
    OBVIOUS
  <2>2. m \in moved
    BY <2>1
  <2>3. PICK o : o = CHOOSE u \in Under(p) : Moved(u, p, r) = m
    OBVIOUS
  <2>4. o \in Under(p) /\ Moved(o, p, r) = m
    BY <2>1, <2>3
  <2>5. o = q
    <3>1. q \in Path /\ o \in Path /\ p \in Above(q) /\ p \in Above(o)
      BY <2>4 DEF Under, TreeTypes
    <3> QED
      BY <2>1, <2>4, <3>1, MovedApart
  <2>6. at(m) = tree[o]
    BY <2>2, <2>3
  <2> QED
    BY <1>2, <2>1, <2>2, <2>5, <2>6
<1>4. ASSUME NEW q \in DOMAIN tree \ Under(p), q # r, \A o \in Under(p) : Moved(o, p, r) # q
      PROVE  q \in DOMAIN tree' /\ tree'[q] = tree[q]
  <2>1. q \in rest /\ q \notin moved
    BY <1>4
  <2> QED
    BY <1>2, <2>1
<1>5. ASSUME NEW q \in DOMAIN tree'
      PROVE  \/ \E o \in Under(p) : q = Moved(o, p, r)
             \/ /\ q \in DOMAIN tree \ Under(p) /\ q # r
                /\ \A o \in Under(p) : Moved(o, p, r) # q
  BY <1>2
<1> QED
  BY <1>3, <1>4, <1>5

(* It is a path, and at or below the new one. *)
LEMMA BelowNew ==
  ASSUME NEW p \in Path, NEW o \in Path, p \in Above(o), NEW r \in Path
  PROVE  Moved(o, p, r) \in Path /\ r \in Above(Moved(o, p, r))
<1>1. PICK np \in Nat : np = Len(p)
  BY DEF Path
<1>2. PICK no \in Nat : no = Len(o)
  BY DEF Path
<1>3. PICK nr \in Nat : nr = Len(r)
  BY DEF Path
<1>4. PICK m : m = Moved(o, p, r)
  OBVIOUS
<1>5. LiesBelow(m, r, nr, o, np, no) /\ r \in Above(m)
  BY <1>1, <1>2, <1>3, <1>4, MovedPath, Zenon
<1> QED
  BY <1>4, <1>5 DEF LiesBelow

(* A tree with a path renamed is a tree. *)
LEMMA RenamedTree ==
  ASSUME TreeTypes, Rooted, NEW p \in Path, NEW r \in Path, CanRename(p, r),
         tree' = Renamed(p, r)
  PROVE  TreeTypes' /\ Rooted'
<1>0. \A o \in Under(p) : /\ o \in DOMAIN tree /\ o \in Path /\ p \in Above(o)
                           /\ Moved(o, p, r) \in Path /\ r \in Above(Moved(o, p, r))
  <2> SUFFICES ASSUME NEW o \in Under(p)
               PROVE  /\ o \in DOMAIN tree /\ o \in Path /\ p \in Above(o)
                      /\ Moved(o, p, r) \in Path /\ r \in Above(Moved(o, p, r))
    OBVIOUS
  <2>1. o \in DOMAIN tree /\ o \in Path /\ p \in Above(o)
    BY DEF Under, TreeTypes
  <2> QED
    BY <2>1, BelowNew
<1>1. TreeTypes'
  <2> SUFFICES ASSUME NEW q \in DOMAIN tree'
               PROVE  q \in Path /\ tree'[q] \in Contents \union {"dir", "blank"}
    BY DEF TreeTypes
  <2>1. ASSUME NEW o \in Under(p), q = Moved(o, p, r)
        PROVE  q \in Path /\ tree'[q] \in Contents \union {"dir", "blank"}
    BY <1>0, <2>1, RenamedTo DEF TreeTypes
  <2>2. CASE /\ q \in DOMAIN tree \ Under(p) /\ q # r
             /\ \A o \in Under(p) : Moved(o, p, r) # q
    BY <2>2, RenamedTo DEF TreeTypes
  <2> QED
    BY <2>1, <2>2, RenamedTo
<1>3. ASSUME NEW q \in DOMAIN tree \ Under(p), IsDir(q), r \notin Above(q) PROVE IsDir(q)'
  <2>1. q \in Path
    BY DEF TreeTypes
  <2>2. q # r
    BY <1>3, <2>1, AboveFacts
  <2>3. \A o \in Under(p) : Moved(o, p, r) # q
    BY <1>0, <1>3
  <2>4. q \in DOMAIN tree' /\ tree'[q] = tree[q]
    BY <2>2, <2>3, RenamedTo
  <2> QED
    BY <1>3, <2>4 DEF IsDir
<1>4. ASSUME NEW o \in Under(p), NEW d \in Above(Moved(o, p, r)), d # Moved(o, p, r)
      PROVE  IsDir(d)'
  <2>1. CASE d \in Above(r) /\ d # r
    <3>1. PICK u : u = Parent(r)
      OBVIOUS
    <3>2. u \in Above(r) /\ d \in Above(u) /\ IsDir(u)
      BY <2>1, <3>1, AboveParent DEF CanRename
    <3>3. IsDir(d)
      BY <3>2 DEF Rooted, IsDir
    <3>4. d \notin Under(p)
      <4>1. SUFFICES ASSUME p \in Above(d) PROVE FALSE
        BY DEF Under
      <4>2. p \in Above(r)
        BY <2>1, <4>1, AboveFacts
      <4>3. p = r
        BY <4>2 DEF CanRename
      <4>4. d \in Path /\ Len(d) \in Nat /\ Len(r) \in Nat /\ Len(d) <= Len(r) /\ Len(d) # Len(r)
        BY <2>1, AboveFacts DEF Path
      <4>5. Len(p) <= Len(d)
        BY <4>1, <4>4, AboveFacts
      <4> QED
        BY <4>3, <4>4, <4>5
    <3>5. r \notin Above(d)
      <4>1. SUFFICES ASSUME r \in Above(d) PROVE FALSE
        OBVIOUS
      <4>2. d \in Path /\ Len(d) \in Nat /\ Len(r) \in Nat /\ Len(d) <= Len(r) /\ Len(d) # Len(r)
        BY <2>1, AboveFacts DEF Path
      <4>3. Len(r) <= Len(d)
        BY <4>1, <4>2, AboveFacts
      <4> QED
        BY <4>2, <4>3
    <3> QED
      BY <1>3, <3>3, <3>4, <3>5 DEF IsDir
  <2>2. ASSUME NEW e \in Above(o), e # o, p \in Above(e), d = Moved(e, p, r) PROVE IsDir(d)'
    <3>1. IsDir(e)
      BY <1>0, <2>2 DEF Rooted
    <3>2. e \in Under(p)
      BY <2>2, <3>1 DEF IsDir, Under
    <3> QED
      BY <2>2, <3>1, <3>2, RenamedTo DEF IsDir
  <2>3. o \in Path /\ p \in Above(o)
    BY <1>0
  <2> QED
    BY <1>4, <2>1, <2>2, <2>3, AboveMoved
<1>5. ASSUME NEW q \in DOMAIN tree \ Under(p), q # r, NEW d \in Above(q), d # q
      PROVE  IsDir(d)'
  <2>1. IsDir(d) /\ q \in Path
    BY <1>5 DEF Rooted, TreeTypes
  <2>2. d \notin Under(p)
    <3>1. p \notin Above(q)
      BY DEF Under
    <3> QED
      BY <2>1, <3>1, AboveFacts DEF Under
  <2>3. r \notin Above(d)
    <3>1. r \notin Above(q)
      BY <1>5, NothingBelow
    <3> QED
      BY <2>1, <3>1, AboveFacts
  <2> QED
    BY <1>3, <2>1, <2>2, <2>3 DEF IsDir
<1>6. ASSUME NEW q \in DOMAIN tree', NEW d \in Above(q), d # q PROVE IsDir(d)'
  BY <1>4, <1>5, <1>6, RenamedTo
<1> QED
  BY <1>1, <1>6 DEF Rooted

--------------------------------------------------------------------------------
(* Counting operations. *)

(* One more member, one more at most. *)
LEMMA OneMore ==
  ASSUME NEW S, NEW n \in Nat, AtMost(S, n), NEW x
  PROVE  AtMost(S \union {x}, n + 1)
<1>1. Cardinality(S) \in Nat
  BY FS_CardinalityType DEF AtMost
<1> QED
  BY <1>1, FS_AddElement DEF AtMost

(* A subset has no more members. *)
LEMMA NoMore ==
  ASSUME NEW S, NEW n \in Nat, AtMost(S, n), NEW T, T \subseteq S
  PROVE  AtMost(T, n)
<1>1. Cardinality(S) \in Nat
  BY FS_CardinalityType DEF AtMost
<1>2. IsFiniteSet(T) /\ Cardinality(T) <= Cardinality(S)
  BY FS_Subset DEF AtMost
<1>3. Cardinality(T) \in Nat
  BY <1>2, FS_CardinalityType
<1> QED
  BY <1>1, <1>2, <1>3 DEF AtMost

(* One member for another: no more than before. *)
LEMMA OneForAnother ==
  ASSUME NEW S, NEW n \in Nat, AtMost(S, n), NEW x \in S, NEW y
  PROVE  AtMost((S \ {x}) \union {y}, n)
<1>1. PICK T : T = S \ {x}
  OBVIOUS
<1>2. Cardinality(S) \in Nat
  BY FS_CardinalityType DEF AtMost
<1>3. IsFiniteSet(T) /\ Cardinality(T) = Cardinality(S) - 1
  BY <1>1, FS_RemoveElement DEF AtMost
<1>4. Cardinality(T) \in Nat
  BY <1>3, FS_CardinalityType
<1>5. AtMost(T, n - 1) /\ n - 1 \in Nat
  BY <1>2, <1>3, <1>4 DEF AtMost
<1>6. AtMost(T \union {y}, (n - 1) + 1)
  BY <1>5, OneMore
<1>7. (n - 1) + 1 = n
  OBVIOUS
<1> QED
  BY <1>1, <1>6, <1>7

(* Overtaken changes what it does one by one. *)
Marked(c, taken) == [c EXCEPT !.late = @ \/ c.to \in taken]

(* Creations that are marked are no more than before. *)
LEMMA AsManyMarked ==
  ASSUME NEW S, NEW n \in Nat, AtMost(S, n), NEW taken
  PROVE  AtMost({Marked(c, taken) : c \in S}, n)
<1>1. PICK T : T = {Marked(c, taken) : c \in S}
  OBVIOUS
<1>2. PICK f : f = [c \in S |-> Marked(c, taken)]
  OBVIOUS
<1>3. f \in Surjection(S, T)
  BY <1>1, <1>2 DEF Surjection
<1>4. Cardinality(S) \in Nat
  BY FS_CardinalityType DEF AtMost
<1>5. IsFiniteSet(T) /\ Cardinality(T) <= Cardinality(S)
  BY <1>3, FS_Surjection DEF AtMost
<1>6. Cardinality(T) \in Nat
  BY <1>5, FS_CardinalityType
<1> QED
  BY <1>1, <1>4, <1>5, <1>6 DEF AtMost

(* While fewer operations than gestures are under way, a number is left. *)
LEMMA UnusedIsNew ==
  ASSUME NEW ops, NEW n \in Nat, AtMost(ops, n), n < NumGestures
  PROVE  Unused(ops) \in Numbers /\ \A o \in ops : o.no # Unused(ops)
<1>0. NumGestures \in Nat
  BY ExplorerAssumption
<1>1. PICK T : T = {o.no : o \in ops}
  OBVIOUS
<1>2. PICK f : f = [o \in ops |-> o.no]
  OBVIOUS
<1>3. f \in Surjection(ops, T)
  BY <1>1, <1>2 DEF Surjection
<1>4. IsFiniteSet(T) /\ Cardinality(T) <= Cardinality(ops)
  BY <1>3, FS_Surjection DEF AtMost
<1>5. Cardinality(T) \in Nat /\ Cardinality(ops) \in Nat
  BY <1>4, FS_CardinalityType DEF AtMost
<1>6. Cardinality(1 .. NumGestures) = NumGestures
  BY <1>0, FS_Interval
<1>7. ~(1 .. NumGestures \subseteq T)
  <2>1. SUFFICES ASSUME 1 .. NumGestures \subseteq T PROVE FALSE
    OBVIOUS
  <2>2. Cardinality(1 .. NumGestures) <= Cardinality(T)
    BY <1>4, <2>1, FS_Subset
  <2> QED
    BY <1>0, <1>4, <1>5, <1>6, <2>2 DEF AtMost
<1>8. \E m \in 1 .. NumGestures : \A o \in ops : o.no # m
  BY <1>1, <1>7
<1> QED
  BY <1>8 DEF Unused, Numbers

--------------------------------------------------------------------------------
(* Operations. *)

(* Gestures are counted up to their bound. *)
LEMMA GesturesStep ==
  ASSUME gestures \in 0 .. NumGestures, disks \in Nat, [Next]_vars
  PROVE  gestures' \in 0 .. NumGestures /\ gestures <= gestures' /\ disks' \in Nat
<1>0. NumGestures \in Nat
  BY ExplorerAssumption
<1>1. gestures' = gestures \/ Gesture
  <2>1. CASE Going
    BY <2>1
    DEF Going, NavigateTo, GoBack, GoForward, LeaveHome, RedirectToLogin, VisitHome,
        Reload, DiskSelect, DiskRoot, DiskWithoutRoot
  <2>2. CASE ListingStep \/ Choosing
    BY <2>2
    DEF ListingStep, UploadCompleted, ReadDir, FileInfos, SetFiles, ListingVars,
        Choosing, HandleContextMenu, CloseMenu
  <2>3. CASE Creating
    BY <2>3 DEF Creating, HandleNew, ChooseName, NewFails, WriteFile, MakeFolder
  <2>4. CASE Deleting \/ Renaming
    BY <2>4 DEF Deleting, HandleDelete, Confirm, Cancel, Remove, RemoveFails,
                Renaming, HandleRename, Rename, RenameFails
  <2>5. CASE UNCHANGED vars
    BY <2>5 DEF vars
  <2> QED
    BY <2>1, <2>2, <2>3, <2>4, <2>5 DEF Next
<1>2. disks' = disks \/ disks' = 0 \/ disks' = disks + 1 \/ (disks > 0 /\ disks' = disks - 1)
  <2>1. CASE Going
    BY <2>1
    DEF Going, NavigateTo, GoBack, GoForward, LeaveHome, VisitHome, Reload,
        DiskSelect, DiskRoot, DiskWithoutRoot, operationVars
  <2>2. CASE ListingStep \/ Choosing
    BY <2>2
    DEF ListingStep, UploadCompleted, ReadDir, FileInfos, SetFiles, ListingVars,
        Choosing, HandleContextMenu, CloseMenu
  <2>3. CASE Creating
    BY <2>3 DEF Creating, HandleNew, ChooseName, NewFails, WriteFile, MakeFolder, PlaceVars
  <2>4. CASE Deleting \/ Renaming
    BY <2>4 DEF Deleting, HandleDelete, Confirm, Cancel, Remove, RemoveFails,
                Renaming, HandleRename, Rename, RenameFails, PlaceVars
  <2>5. CASE UNCHANGED vars
    BY <2>5 DEF vars
  <2> QED
    BY <2>1, <2>2, <2>3, <2>4, <2>5 DEF Next
<1> QED
  BY <1>0, <1>1, <1>2 DEF Gesture

(* Marking a creation changes its field late only. *)
LEMMA MarkedIsKept ==
  ASSUME NEW c \in CreationRecord, NEW taken
  PROVE  /\ Marked(c, taken) \in CreationRecord
         /\ Marked(c, taken).to = c.to /\ Marked(c, taken).dir = c.dir
         /\ Marked(c, taken).late = (c.late \/ c.to \in taken)
<1>1. Marked(c, taken) = [no |-> c.no, kind |-> c.kind, dir |-> c.dir, to |-> c.to,
                          late |-> c.late \/ c.to \in taken]
  BY DEF Marked, CreationRecord
<1>2. c.no \in Numbers /\ c.kind \in {"file", "folder"} /\ c.dir \in Path
      /\ c.to \in Path \union {None}
  BY DEF CreationRecord
<1>3. (c.late \/ c.to \in taken) \in BOOLEAN
  OBVIOUS
<1> QED
  BY <1>1, <1>2, <1>3 DEF CreationRecord

(* A step that adds to the tree marks the names that it takes. *)
LEMMA OvertakenStep ==
  ASSUME CreationTypes, NEW n \in Nat, AtMost(creations, n),
         NEW others, others \subseteq creations, creations' = Overtaken(others)
  PROVE  CreationTypes' /\ AtMost(creations', n)
<1>1. PICK taken : taken = DOMAIN tree' \ DOMAIN tree
  OBVIOUS
<1>2. creations' = {Marked(c, taken) : c \in others}
  BY <1>1 DEF Overtaken, Marked
<1>3. AtMost(others, n)
  BY NoMore
<1>4. AtMost(creations', n)
  BY <1>2, <1>3, AsManyMarked
<1>5. ASSUME NEW c \in others
      PROVE  /\ Marked(c, taken) \in CreationRecord
             /\ \/ Marked(c, taken).to = None
                \/ \E x \in Names : Marked(c, taken).to = Append(Marked(c, taken).dir, x)
             /\ Marked(c, taken).to \in DOMAIN tree' => Marked(c, taken).late
  <2>1. /\ c \in CreationRecord
        /\ c.to = None \/ \E x \in Names : c.to = Append(c.dir, x)
        /\ c.to \in DOMAIN tree => c.late
    BY DEF CreationTypes
  <2>2. c.to \in DOMAIN tree' => c.late \/ c.to \in taken
    BY <1>1, <2>1
  <2> QED
    BY <2>1, <2>2, MarkedIsKept
<1> QED
  BY <1>2, <1>4, <1>5 DEF CreationTypes

(* Creations fit when some of them end and the tree loses files. *)
LEMMA KeptCreations ==
  ASSUME CreationTypes, DOMAIN tree' \subseteq DOMAIN tree, creations' \subseteq creations
  PROVE  CreationTypes'
BY DEF CreationTypes

(* Every step keeps the creations under way well-formed. *)
LEMMA CreationStep ==
  ASSUME TreeTypes, PathTypes, OperationTypes, CreationTypes, [Next]_vars
  PROVE  CreationTypes' /\ AtMost(creations', gestures')
<1>0. gestures \in Nat /\ gestures' \in Nat /\ gestures <= gestures' /\ NumGestures \in Nat
  BY ExplorerAssumption, GesturesStep DEF OperationTypes
<1>1. ASSUME DOMAIN tree' \subseteq DOMAIN tree, creations' \subseteq creations
      PROVE  CreationTypes' /\ AtMost(creations', gestures')
  <2>1. AtMost(creations', gestures)
    BY <1>0, <1>1, NoMore DEF OperationTypes
  <2>2. Cardinality(creations') \in Nat
    BY <2>1, FS_CardinalityType DEF AtMost
  <2> QED
    BY <1>0, <1>1, <2>1, <2>2, KeptCreations DEF AtMost
<1>2. ASSUME NEW others, others \subseteq creations, creations' = Overtaken(others)
      PROVE  CreationTypes' /\ AtMost(creations', gestures')
  <2>1. CreationTypes' /\ AtMost(creations', gestures)
    BY <1>0, <1>2, OvertakenStep DEF OperationTypes
  <2>2. Cardinality(creations') \in Nat
    BY <2>1, FS_CardinalityType DEF AtMost
  <2> QED
    BY <1>0, <2>1, <2>2 DEF AtMost
<1>3. ASSUME NEW kind \in {"file", "folder"}, HandleNew(kind)
      PROVE  CreationTypes' /\ AtMost(creations', gestures')
  <2>1. PICK u : u = Unused(creations)
    OBVIOUS
  <2>2. gestures' = gestures + 1 /\ gestures < NumGestures
    BY <1>3 DEF HandleNew, Gesture
  <2>3. u \in Numbers
    BY <1>0, <2>1, <2>2, UnusedIsNew DEF OperationTypes
  <2>4. PICK c : c = [no |-> u, kind |-> kind, dir |-> currentPath, to |-> None, late |-> FALSE]
    OBVIOUS
  <2>5. creations' = creations \union {c} /\ tree' = tree
    BY <1>3, <2>1, <2>4 DEF HandleNew
  <2>6. c \in CreationRecord /\ c.to = None
    BY <2>3, <2>4 DEF CreationRecord, PathTypes
  <2>7. None \notin DOMAIN tree
    BY ExplorerAssumption DEF TreeTypes, Path
  <2>8. CreationTypes'
    BY <2>5, <2>6, <2>7 DEF CreationTypes
  <2>9. AtMost(creations', gestures + 1)
    BY <1>0, <2>5, OneMore DEF OperationTypes
  <2> QED
    BY <2>2, <2>8, <2>9
<1>4. ASSUME NEW c \in creations, ChooseName(c)
      PROVE  CreationTypes' /\ AtMost(creations', gestures')
  <2>1. PICK i \in 1 .. Len(NewNames[c.kind]) :
          /\ IsFirstFree(c.kind, c.dir, i)
          /\ creations' = (creations \ {c}) \union {[c EXCEPT !.to = Append(c.dir, NewNames[c.kind][i])]}
    BY <1>4 DEF ChooseName
  <2>2. c \in CreationRecord
    BY DEF CreationTypes
  <2>3. NewNames[c.kind] \in Seq(Names)
    BY <2>2, ExplorerAssumption DEF CreationRecord
  <2>4. PICK x : x = NewNames[c.kind][i]
    OBVIOUS
  <2>5. x \in Names
    BY <2>3, <2>4, ElementOfSeq
  <2>6. PICK q : q = Append(c.dir, x)
    OBVIOUS
  <2>7. q \in Path /\ q \notin DOMAIN tree
    <3>1. c.dir \in Seq(Names)
      BY <2>2 DEF CreationRecord, Path
    <3>2. q \in Path
      BY <2>5, <2>6, <3>1, AppendProperties DEF Path
    <3> QED
      BY <2>1, <2>4, <2>6, <3>2 DEF IsFirstFree, IsFree
  <2>8. PICK e : e = [c EXCEPT !.to = q]
    OBVIOUS
  <2>9. e \in CreationRecord /\ e.to = q /\ e.dir = c.dir
    BY <2>2, <2>7, <2>8 DEF CreationRecord
  <2>10. creations' = (creations \ {c}) \union {e}
    BY <2>1, <2>4, <2>6, <2>8
  <2>11. tree' = tree /\ gestures' = gestures
    BY <1>4 DEF ChooseName
  <2>12. CreationTypes'
    BY <2>5, <2>6, <2>7, <2>9, <2>10, <2>11 DEF CreationTypes
  <2>13. AtMost(creations', gestures)
    BY <1>0, <2>10, OneForAnother DEF OperationTypes
  <2> QED
    BY <2>11, <2>12, <2>13
<1>5. CASE Going \/ ListingStep \/ Choosing
  BY <1>1, <1>5
  DEF Going, NavigateTo, GoBack, GoForward, LeaveHome, VisitHome, Reload, DiskSelect, DiskRoot,
      DiskWithoutRoot, ListingStep, UploadCompleted, ReadDir, FileInfos, SetFiles, ListingVars,
      Choosing, HandleContextMenu, CloseMenu, operationVars
<1>6. ASSUME NEW c \in creations, NewFails(c) \/ WriteFile(c) \/ MakeFolder(c)
      PROVE  CreationTypes' /\ AtMost(creations', gestures')
  <2>1. creations \ {c} \subseteq creations
    OBVIOUS
  <2>2. CASE NewFails(c)
    BY <1>1, <2>1, <2>2 DEF NewFails
  <2>3. CASE WriteFile(c) \/ MakeFolder(c)
    BY <1>2, <2>1, <2>3 DEF WriteFile, MakeFolder
  <2> QED
    BY <1>6, <2>2, <2>3
<1>7. CASE Deleting
  <2>1. ASSUME NEW d, Remove(d) PROVE DOMAIN tree' \subseteq DOMAIN tree
    BY <2>1 DEF Remove, Removed
  <2> QED
    BY <1>1, <1>7, <2>1 DEF Deleting, HandleDelete, Confirm, Cancel, Remove, RemoveFails
<1>8. CASE Renaming
  <2>1. ASSUME NEW r, Rename(r) PROVE CreationTypes' /\ AtMost(creations', gestures')
    BY <1>2, <2>1 DEF Rename
  <2> QED
    BY <1>1, <1>8, <2>1 DEF Renaming, HandleRename, RenameFails
<1>9. CASE UNCHANGED vars
  BY <1>1, <1>9 DEF vars, operationVars
<1> QED
  BY <1>3, <1>4, <1>5, <1>6, <1>7, <1>8, <1>9 DEF Next, Creating

(* Operations that are no more than before, or one more with another click. *)
LEMMA FewEnough ==
  ASSUME NEW S, NEW T, NEW n \in Nat, NEW m \in Nat, n <= m, AtMost(S, n),
         \/ T \subseteq S
         \/ m = n + 1 /\ \E x : T = S \union {x}
  PROVE  AtMost(T, m)
<1>1. AtMost(T, n) \/ AtMost(T, m)
  <2>1. CASE T \subseteq S
    BY <2>1, NoMore
  <2>2. ASSUME NEW x, T = S \union {x} PROVE AtMost(T, n + 1)
    BY <2>2, OneMore
  <2> QED
    BY <2>1, <2>2
<1>2. ASSUME AtMost(T, n) PROVE AtMost(T, m)
  <2>1. Cardinality(T) \in Nat
    BY <1>2, FS_CardinalityType DEF AtMost
  <2> QED
    BY <1>2, <2>1 DEF AtMost
<1> QED
  BY <1>1, <1>2

(* And the deletions. *)
LEMMA DeletionStep ==
  ASSUME OperationTypes, DeletionTypes, selected \in Seq(Path), [Next]_vars
  PROVE  DeletionTypes' /\ AtMost(deletions', gestures')
<1>0. gestures \in Nat /\ gestures' \in Nat /\ gestures <= gestures' /\ NumGestures \in Nat
  BY ExplorerAssumption, GesturesStep DEF OperationTypes
<1>1. ASSUME deletions' \subseteq deletions
      PROVE  DeletionTypes' /\ AtMost(deletions', gestures')
  BY <1>0, <1>1, FewEnough DEF OperationTypes, DeletionTypes
<1>2. ASSUME NEW d \in deletions, NEW e \in DeletionRecord,
             deletions' = (deletions \ {d}) \union {e}
      PROVE  DeletionTypes' /\ AtMost(deletions', gestures')
  <2>1. DeletionTypes'
    BY <1>2 DEF DeletionTypes
  <2>2. AtMost(deletions', gestures)
    BY <1>0, <1>2, OneForAnother DEF OperationTypes
  <2>3. Cardinality(deletions') \in Nat
    BY <2>2, FS_CardinalityType DEF AtMost
  <2>4. AtMost(deletions', gestures')
    BY <1>0, <2>2, <2>3 DEF AtMost
  <2> QED
    BY <2>1, <2>4
<1>3. CASE HandleDelete
  <2>1. PICK u : u = Unused(deletions)
    OBVIOUS
  <2>2. gestures' = gestures + 1 /\ gestures < NumGestures
    BY <1>3 DEF HandleDelete, Gesture
  <2>3. u \in Numbers
    BY <1>0, <2>1, <2>2, UnusedIsNew DEF OperationTypes
  <2>4. PICK d : d = [no |-> u, confirmed |-> FALSE, files |-> selected]
    OBVIOUS
  <2>5. deletions' = deletions \union {d}
    BY <1>3, <2>1, <2>4 DEF HandleDelete
  <2>6. d \in DeletionRecord
    BY <2>3, <2>4 DEF DeletionRecord
  <2>7. DeletionTypes'
    BY <2>5, <2>6 DEF DeletionTypes
  <2>8. AtMost(deletions', gestures')
    BY <1>0, <2>2, <2>5, FewEnough DEF OperationTypes
  <2> QED
    BY <2>7, <2>8
<1>4. ASSUME NEW d \in deletions, Confirm(d)
      PROVE  DeletionTypes' /\ AtMost(deletions', gestures')
  <2>1. PICK e : e = [d EXCEPT !.confirmed = TRUE]
    OBVIOUS
  <2>2. e \in DeletionRecord
    BY <2>1 DEF DeletionTypes, DeletionRecord
  <2>3. deletions' = (deletions \ {d}) \union {e}
    BY <1>4, <2>1 DEF Confirm
  <2> QED
    BY <1>2, <2>2, <2>3
<1>5. ASSUME NEW d \in deletions, OneDone(d)
      PROVE  DeletionTypes' /\ AtMost(deletions', gestures')
  <2>1. CASE ~(Len(d.files) > 1)
    <3>1. deletions' \subseteq deletions
      BY <1>5, <2>1 DEF OneDone
    <3> QED
      BY <1>1, <3>1
  <2>2. CASE Len(d.files) > 1
    <3>1. PICK s : s = d.files
      OBVIOUS
    <3>2. s \in Seq(Path) /\ Len(s) > 1
      BY <2>2, <3>1 DEF DeletionTypes, DeletionRecord
    <3>3. Tail(s) \in Seq(Path)
      BY <3>2, HeadTailProperties, EmptySeq
    <3>4. PICK e : e = [d EXCEPT !.files = Tail(@)]
      OBVIOUS
    <3>5. e = [d EXCEPT !.files = Tail(s)]
      BY <3>1, <3>4
    <3>6. e \in DeletionRecord
      BY <3>3, <3>5 DEF DeletionTypes, DeletionRecord
    <3>7. deletions' = (deletions \ {d}) \union {e}
      BY <1>5, <2>2, <3>4 DEF OneDone
    <3> QED
      BY <1>2, <3>6, <3>7
  <2> QED
    BY <2>1, <2>2
<1>6. CASE Going \/ ListingStep \/ Choosing
  BY <1>1, <1>6
  DEF Going, NavigateTo, GoBack, GoForward, LeaveHome, VisitHome, Reload, DiskSelect, DiskRoot,
      DiskWithoutRoot, ListingStep, UploadCompleted, ReadDir, FileInfos, SetFiles, ListingVars,
      Choosing, HandleContextMenu, CloseMenu, operationVars
<1>7. CASE Creating \/ Renaming
  BY <1>1, <1>7 DEF Creating, HandleNew, ChooseName, NewFails, WriteFile, MakeFolder,
                    Renaming, HandleRename, Rename, RenameFails
<1>8. CASE UNCHANGED vars
  BY <1>1, <1>8 DEF vars, operationVars
<1>9. ASSUME NEW d \in deletions, Cancel(d) PROVE deletions' \subseteq deletions
  BY <1>9 DEF Cancel
<1> QED
  BY <1>1, <1>3, <1>4, <1>5, <1>6, <1>7, <1>8, <1>9 DEF Next, Deleting, Remove, RemoveFails

(* What is typed leads from one path to another. *)
LEMMA ResolvedIsPath ==
  ASSUME NEW d \in Path, NEW text \in [ups : Nat, down : Path]
  PROVE  Resolved(d, text) \in Path
<1>1. PICK u : u = Up(d, text.ups)
  OBVIOUS
<1>2. u \in Seq(Names)
  <2>1. CASE text.ups < Len(d)
    <3>1. Len(d) \in Nat /\ Len(d) - text.ups \in 0 .. Len(d)
      BY <2>1 DEF Path
    <3>2. u = SubSeq(d, 1, Len(d) - text.ups)
      BY <1>1, <2>1 DEF Up
    <3>3. PICK n \in 0 .. Len(d) : n = Len(d) - text.ups
      BY <3>1
    <3>4. SubSeq(d, 1, n) \in Seq(Names)
      BY <3>1, <3>3 DEF Path
    <3> QED
      BY <3>2, <3>3, <3>4
  <2>2. CASE ~(text.ups < Len(d))
    BY <1>1, <2>2, EmptySeq DEF Up, Root
  <2> QED
    BY <2>1, <2>2
<1>3. text.down \in Seq(Names)
  BY DEF Path
<1>4. u \o text.down \in Seq(Names)
  BY <1>2, <1>3, ConcatProperties
<1> QED
  BY <1>1, <1>4 DEF Resolved, Path

(* And the renames. *)
LEMMA RenameStep ==
  ASSUME OperationTypes, RenameTypes, PathTypes, selected \in Seq(Path),
         astray \in BOOLEAN, unlisted \in BOOLEAN, [Next]_vars
  PROVE  RenameTypes' /\ AtMost(renames', gestures')
<1>0. gestures \in Nat /\ gestures' \in Nat /\ gestures <= gestures' /\ NumGestures \in Nat
  BY ExplorerAssumption, GesturesStep DEF OperationTypes
<1>1. ASSUME renames' \subseteq renames
      PROVE  RenameTypes' /\ AtMost(renames', gestures')
  BY <1>0, <1>1, FewEnough DEF OperationTypes, RenameTypes
<1>2. CASE HandleRename
  <2>1. PICK u : u = Unused(renames)
    OBVIOUS
  <2>2. gestures' = gestures + 1 /\ gestures < NumGestures
    BY <1>2 DEF HandleRename, Gesture
  <2>3. u \in Numbers
    BY <1>0, <2>1, <2>2, UnusedIsNew DEF OperationTypes
  <2>4. PICK text \in TypedPaths \union {NoAnswer} :
          renames' = renames \union
            {[no |-> Unused(renames), from |-> selected[1], text |-> text,
              to |-> Resolved(currentPath, text), dir |-> currentPath,
              astray |-> astray \/ unlisted]}
    BY <1>2 DEF HandleRename
  <2>5. PICK to : to = Resolved(currentPath, text)
    OBVIOUS
  <2>6. text \in [ups : Nat, down : Path]
    <3>1. NoAnswer \in [ups : Nat, down : Seq(Names)]
      BY EmptySeq DEF NoAnswer
    <3>2. TypedPaths \subseteq [ups : Nat, down : Seq(Names)]
      BY ExplorerAssumption
    <3> QED
      BY <3>1, <3>2 DEF Path
  <2>7. to \in Path
    BY <2>5, <2>6, ResolvedIsPath DEF PathTypes
  <2>8. PICK q : q = selected[1]
    OBVIOUS
  <2>9. q \in Path
    <3>1. Len(selected) = 1
      BY <1>2 DEF HandleRename
    <3>2. selected[1] \in Path
      BY <3>1, ElementOfSeq, 1 \in 1 .. 1
    <3> QED
      BY <2>8, <3>2
  <2>10. PICK b : b = (astray \/ unlisted)
    OBVIOUS
  <2>11. b \in BOOLEAN
    BY <2>10
  <2>12. PICK r : r = [no |-> u, from |-> q, text |-> text, to |-> to, dir |-> currentPath,
                       astray |-> b]
    OBVIOUS
  <2>13. r \in RenameRecord
    BY <2>3, <2>6, <2>7, <2>9, <2>11, <2>12 DEF RenameRecord, PathTypes
  <2>14. renames' = renames \union {r}
    BY <2>1, <2>4, <2>5, <2>8, <2>10, <2>12
  <2>15. RenameTypes'
    BY <2>13, <2>14 DEF RenameTypes
  <2>16. AtMost(renames', gestures')
    BY <1>0, <2>2, <2>14, FewEnough DEF OperationTypes
  <2> QED
    BY <2>15, <2>16
<1>3. ASSUME NEW r \in renames, Rename(r) \/ RenameFails(r) PROVE renames' \subseteq renames
  BY <1>3 DEF Rename, RenameFails
<1>4. CASE Going \/ ListingStep \/ Choosing
  BY <1>1, <1>4
  DEF Going, NavigateTo, GoBack, GoForward, LeaveHome, VisitHome, Reload, DiskSelect, DiskRoot,
      DiskWithoutRoot, ListingStep, UploadCompleted, ReadDir, FileInfos, SetFiles, ListingVars,
      Choosing, HandleContextMenu, CloseMenu, operationVars
<1>5. CASE Creating \/ Deleting
  BY <1>1, <1>5 DEF Creating, HandleNew, ChooseName, NewFails, WriteFile, MakeFolder,
                    Deleting, HandleDelete, Confirm, Cancel, Remove, RemoveFails
<1>6. CASE UNCHANGED vars
  BY <1>1, <1>6 DEF vars, operationVars
<1> QED
  BY <1>1, <1>2, <1>3, <1>4, <1>5, <1>6 DEF Next, Renaming

(* The tree through every operation on files. *)
LEMMA TreeStep ==
  ASSUME TreeTypes, Rooted, CreationTypes, RenameTypes, [Next]_vars
  PROVE  TreeTypes' /\ Rooted'
<1>1. CASE tree' = tree
  BY <1>1 DEF TreeTypes, Rooted, IsDir
<1>2. ASSUME NEW c \in creations, WriteFile(c) PROVE TreeTypes' /\ Rooted'
  <2>1. PICK p : p = c.to
    OBVIOUS
  <2>2. PICK d : d = c.dir
    OBVIOUS
  <2>3. d \in Path
    BY <2>2 DEF CreationTypes, CreationRecord
  <2>4. PICK x \in Names : p = Append(d, x)
    BY <1>2, <2>1, <2>2 DEF CreationTypes, WriteFile
  <2>5. IsDir(d) /\ ~IsDir(p) /\ tree' = Written(p)
    BY <1>2, <2>1, <2>2 DEF WriteFile
  <2> QED
    BY <2>3, <2>4, <2>5, WrittenTree
<1>3. ASSUME NEW c \in creations, MakeFolder(c) PROVE TreeTypes' /\ Rooted'
  <2>1. PICK p : p = c.to
    OBVIOUS
  <2>2. p \in Path
    BY <1>3, <2>1 DEF CreationTypes, CreationRecord, MakeFolder
  <2>3. (\A d \in Above(p) : d \in DOMAIN tree => IsDir(d)) /\ tree' = MadeDirs(p)
    BY <1>3, <2>1 DEF MakeFolder
  <2> QED
    BY <2>2, <2>3, MadeTree
<1>4. ASSUME NEW d \in deletions, Remove(d) PROVE TreeTypes' /\ Rooted'
  BY <1>4, RemovedTree DEF Remove
<1>5. ASSUME NEW r \in renames, Rename(r) PROVE TreeTypes' /\ Rooted'
  <2>1. r.from \in Path /\ r.to \in Path
    BY DEF RenameTypes, RenameRecord
  <2> QED
    BY <1>5, <2>1, RenamedTree DEF Rename
<1>6. CASE Going \/ ListingStep \/ Choosing
  BY <1>1, <1>6
  DEF Going, NavigateTo, GoBack, GoForward, LeaveHome, VisitHome, Reload, DiskSelect, DiskRoot,
      DiskWithoutRoot, ListingStep, UploadCompleted, ReadDir, FileInfos, SetFiles, ListingVars,
      Choosing, HandleContextMenu, CloseMenu
<1>7. CASE Creating
  BY <1>1, <1>2, <1>3, <1>7 DEF Creating, HandleNew, ChooseName, NewFails
<1>8. CASE Deleting
  BY <1>1, <1>4, <1>8 DEF Deleting, HandleDelete, Confirm, Cancel, RemoveFails
<1>9. CASE Renaming
  BY <1>1, <1>5, <1>9 DEF Renaming, HandleRename, RenameFails
<1>10. CASE UNCHANGED vars
  BY <1>1, <1>10 DEF vars
<1> QED
  BY <1>6, <1>7, <1>8, <1>9, <1>10 DEF Next

--------------------------------------------------------------------------------
(* What is shown and chosen. *)

(* A listing that is asked for is well-formed. *)
LEMMA AskKeepsTypes ==
  ASSUME ListingTypes, asked \in Nat, NEW others \in SUBSET fetches, NEW d \in Path,
         NEW here \in BOOLEAN, AskWith(others, d, here), shown' = shown
  PROVE  ListingTypes'
<1>1. asked' \in Nat
  BY DEF AskWith
<1>2. PICK f : f = [no |-> asked', path |-> d, here |-> here, stage |-> "asked", files |-> {}]
  OBVIOUS
<1>3. f \in FetchRecord
  BY <1>1, <1>2 DEF FetchRecord
<1>4. fetches' = others \union {f}
  BY <1>2 DEF AskWith
<1> QED
  BY <1>3, <1>4 DEF ListingTypes

(* A listing has paths. *)
LEMMA ListingIsTyped ==
  ASSUME TreeTypes, NEW d
  PROVE  Listing(d) \in SUBSET Path
BY DEF TreeTypes, Listing, Children

(* A listing that moves on is well-formed. *)
LEMMA MovedToTypes ==
  ASSUME NEW f \in FetchRecord, NEW stage \in {"asked", "read", "answered"}, NEW files \in SUBSET Path
  PROVE  MovedTo(f, stage, files) \in FetchRecord
BY DEF MovedTo, FetchRecord

(* Every step keeps the listings well-formed. *)
LEMMA ListingTypesStep ==
  ASSUME TreeTypes, PathTypes, PathTypes', ListingTypes, asked \in Nat,
         CreationTypes, RenameTypes, [Next]_vars
  PROVE  ListingTypes'
<1>1. CASE UNCHANGED <<shown, fetches>>
  BY <1>1 DEF ListingTypes
<1>2. ASSUME NEW d \in Path, NEW here \in BOOLEAN, AskWith(fetches, d, here), shown' = shown
      PROVE  ListingTypes'
  BY <1>2, AskKeepsTypes
<1>3. ASSUME NEW d \in Path, Ask(d) \/ AskAfter(d), shown' = shown PROVE ListingTypes'
  <2>1. TRUE \in BOOLEAN /\ (d = currentPath) \in BOOLEAN
    OBVIOUS
  <2> QED
    BY <1>2, <1>3, <2>1 DEF Ask, AskAfter
<1>4. CASE \E p \in Places : NavigateTo(p)
  <2>1. Places \subseteq Path
    BY ExplorerAssumption DEF Path
  <2> QED
    BY <1>3, <1>4, <2>1 DEF NavigateTo
<1>5. CASE GoBack \/ GoForward
  <2>1. currentPath' \in Path
    BY DEF PathTypes
  <2> QED
    BY <1>3, <1>5, <2>1 DEF GoBack, GoForward, ListedByBack
<1>6. ASSUME NEW p \in Path, MountWith(p, backStack, forwardStack, fetches), shown' = shown
      PROVE  ListingTypes'
  <2>1. AskWith(fetches, p, TRUE)
    BY <1>6 DEF MountWith
  <2>2. TRUE \in BOOLEAN
    OBVIOUS
  <2> QED
    BY <1>2, <1>6, <2>1, <2>2
<1>7. CASE VisitHome
  BY <1>6, <1>7 DEF VisitHome, PathTypes
<1>8. CASE Reload
  <2>1. /\ asked' \in Nat
        /\ fetches' = {[no |-> asked', path |-> Root, here |-> TRUE, stage |-> "asked", files |-> {}]}
    BY <1>8 DEF Reload, MountWith, AskWith
  <2>2. shown' = [no |-> 0, path |-> Root, here |-> FALSE, files |-> {}]
    BY <1>8 DEF Reload
  <2>3. Root \in Path
    BY DEF Root, Path
  <2> QED
    BY <2>1, <2>2, <2>3 DEF ListingTypes, ListingRecord, FetchRecord
<1>9. CASE DiskSelect \/ DiskRoot
  <2>1. DiskPath \in Path /\ HomeRoot \in Path
    BY ExplorerAssumption DEF Path
  <2>2. ASSUME NEW p \in Path, SetPathAndGoHome(p), shown' = shown PROVE ListingTypes'
    BY <1>1, <1>6, <2>2 DEF SetPathAndGoHome
  <2> QED
    BY <1>9, <2>1, <2>2 DEF DiskSelect, DiskRoot, FoundRoots
<1>10. CASE LeaveHome \/ DiskWithoutRoot \/ Choosing
  BY <1>1, <1>10 DEF LeaveHome, DiskWithoutRoot, Choosing, HandleContextMenu, CloseMenu
<1>11. CASE UploadCompleted
  BY <1>3, <1>11 DEF UploadCompleted, PathTypes
<1>12. ASSUME NEW f \in fetches, ReadDir(f) PROVE ListingTypes'
  <2>1. PICK stage \in {"asked", "read", "answered"} :
          fetches' = (fetches \ {f}) \union {MovedTo(f, stage, Listing(f.path))}
    BY <1>12 DEF ReadDir
  <2>2. f \in FetchRecord /\ Listing(f.path) \in SUBSET Path
    BY ListingIsTyped DEF ListingTypes
  <2>3. MovedTo(f, stage, Listing(f.path)) \in FetchRecord
    BY <2>2, MovedToTypes
  <2> QED
    BY <1>12, <2>1, <2>3 DEF ListingTypes, ReadDir
<1>13. ASSUME NEW f \in fetches, FileInfos(f) PROVE ListingTypes'
  <2>1. f \in FetchRecord /\ f.files \in SUBSET Path
    BY DEF ListingTypes, FetchRecord
  <2>2. PICK files \in SUBSET Path : fetches' = (fetches \ {f}) \union {MovedTo(f, "answered", files)}
    BY <1>13, <2>1 DEF FileInfos
  <2>3. MovedTo(f, "answered", files) \in FetchRecord
    BY <2>1, MovedToTypes
  <2> QED
    BY <1>13, <2>2, <2>3 DEF ListingTypes, FileInfos
<1>14. ASSUME NEW f \in fetches, SetFiles(f) PROVE ListingTypes'
  <2>1. f \in FetchRecord
    BY DEF ListingTypes
  <2>2. [no |-> f.no, path |-> f.path, here |-> f.here, files |-> f.files] \in ListingRecord
    BY <2>1 DEF FetchRecord, ListingRecord
  <2> QED
    BY <1>14, <2>2 DEF SetFiles, ListingTypes
<1>15. ASSUME NEW c \in creations, ChooseName(c) \/ NewFails(c) \/ WriteFile(c) \/ MakeFolder(c)
       PROVE  ListingTypes'
  <2>1. c.dir \in Path
    BY DEF CreationTypes, CreationRecord
  <2> QED
    BY <1>1, <1>3, <1>15, <2>1 DEF ChooseName, NewFails, WriteFile, MakeFolder, PlaceVars
<1>16. CASE Deleting
  <2>1. currentPath \in Path
    BY DEF PathTypes
  <2> QED
    BY <1>1, <1>3, <1>16, <2>1
    DEF Deleting, HandleDelete, Confirm, Cancel, Remove, RemoveFails, RefreshAfterRemoval, PlaceVars
<1>17. ASSUME NEW r \in renames, Rename(r) \/ RenameFails(r) PROVE ListingTypes'
  <2>1. r.dir \in Path
    BY DEF RenameTypes, RenameRecord
  <2> QED
    BY <1>3, <1>17, <2>1 DEF Rename, RenameFails, PlaceVars
<1>18. CASE HandleRename \/ (\E kind \in {"file", "folder"} : HandleNew(kind))
  BY <1>1, <1>18 DEF HandleRename, HandleNew, PlaceVars
<1>19. CASE UNCHANGED vars
  BY <1>1, <1>19 DEF vars
<1> QED
  BY <1>4, <1>5, <1>7, <1>8, <1>9, <1>10, <1>11, <1>12, <1>13, <1>14, <1>15, <1>16, <1>17, <1>18, <1>19
  DEF Next, Going, ListingStep, Creating, Renaming

(* A click outside leaves a well-formed choice. *)
LEMMA ClickKeepsTypes ==
  ASSUME ChoiceTypes, ClickOutside \/ Deselect \/ RedirectToLogin
  PROVE  /\ selected' \in Seq(Path)
         /\ astray' \in BOOLEAN /\ dialog' \in BOOLEAN /\ kept' \in BOOLEAN
<1>1. <<>> \in Seq(Path)
  BY EmptySeq
<1>2. CASE Deselect
  BY <1>1, <1>2 DEF Deselect
<1>3. CASE UNCHANGED choiceVars
  BY <1>3 DEF choiceVars, ChoiceTypes
<1>4. CASE RedirectToLogin
  <2>1. kept' \in BOOLEAN
    BY <1>4 DEF RedirectToLogin
  <2> QED
    BY <1>4, <2>1 DEF RedirectToLogin, ChoiceTypes
<1> QED
  BY <1>2, <1>3, <1>4 DEF ClickOutside

(* So does every step. *)
LEMMA ChoiceTypesStep ==
  ASSUME ChoiceTypes, shown \in ListingRecord, [Next]_vars
  PROVE  ChoiceTypes'
<1>1. CASE UNCHANGED <<choiceVars, mounted, unlisted>>
  BY <1>1 DEF ChoiceTypes, choiceVars
<1>2. ASSUME ClickOutside \/ Deselect \/ RedirectToLogin, mounted' \in BOOLEAN,
             unlisted' \in BOOLEAN
      PROVE  ChoiceTypes'
  BY <1>2, ClickKeepsTypes DEF ChoiceTypes
<1>3. ASSUME NEW p, SetPathAndGoHome(p) PROVE mounted' \in BOOLEAN /\ unlisted' \in BOOLEAN
  BY <1>3 DEF SetPathAndGoHome, MountWith, ChoiceTypes
<1>4. CASE (\E p \in Places : NavigateTo(p)) \/ GoBack \/ GoForward
  <2>1. ClickOutside /\ mounted' = mounted /\ unlisted' = FALSE
    BY <1>4 DEF NavigateTo, GoBack, GoForward
  <2> QED
    BY <1>2, <2>1 DEF ChoiceTypes
<1>5. CASE LeaveHome
  <2>1. (ClickOutside \/ RedirectToLogin) /\ mounted' = FALSE /\ unlisted' = unlisted
    BY <1>5 DEF LeaveHome
  <2> QED
    BY <1>2, <2>1 DEF ChoiceTypes
<1>6. CASE VisitHome
  <2>1. mounted' = TRUE /\ unlisted' = FALSE /\ UNCHANGED <<selected, astray, dialog, kept>>
    BY <1>6, Zenon DEF VisitHome, MountWith, choiceVars
  <2> QED
    BY <2>1 DEF ChoiceTypes
<1>7. CASE Reload
  <2>1. Deselect /\ mounted' = TRUE /\ unlisted' = FALSE
    BY <1>7 DEF Reload, MountWith
  <2> QED
    BY <1>2, <2>1
<1>8. CASE DiskSelect
  BY <1>2, <1>3, <1>8 DEF DiskSelect
<1>9. CASE DiskRoot
  BY <1>3, <1>9 DEF DiskRoot, choiceVars, ChoiceTypes
<1>10. CASE DiskWithoutRoot \/ ListingStep
  BY <1>1, <1>10
  DEF DiskWithoutRoot, ListingStep, UploadCompleted, ReadDir, FileInfos, SetFiles, ListingVars
<1>11. ASSUME NEW p \in shown.files, HandleContextMenu(p) PROVE ChoiceTypes'
  <2>1. p \in Path
    BY DEF ListingRecord
  <2>2. PICK s : s = IF dialog THEN <<>> ELSE selected
    OBVIOUS
  <2>3. s \in Seq(Path) /\ selected' = Append(s, p)
    BY <1>11, <2>2 DEF HandleContextMenu, ChoiceTypes
  <2>4. selected' \in Seq(Path)
    BY <2>1, <2>3, AppendProperties
  <2>5. astray' \in BOOLEAN /\ kept' \in BOOLEAN
    BY <1>11 DEF HandleContextMenu
  <2> QED
    BY <1>11, <2>4, <2>5 DEF HandleContextMenu, ChoiceTypes
<1>12. CASE CloseMenu
  BY <1>2, <1>12 DEF CloseMenu, ChoiceTypes
<1>13. CASE Creating
  BY <1>1, <1>13 DEF Creating, HandleNew, ChooseName, NewFails, WriteFile, MakeFolder, PlaceVars
<1>14. CASE Deleting \/ Renaming
  BY <1>1, <1>14 DEF Deleting, HandleDelete, Confirm, Cancel, Remove, RemoveFails,
                     Renaming, HandleRename, Rename, RenameFails, PlaceVars
<1>15. CASE UNCHANGED vars
  BY <1>1, <1>15 DEF vars
<1> QED
  BY <1>4, <1>5, <1>6, <1>7, <1>8, <1>9, <1>10, <1>11, <1>12, <1>13, <1>14, <1>15
  DEF Next, Going, Choosing

--------------------------------------------------------------------------------
(* What is lost. *)

(* A file whose contents are in no file of the new tree was lost by request. *)
LEMMA LossStep ==
  ASSUME TreeTypes, Rooted, CreationTypes, RenameTypes, [Next]_vars,
         NEW p \in DOMAIN tree, \A q \in DOMAIN tree' : tree'[q] # tree[p]
  PROVE  LostByRequest(p)
<1>1. ASSUME p \in DOMAIN tree', tree'[p] = tree[p] PROVE FALSE
  BY <1>1
<1>2. ASSUME NEW c \in creations, WriteFile(c) PROVE LostByRequest(p)
  <2>1. \A q \in DOMAIN tree : q # c.to => q \in DOMAIN tree' /\ tree'[q] = tree[q]
    BY <1>2 DEF WriteFile, Written
  <2>2. c.to = p
    BY <1>1, <2>1
  <2> QED
    BY <2>2 DEF CreationTypes, LostByRequest
<1>3. ASSUME NEW c, MakeFolder(c) PROVE FALSE
  BY <1>1, <1>3 DEF MakeFolder, MadeDirs
<1>4. ASSUME NEW d \in deletions, Remove(d) PROVE LostByRequest(p)
  <2>1. Head(d.files) \in Above(p)
    BY <1>1, <1>4 DEF Remove, Removed, Under
  <2> QED
    BY <1>4, <2>1 DEF Remove, LostByRequest
<1>5. ASSUME NEW r \in renames, Rename(r) PROVE LostByRequest(p)
  <2>1. PICK a : a = r.from
    OBVIOUS
  <2>2. PICK b : b = r.to
    OBVIOUS
  <2>3. a \in Path /\ b \in Path /\ CanRename(a, b) /\ tree' = Renamed(a, b)
    BY <1>5, <2>1, <2>2 DEF RenameTypes, RenameRecord, Rename
  <2>4. p \notin Under(a)
    BY <2>3, RenamedTo
  <2>5. p = b
    <3>1. SUFFICES ASSUME p # b PROVE FALSE
      OBVIOUS
    <3>2. b \notin Above(p)
      BY <2>3, <2>4, <3>1, NothingBelow
    <3>3. ASSUME NEW o \in Under(a) PROVE Moved(o, a, b) # p
      <4>1. o \in Path /\ a \in Above(o)
        BY DEF Under, TreeTypes
      <4>2. b \in Above(Moved(o, a, b))
        BY <2>3, <4>1, BelowNew
      <4> QED
        BY <3>2, <4>2
    <3>4. p \in DOMAIN tree' /\ tree'[p] = tree[p]
      BY <2>3, <2>4, <3>1, <3>3, RenamedTo
    <3> QED
      BY <1>1, <3>4
  <2> QED
    BY <2>2, <2>5 DEF LostByRequest
<1>6. CASE Going \/ ListingStep \/ Choosing
  BY <1>1, <1>6
  DEF Going, NavigateTo, GoBack, GoForward, LeaveHome, VisitHome, Reload, DiskSelect, DiskRoot,
      DiskWithoutRoot, ListingStep, UploadCompleted, ReadDir, FileInfos, SetFiles, ListingVars,
      Choosing, HandleContextMenu, CloseMenu
<1>7. CASE Creating
  BY <1>1, <1>2, <1>3, <1>7 DEF Creating, HandleNew, ChooseName, NewFails
<1>8. CASE Deleting
  BY <1>1, <1>4, <1>8 DEF Deleting, HandleDelete, Confirm, Cancel, RemoveFails
<1>9. CASE Renaming
  BY <1>1, <1>5, <1>9 DEF Renaming, HandleRename, RenameFails
<1>10. CASE UNCHANGED vars
  BY <1>1, <1>10 DEF vars
<1> QED
  BY <1>6, <1>7, <1>8, <1>9, <1>10 DEF Next

(* Every step keeps all the types. *)
LEMMA TypesStep ==
  ASSUME Types, PathTypes, PathTypes', asked \in Nat, [Next]_vars
  PROVE  Types'
<1>1. TreeTypes' /\ Rooted'
  BY TreeStep DEF Types
<1>2. CreationTypes' /\ AtMost(creations', gestures')
  BY CreationStep DEF Types
<1>3. selected \in Seq(Path) /\ astray \in BOOLEAN /\ unlisted \in BOOLEAN
  BY DEF Types, ChoiceTypes
<1>4. DeletionTypes' /\ AtMost(deletions', gestures')
  BY <1>3, DeletionStep DEF Types
<1>5. RenameTypes' /\ AtMost(renames', gestures')
  BY <1>3, RenameStep DEF Types
<1>6. gestures' \in 0 .. NumGestures /\ disks' \in Nat
  BY GesturesStep DEF Types, OperationTypes
<1>7. OperationTypes'
  BY <1>2, <1>4, <1>5, <1>6 DEF OperationTypes
<1>8. ListingTypes'
  BY ListingTypesStep DEF Types
<1>9. ChoiceTypes'
  BY ChoiceTypesStep DEF Types, ListingTypes
<1> QED
  BY <1>1, <1>2, <1>4, <1>5, <1>7, <1>8, <1>9 DEF Types

--------------------------------------------------------------------------------
(* The invariant, and what follows from it. *)

(* The invariant holds at first. *)
LEMMA Initially == Init => IInv
<1> SUFFICES ASSUME Init PROVE IInv
  OBVIOUS
<1>1. Listings
  BY DEF Init, Listings, Numbered, ReadIsTrue, LastAskedIsTrue, FilesOfItsPath
<1>2. AskedWhereItIs /\ ShowsWhereItIs
  BY DEF Init, AskedWhereItIs, ShowsWhereItIs
<1>3. PathTypes
  BY DEF Init, PathTypes, Path, Root
<1>4. Chosen /\ RenamesFromItsDirectory
  <2>1. dialog = FALSE /\ kept = FALSE /\ selected = <<>> /\ renames = {}
    BY Zenon DEF Init
  <2> QED
    BY <2>1 DEF Chosen, RenamesFromItsDirectory
<1>5. TreeTypes /\ Rooted
  <2>1. TreeTypes
    BY ExplorerAssumption DEF Init, TreeTypes, Path
  <2>2. ASSUME NEW p \in DOMAIN FirstTree, NEW d \in Above(p), d # p
        PROVE  d \in DOMAIN FirstTree /\ FirstTree[d] = "dir"
    <3>1. p \in Path
      BY ExplorerAssumption DEF Path
    <3>2. PICK n \in 0 .. Len(p) : d = SubSeq(p, 1, n)
      BY DEF Above
    <3>3. Len(p) \in Nat /\ n \in Nat /\ n <= Len(p)
      BY <3>1, <3>2 DEF Path
    <3>4. n # Len(p)
      <4>1. SUFFICES ASSUME n = Len(p) PROVE FALSE
        OBVIOUS
      <4>2. Len(d) = Len(p)
        BY <3>1, <3>2, <3>3, <4>1, Beginning
      <4> QED
        BY <2>2, <3>1, <4>2, AboveFacts
    <3>5. n \in 0 .. Len(p) - 1
      BY <3>3, <3>4
    <3> QED
      BY <3>2, <3>5, ExplorerAssumption
  <2> QED
    BY <2>1, <2>2 DEF Init, Rooted, IsDir
<1>6. OperationTypes /\ CreationTypes /\ DeletionTypes /\ RenameTypes
  <2>1. NumGestures \in Nat /\ AtMost({}, 0)
    BY ExplorerAssumption, FS_EmptySet DEF AtMost
  <2> QED
    BY <2>1 DEF Init, OperationTypes, CreationTypes, DeletionTypes, RenameTypes
<1>7. ListingTypes
  BY <1>3 DEF Init, ListingTypes, ListingRecord, FetchRecord, PathTypes
<1>8. ChoiceTypes
  <2>1. <<>> \in Seq(Path)
    BY EmptySeq
  <2>2. /\ selected = <<>> /\ astray = FALSE /\ dialog = FALSE /\ kept = FALSE
        /\ mounted = TRUE /\ unlisted = FALSE
    BY Zenon DEF Init
  <2> QED
    BY <2>1, <2>2 DEF ChoiceTypes
<1> QED
  BY <1>1, <1>2, <1>3, <1>4, <1>5, <1>6, <1>7, <1>8 DEF IInv, Types

(* Every step keeps the invariant. *)
LEMMA Inductive == IInv /\ [Next]_vars => IInv'
<1> SUFFICES ASSUME IInv, [Next]_vars PROVE IInv'
  OBVIOUS
<1>1. Listings'
  BY ListingsStep DEF IInv
<1>2. Where'
  BY WhereStep DEF IInv, Where, Listings
<1>3. PathTypes'
  BY PathTypesStep DEF IInv
<1>4. Chosen'
  BY ChosenStep DEF IInv, Listings, Types, ListingTypes
<1>5. RenamesFromItsDirectory'
  BY MovedStep DEF IInv
<1>6. Types'
  BY <1>3, TypesStep DEF IInv, Listings, Numbered
<1> QED
  BY <1>1, <1>2, <1>3, <1>4, <1>5, <1>6 DEF IInv, Where

(* The invariant always holds. *)
LEMMA Always == Spec => []IInv
BY Initially, Inductive, PTL DEF Spec

(* Every variable has its type; the numbers that tell operations apart do  *)
(* not run out.                                                            *)
THEOREM TypeCorrect == Spec => []TypeOK
<1>1. IInv => TypeOK
  <2> SUFFICES ASSUME IInv PROVE TypeOK
    OBVIOUS
  <2>1. (\A p \in DOMAIN tree : p \in Path /\ tree[p] \in Contents \union {"dir", "blank"})
    BY DEF IInv, Types, TreeTypes
  <2>2. currentPath \in Path /\ backStack \in Seq(Path) /\ forwardStack \in Seq(Path)
    BY DEF IInv, PathTypes
  <2>3. /\ selected \in Seq(Path)
        /\ astray \in BOOLEAN /\ dialog \in BOOLEAN /\ kept \in BOOLEAN
        /\ mounted \in BOOLEAN /\ unlisted \in BOOLEAN
    BY DEF IInv, Types, ChoiceTypes
  <2>4. /\ shown \in ListingRecord /\ shown.no <= asked
        /\ \A f \in fetches : f \in FetchRecord /\ f.no <= asked
        /\ asked \in Nat
    BY DEF IInv, Types, ListingTypes, Listings, Numbered
  <2>5. /\ \A c \in creations : c \in CreationRecord
        /\ \A d \in deletions : d \in DeletionRecord
        /\ \A r \in renames : r \in RenameRecord
        /\ disks \in Nat /\ gestures \in 0 .. NumGestures
    BY DEF IInv, Types, OperationTypes, CreationTypes, DeletionTypes, RenameTypes
  <2> QED
    BY <2>1, <2>2, <2>3, <2>4, <2>5 DEF TypeOK
<1> QED
  BY <1>1, Always, PTL

(* Contents that are there before a step and nowhere after it were the     *)
(* subject of a deletion that was confirmed, lay under the name that a     *)
(* rename goes to, or under a name that was free when handleNewFile chose  *)
(* it and is not when it writes (lib/files.ts:140): making directories,    *)
(* going places and moving a whole directory lose nothing.                 *)
THEOREM NothingElseIsLost == Spec => OnlyByRequest
<1>1. ASSUME IInv, [Next]_vars
      PROVE  [\A p \in DOMAIN tree :
                tree[p] \in Contents /\ (\A q \in DOMAIN tree' : tree'[q] # tree[p]) =>
                  LostByRequest(p)]_vars
  BY <1>1, LossStep DEF IInv, Types
<1> QED
  BY <1>1, Always, PTL DEF Spec, OnlyByRequest

(* The listing on the screen, if it is the one asked for last, is what is  *)
(* in its directory now: whatever operation changes the tree asks for a    *)
(* listing in the same step, and a listing read before is not the last     *)
(* (fetchFiles of useFileExplorerStore.ts after every operation).          *)
THEOREM LastListingIsTrue == Spec => []LastAskedIsTrue
<1>1. IInv => LastAskedIsTrue
  BY DEF IInv, Listings
<1> QED
  BY <1>1, Always, PTL

(* And it is that of the directory the user is in, unless an operation     *)
(* that began elsewhere asked for it or a disk has been selected since.    *)
THEOREM LastListingIsWhereItIs == Spec => []ShowsWhereItIs
<1>1. IInv => ShowsWhereItIs
  BY DEF IInv
<1> QED
  BY <1>1, Always, PTL

(* A file is selected only while its menu is open, and only that file: what *)
(* a right click adds to selectedFiles has nothing before it, unless the    *)
(* redirect of App.tsx has taken a menu away and left its file selected.    *)
THEOREM OneIsSelected == Spec => []OneSelected
<1>1. IInv => OneSelected
  <2> SUFFICES ASSUME IInv, ~kept PROVE Len(selected) = (IF dialog THEN 1 ELSE 0)
    BY DEF OneSelected
  <2>1. CASE dialog
    <3>1. selected = <<selected[1]>>
      BY <2>1 DEF IInv, Chosen
    <3>2. Len(<<selected[1]>>) = 1
      OBVIOUS
    <3> QED
      BY <2>1, <3>1, <3>2, Zenon
  <2>2. CASE ~dialog
    BY <2>2 DEF IInv, Chosen
  <2> QED
    BY <2>1, <2>2
<1> QED
  BY <1>1, Always, PTL

(* handleRename joins whatever is typed to the current path, which is that  *)
(* of the file, but for a file of an old listing or a disk selected since.  *)
THEOREM RenameStartsAtItsDirectory == Spec => []RenamesFromItsDirectory
<1>1. IInv => RenamesFromItsDirectory
  BY DEF IInv
<1> QED
  BY <1>1, Always, PTL

(* The two stacks and the current path are the trail of a browser and a    *)
(* position on it (goBack, goForward, navigateTo of                        *)
(* useFileExplorerStore.ts, useLastPath), whatever else goes on.           *)
THEOREM ImplementsBrowserHistory == Spec => KeepsHistory
<1>1. Init => History!Init
  <2> SUFFICES ASSUME Init PROVE History!Init
    OBVIOUS
  <2>1. backStack = <<>> /\ forwardStack = <<>> /\ currentPath = Root
    BY DEF Init
  <2>2. <<>> \o <<Root>> \o Reversed(<<>>) = <<Root>>
    <3>1. Root \in Path /\ <<>> \in Seq(Path) /\ Len(<<>>) = 0
      BY DEF Root, Path
    <3>2. <<>> \o <<Root>> \o Reversed(<<>>) = Trail(<<>>, Root, <<>>)
      BY <3>1, StacksAreTrail, Zenon
    <3>3. Trail(<<>>, Root, <<>>) = [i \in 1 .. 1 |-> Root]
      BY <3>1 DEF Trail
    <3>4. <<Root>> = [i \in 1 .. 1 |-> Root]
      OBVIOUS
    <3> QED
      BY <3>2, <3>3, <3>4
  <2> QED
    BY <2>1, <2>2 DEF History!Init
<1>2. IInv /\ IInv' /\ [Next]_vars
        => [History!Next]_<<backStack \o <<currentPath>> \o Reversed(forwardStack), Len(backStack) + 1>>
  BY HistoryStep, MapsToTrail DEF IInv
<1> QED
  BY <1>1, <1>2, Always, PTL DEF Spec, KeepsHistory, History!Spec
================================================================================
