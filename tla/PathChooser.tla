----------------------------- MODULE PathChooser -----------------------------
(***************************************************************************)
(* The rows of mounts of a stopped host's page (form = "manager") and of   *)
(* the dialog that creates a host (form = "create"): a path is typed,      *)
(* taken from the list below its field, or picked in the directory         *)
(* chooser, and the rows are filtered when they are sent.  Rows are known  *)
(* by their index, and each has a list and a chooser of its own.  On a     *)
(* running host's page (form = "browser") the container's files are        *)
(* browsed.  A path is its root ("/", a drive, or none when relative), its *)
(* directories, and whether a separator follows: that tells "C:\" from     *)
(* "C:".                                                                   *)
(***************************************************************************)
EXTENDS Integers, Sequences, SequencesExt, Filters

CONSTANTS
    Drive, Letter,  \* a drive, and the directory that stands for it in a container's mount
    Folders,        \* the directories of the control plane's machine: <<root, directories>>
    Refused,        \* those of Folders that the server refuses to list
    Inside,         \* the directories of a running host's container
    Begins,         \* pairs: a text, a directory's name that begins with it
    Texts,          \* paths the user types
    NoMounts,
    MaxRows,        \* bound: rows of the form
    MaxSteps        \* bound: choosers opened, lists picked from and texts typed

ASSUME PathAssumption ==
    /\ Drive \notin {"/", ""}
    /\ \A f \in Folders: f[1] \in {"/", Drive} /\ (f[2] # <<>> => <<f[1], Front(f[2])>> \in Folders)
    /\ Refused \subseteq Folders
    /\ \A t \in Texts: /\ t = [root |-> t.root, dirs |-> t.dirs, slash |-> t.slash]
                       /\ t.root \in {"/", "", Drive} /\ t.slash \in BOOLEAN
    /\ MaxRows \in Nat \ {0} /\ MaxSteps \in Nat

VARIABLES
    form,     \* "manager", "create" or "browser"
    rows,     \* [source, target, picked], picked: where its chooser was, if the source is that (history)
    mounts,   \* the mounts the page has fetched
    sent,     \* the mounts of the request under way, or NoMounts
    opened,   \* rows whose list is open
    blurred,  \* rows whose field was left less than 150 ms ago
    chooser,  \* the row whose chooser is open, or 0
    at,       \* where the chooser is
    browsing, \* where the browser of the container's files is
    steps

pathVars == <<form, rows, mounts, sent, opened, blurred, chooser, at, browsing, steps>>

Path(root, dirs, slash) == [root |-> root, dirs |-> dirs, slash |-> slash]
Empty    == Path("", <<>>, FALSE)
Top      == Path("/", <<>>, TRUE)
EmptyRow == [source |-> Empty, target |-> Empty, picked |-> Empty]

-----------------------------------------------------------------------------
(* Paths.                                                                  *)

IsWindowsPath(p)  == p.root = Drive /\ (p.dirs # <<>> \/ p.slash)
IsAbsolutePath(p) == p.root = "/" \/ IsWindowsPath(p)

ToDockerMountPath(p) ==
    IF IsWindowsPath(p) THEN Path("/", <<Letter>> \o p.dirs, p.slash) ELSE p

\* The directory above a drive's first one comes out without its separator: a
\* bare drive, no longer a Windows path, nor an absolute one.
GetParentPath(p) ==
    CASE IsWindowsPath(p) -> IF p.dirs = <<>> THEN Path(Drive, <<>>, TRUE) ELSE Path(Drive, Front(p.dirs), FALSE)
      [] ~IsWindowsPath(p) /\ Len(p.dirs) > 1 -> Path(p.root, Front(p.dirs), FALSE)
      [] OTHER -> Top

\* Above the last one, which is only a label.
Breadcrumbs(p) ==
    IF IsWindowsPath(p) THEN {Path(Drive, SubSeq(p.dirs, 1, n), TRUE): n \in 0..Len(p.dirs) - 1} \cup
                             {Path(Drive, <<>>, TRUE)}
    ELSE {Top} \cup {Path("/", SubSeq(p.dirs, 1, n), FALSE): n \in 1..Len(p.dirs) - 1}

ResolveInitialPath(p) == IF p = Empty THEN Top ELSE Path(p.root, p.dirs, TRUE)

\* The server's answer to a listing; a failed one shows nothing to pick.
List(folders, p) ==
    IF <<p.root, p.dirs>> \in Refused THEN {}
    ELSE {Last(f[2]): f \in {g \in folders: g[1] = p.root /\ g[2] # <<>> /\ Front(g[2]) = p.dirs}}

\* The query is sent for absolute paths only, and its answer kept under its path.
HostFiles(folders, p) == IF IsAbsolutePath(p) THEN List(folders, p) ELSE {}

\* A text without separator at its end is a directory and the beginning of a name.
GetQueryAndFilter(p) ==
    IF p.slash \/ p.dirs = <<>> THEN [query |-> Path(p.root, p.dirs, TRUE), filter |-> ""]
    ELSE [query |-> Path(p.root, Front(p.dirs), TRUE), filter |-> Last(p.dirs)]

\* The manager's field asks the container of its host, which is stopped and lists
\* nothing.
Offered(p) ==
    LET qf == GetQueryAndFilter(p)
    IN  {n \in HostFiles(IF form = "create" THEN Folders ELSE {}, qf.query):
            qf.filter \in {"", n} \/ <<qf.filter, n>> \in Begins}

-----------------------------------------------------------------------------
PathInit ==
    /\ form \in {"manager", "create", "browser"}
    /\ rows = <<EmptyRow>> /\ mounts = <<>> /\ sent = NoMounts
    /\ opened = {} /\ blurred = {} /\ chooser = 0 /\ at = Top
    /\ browsing = Top /\ steps = 0

Step == steps < MaxSteps /\ steps' = steps + 1

\* A row's target follows its source as long as there is none.
UpdateSource(i, p, shown) ==
    rows' = [rows EXCEPT ![i] = [source |-> p, picked |-> shown,
                                 target |-> IF @.target = Empty THEN p ELSE @.target]]

\* The chooser's effect: it starts again where its row now is, and goes with it.
Follow(newRows) ==
    /\ chooser' = IF chooser \in DOMAIN newRows THEN chooser ELSE 0
    /\ at' = IF chooser \in DOMAIN newRows /\ newRows[chooser].source # rows[chooser].source
             THEN ResolveInitialPath(newRows[chooser].source) ELSE at

-----------------------------------------------------------------------------
(* The rows, with no chooser in front of them.                             *)

InFront == chooser = 0 /\ form # "browser" /\ UNCHANGED <<form, mounts, chooser, at, browsing>>

AddMountRow ==
    /\ InFront /\ Len(rows) < MaxRows
    /\ rows' = Append(rows, EmptyRow)
    /\ UNCHANGED <<sent, opened, blurred, steps>>

RemoveMountRow(i) ==
    /\ InFront
    /\ rows' = RemoveAt(rows, i)
    /\ opened' = opened \ {Len(rows)} /\ blurred' = blurred \ {Len(rows)}
    /\ UNCHANGED <<sent, steps>>

TypeSource(i, t) ==
    /\ InFront /\ Step /\ t # rows[i].source
    /\ UpdateSource(i, t, Empty)
    /\ opened' = IF IsAbsolutePath(t) THEN opened \cup {i} ELSE opened
    /\ UNCHANGED <<sent, blurred>>

TypeTarget(i, t) ==
    /\ InFront /\ Step /\ t # rows[i].target
    /\ rows' = [rows EXCEPT ![i].target = t]
    /\ UNCHANGED <<sent, opened, blurred>>

HandleFocus(i) ==
    /\ InFront /\ IsAbsolutePath(rows[i].source) /\ i \notin opened
    /\ opened' = opened \cup {i}
    /\ UNCHANGED <<rows, sent, blurred, steps>>

HandleBlur(i) ==
    /\ InFront /\ i \in opened /\ i \notin blurred
    /\ blurred' = blurred \cup {i}
    /\ UNCHANGED <<rows, sent, opened, steps>>

\* Coming back to the field does not stop the clock.
BlurTimer(i) ==
    /\ i \in blurred
    /\ opened' = opened \ {i} /\ blurred' = blurred \ {i}
    /\ UNCHANGED <<form, rows, mounts, sent, chooser, at, browsing, steps>>

ShowDropdown(i) == i \in opened /\ IsAbsolutePath(rows[i].source)

\* By mouse or keys.
HandleSelectEntry(i, n) ==
    /\ InFront /\ Step /\ ShowDropdown(i) /\ n \in Offered(rows[i].source)
    /\ LET q == GetQueryAndFilter(rows[i].source).query
       IN  UpdateSource(i, Path(q.root, Append(q.dirs, n), FALSE), Empty)
    /\ opened' = opened \ {i}
    /\ UNCHANGED <<sent, blurred>>

-----------------------------------------------------------------------------
(* The chooser.                                                            *)

Chooses == chooser # 0 /\ UNCHANGED <<form, mounts, sent, opened, blurred, browsing>>

OpenChooser(i) ==
    /\ chooser = 0 /\ form # "browser" /\ Step
    /\ chooser' = i /\ at' = ResolveInitialPath(rows[i].source)
    /\ UNCHANGED <<form, rows, mounts, sent, opened, blurred, browsing>>

CloseChooser == Chooses /\ chooser' = 0 /\ UNCHANGED <<rows, at, steps>>

Enter(n) ==
    /\ Chooses /\ n \in HostFiles(Folders, at)
    /\ at' = Path(at.root, Append(at.dirs, n), FALSE)
    /\ UNCHANGED <<rows, chooser, steps>>

GoTo(crumb) ==
    /\ Chooses /\ crumb \in Breadcrumbs(at)
    /\ at' = crumb
    /\ UNCHANGED <<rows, chooser, steps>>

Backspace ==
    /\ Chooses /\ GetParentPath(at) # at
    /\ at' = GetParentPath(at)
    /\ UNCHANGED <<rows, chooser, steps>>

\* Not the code: the chooser's path as it stands.
HandleSelectAsShown ==
    /\ Chooses
    /\ UpdateSource(chooser, at, at)
    /\ chooser' = 0 /\ UNCHANGED <<at, steps>>

HandleSelect ==
    /\ Chooses
    /\ UpdateSource(chooser, ToDockerMountPath(at), at)
    /\ chooser' = 0 /\ UNCHANGED <<at, steps>>

-----------------------------------------------------------------------------
(* Sending, and the answer.                                                *)

Mount(row)   == [source |-> row.source, target |-> row.target]
RowOf(mount) == [source |-> mount.source, target |-> mount.target, picked |-> Empty]
Complete(rs) == Filter(rs, {i \in DOMAIN rs: rs[i].source # Empty /\ rs[i].target # Empty})

\* Rows the server would refuse are left out, without a word.
ToSave == Filter(rows, {i \in DOMAIN rows: rows[i].source.root = "/" /\ rows[i].target.root = "/"})

MountsOf(rs) == [i \in DOMAIN rs |-> Mount(rs[i])]

HandleSave ==
    /\ InFront /\ sent = NoMounts
    /\ form = "manager" => MountsOf(Complete(rows)) # mounts
    /\ sent' = MountsOf(ToSave)
    /\ UNCHANGED <<rows, opened, blurred, steps>>

\* The manager's rows become those that were sent, also below an open chooser; the
\* create dialog goes on to its task, and is empty the next time.
RowsSaved ==
    LET kept    == IF form = "create" THEN <<>> ELSE [i \in DOMAIN sent |-> RowOf(sent[i])]
        newRows == IF kept = <<>> THEN <<EmptyRow>> ELSE kept
    IN  /\ sent # NoMounts /\ sent' = NoMounts
        /\ mounts' = IF form = "create" THEN mounts ELSE sent
        /\ rows' = newRows
        /\ opened' = opened \cap DOMAIN newRows /\ blurred' = blurred \cap DOMAIN newRows
        /\ IF form = "create" THEN chooser' = 0 /\ at' = at ELSE Follow(newRows)
        /\ UNCHANGED <<form, browsing, steps>>

RowsNotSaved ==
    /\ sent # NoMounts /\ sent' = NoMounts
    /\ UNCHANGED <<form, rows, mounts, opened, blurred, chooser, at, browsing, steps>>

-----------------------------------------------------------------------------
(* The browser of the files of the host's container: directories and crumbs *)
(* of Unix paths.                                                           *)

Browse(p) ==
    /\ form = "browser"
    /\ browsing' = p
    /\ UNCHANGED <<form, rows, mounts, sent, opened, blurred, chooser, at, steps>>

PathNext ==
    \/ AddMountRow \/ CloseChooser \/ Backspace \/ HandleSelect
    \/ \E i \in DOMAIN rows: \/ RemoveMountRow(i) \/ HandleFocus(i) \/ HandleBlur(i) \/ OpenChooser(i)
                             \/ \E t \in Texts: TypeSource(i, t) \/ TypeTarget(i, t)
                             \/ \E n \in Offered(rows[i].source): HandleSelectEntry(i, n)
    \/ \E i \in blurred: BlurTimer(i)
    \/ \E n \in HostFiles(Folders, at): Enter(n)
    \/ \E c \in Breadcrumbs(at): GoTo(c)
    \/ HandleSave \/ RowsSaved \/ RowsNotSaved
    \/ \E n \in HostFiles(Inside, browsing): Browse(Path("/", Append(browsing.dirs, n), FALSE))
    \/ \E c \in Breadcrumbs(browsing): Browse(c)

PathSpec == PathInit /\ [][PathNext]_pathVars

-----------------------------------------------------------------------------
(* Types of all variables.                                                 *)
IsPath(p) == p.root \in {"/", "", Drive} /\ p.slash \in BOOLEAN

PathTypeOK ==
    /\ form \in {"manager", "create", "browser"} /\ Len(rows) <= MaxRows
    /\ \A i \in DOMAIN rows: IsPath(rows[i].source) /\ IsPath(rows[i].target) /\ IsPath(rows[i].picked)
    /\ sent = NoMounts \/ \A i \in DOMAIN sent: sent[i].source.root = "/" /\ sent[i].target.root = "/"
    /\ blurred \subseteq DOMAIN rows /\ opened \subseteq DOMAIN rows
    /\ chooser \in DOMAIN rows \cup {0} /\ IsPath(at) /\ browsing.root = "/"
    /\ steps \in 0..MaxSteps

\* A directory as a mount names it.
Mounted(p) == IF p.root = Drive THEN <<Letter>> \o p.dirs ELSE p.dirs

(* A directory picked in the chooser is mounted: wherever the chooser went *)
(* from where it was opened, and whatever was done to the other rows, the  *)
(* next save sends a mount of the directory it showed, if the row has an   *)
(* absolute target.  Except for a bare drive, where Backspace leads from a *)
(* drive's first directories, and for what was relative in the field from  *)
(* the start: the save drops both.                                         *)
PicksMounted ==
    [][sent = NoMounts /\ sent' # NoMounts =>
        \A i \in DOMAIN rows:
            /\ rows[i].picked.root # "" /\ rows[i].picked # Path(Drive, <<>>, FALSE)
            /\ rows[i].target.root = "/"
            => \E j \in DOMAIN sent': /\ sent'[j].source.dirs = Mounted(rows[i].picked)
                                      /\ sent'[j].target = rows[i].target]_pathVars
=============================================================================
