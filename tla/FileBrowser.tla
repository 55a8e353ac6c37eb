---------------------------- MODULE FileBrowser ----------------------------
(***************************************************************************)
(* The file browser of Load and Save (browsefiles.js; Main.load, Main.save *)
(* in main.js): the folder it believes to be in, the folder whose files    *)
(* it shows, the GETs under way, and where a file is opened or saved.  A   *)
(* path is the sequence its text splits into at "/": "/a" is <<"", "a">>,  *)
(* and an empty name stays in it for good ("//a").                         *)
(***************************************************************************)
EXTENDS Naturals, Sequences

CONSTANTS
  Dirs,         (* the folders of the server, as sequences of names         *)
  Stored,       (* and the files, as a folder and a name                    *)
  MaxPath,      (* bounds of a run: how long a path grows,                  *)
  Browsing      (* and what the user does                                   *)

ASSUME FileBrowserAssumption ==
  <<>> \in Dirs /\ Dirs \subseteq Seq(STRING) /\ MaxPath \in Nat \ {0, 1} /\ Browsing \in Nat
  /\ \A f \in Stored : f[1] \in Dirs

VARIABLES
  dialog,       (* "none", "load" or "save"                                 *)
  path,         (* BrowseFiles.path                                         *)
  listing,      (* the path whose files are shown, or Nowhere               *)
  asking,       (* the paths asking for and not answered                     *)
  chosen,       (* files opened and places saved to: path, and what was     *)
                (* shown then                                               *)
  jumped,       (* history: a link from the root was clicked, and nothing   *)
                (* was answered since                                       *)
  browsing

fileVars == <<dialog, path, listing, asking, chosen, jumped, browsing>>

Nowhere == <<>>
Empty == ""                                 (* before the first "/"         *)
Root == <<Empty, Empty>>
NotEmpty(x) == x # Empty
RealDir(p) == SelectSeq(p, NotEmpty)        (* get_real_dir, opendir        *)

Click == browsing > 0 /\ browsing' = browsing - 1

(* new BrowseFiles(): the answers to an older one go to its own contents.  *)
OpenBrowser(kind) ==
  /\ Click /\ dialog = "none"
  /\ dialog' = kind
  /\ path' = <<Empty>> /\ listing' = Nowhere /\ asking' = {Root}
  /\ jumped' = FALSE /\ UNCHANGED chosen

(* updateContents.                                                         *)
UpdateContents(newpath) ==
  /\ Len(newpath) <= MaxPath
  /\ asking' = asking \cup {newpath}

(* chdir: the name of a folder is added to where the browser is by now; a  *)
(* link of the heading starts again at the root, at once.                  *)
ChdirDown(name) ==
  /\ Click /\ dialog # "none" /\ listing # Nowhere
  /\ \E d \in Dirs : d = Append(RealDir(listing), name)
  /\ UpdateContents(Append(path, name))
  /\ UNCHANGED <<dialog, path, listing, chosen, jumped>>

ChdirFromRoot(i) ==
  /\ Click /\ dialog # "none" /\ listing \notin {Nowhere, Root}
  /\ path' = Root /\ jumped' = TRUE
  /\ UpdateContents(IF i = 0 THEN Append(Root, Empty) ELSE Root \o SubSeq(RealDir(listing), 1, i))
  /\ UNCHANGED <<dialog, listing, chosen>>

(* The path does not follow the listing. *)
ContentsOnly(p) ==
  /\ RealDir(p) \in Dirs
  /\ listing' = p /\ jumped' = FALSE
  /\ asking' = asking \ {p}
  /\ UNCHANGED <<dialog, path, chosen, browsing>>

(* The answers come in any order; a folder that is not there is an error.  *)
Contents(p) ==
  /\ RealDir(p) \in Dirs
  /\ path' = p /\ listing' = p /\ jumped' = FALSE
  /\ asking' = asking \ {p}
  /\ UNCHANGED <<dialog, chosen, browsing>>

CantChdir(p) ==
  /\ RealDir(p) \notin Dirs
  /\ asking' = asking \ {p}
  /\ UNCHANGED <<dialog, path, listing, chosen, jumped, browsing>>

(* A click on a file posts its name and the path to /upload/; Accept of    *)
(* Save posts the path, and Accept of Load asks for what was uploaded.     *)
OpenFile(f) ==
  /\ Click /\ dialog # "none" /\ listing # Nowhere /\ f[1] = RealDir(listing)
  /\ dialog = "load"                        (* show_files                   *)
  /\ chosen' = chosen \cup {[path |-> path, shown |-> listing, jumped |-> jumped]}
  /\ UNCHANGED <<dialog, path, listing, asking, jumped>>

AcceptFolder ==
  /\ Click /\ dialog # "none" /\ dialog' = "none"
  /\ chosen' = IF dialog = "load" THEN chosen
               ELSE chosen \cup {[path |-> path, shown |-> listing, jumped |-> jumped]}
  /\ asking' = {} /\ listing' = Nowhere /\ path' = <<Empty>> /\ jumped' = FALSE

FileInit ==
  /\ dialog = "none" /\ path = <<Empty>> /\ listing = Nowhere /\ asking = {} /\ chosen = {}
  /\ jumped = FALSE /\ browsing = Browsing

FileNext ==
  \/ \E kind \in {"load", "save"} : OpenBrowser(kind)
  \/ \E d \in Dirs \ {<<>>} : ChdirDown(d[Len(d)])
  \/ \E i \in 0 .. Len(RealDir(listing)) : ChdirFromRoot(i)
  \/ \E p \in asking : Contents(p) \/ CantChdir(p)
  \/ \E f \in Stored : OpenFile(f)
  \/ AcceptFolder
FileSpec == FileInit /\ [][FileNext]_fileVars

-----------------------------------------------------------------------------
(* The paths are split texts that start at the root, and the dialog that   *)
(* is not shown asks for nothing.                                          *)
FileTypeOK ==
  /\ dialog \in {"none", "load", "save"} /\ jumped \in BOOLEAN /\ browsing \in 0 .. Browsing
  /\ path[1] = Empty /\ \A p \in asking : p[1] = Empty /\ Len(p) \in 2 .. MaxPath
  /\ dialog = "none" => asking = {} /\ listing = Nowhere
  /\ listing # Nowhere => RealDir(listing) \in Dirs

(* A file is opened from the folder that is shown, and Save saves there,   *)
(* though answers overtake each other; a link of the heading alone takes   *)
(* the browser to the root before the root is shown.                       *)
ChosenAsShown ==
  \A c \in chosen :
    \/ c.path = c.shown
    \/ c.shown = Nowhere /\ c.path = <<Empty>>
    \/ c.jumped /\ c.path = Root
=============================================================================
