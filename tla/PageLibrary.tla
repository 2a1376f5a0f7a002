---------------------------- MODULE PageLibrary ----------------------------
(***************************************************************************)
(* What wiki fetch promises about the files of a workspace that stays, one *)
(* command at a time: a page and its location appear in one step, a        *)
(* fetched page is replaced where it is tracked, and a fetch that fails    *)
(* leaves the library as it was.  A file that no location names is left    *)
(* only by a command that died or could not roll back.                     *)
(***************************************************************************)
CONSTANTS
    Paths,      \* where a file may be
    Pages,      \* the contents a fetch writes, each with its resource
    NULL,       \* no file
    UserFile,   \* a regular file of the user
    OtherFile   \* anything but a regular file

VARIABLES
    contents,   \* what is at each path
    locations,  \* the locations of materialized files
    running     \* whether a command runs

library == <<contents, locations, running>>

Init ==
    /\ contents = [p \in Paths |-> NULL]
    /\ locations = {}
    /\ running = FALSE

(* The first fetch of a page takes a free path.                            *)
Materialize(l, page) ==
    /\ running
    /\ contents[l.path] = NULL
    /\ page.resource = l.resource
    /\ \A k \in locations : k.path # l.path
    /\ \A k \in locations : k.workspace = l.workspace => k.resource # l.resource
    /\ contents' = [contents EXCEPT ![l.path] = page]
    /\ locations' = locations \cup {l}
    /\ UNCHANGED running

(* Later fetches replace the regular file at the tracked path, whatever    *)
(* was done to it, or restore it.                                          *)
Refetch(l, page) ==
    /\ running
    /\ contents[l.path] # OtherFile
    /\ page.resource = l.resource
    /\ contents' = [contents EXCEPT ![l.path] = page]
    /\ UNCHANGED <<locations, running>>

(* A first fetch that neither registers nor removes what it wrote: its     *)
(* command dies or goes on with the next page.                             *)
Abandon(p, page) ==
    /\ running
    /\ contents[p] = NULL
    /\ contents' = [contents EXCEPT ![p] = page]
    /\ running' \in BOOLEAN
    /\ UNCHANGED locations

(* A command begins or ends.                                               *)
Switch ==
    /\ running' = ~running
    /\ UNCHANGED <<contents, locations>>

UserEdits(p, file) ==
    /\ ~running
    /\ contents' = [contents EXCEPT ![p] = file]
    /\ UNCHANGED <<locations, running>>

Next ==
    \/ \E page \in Pages :
        \/ \E l \in locations' \ locations : Materialize(l, page)
        \/ \E l \in locations : Refetch(l, page)
        \/ \E p \in Paths : Abandon(p, page)
    \/ Switch
    \/ \E p \in Paths, file \in {NULL, UserFile, OtherFile} : UserEdits(p, file)

Spec == Init /\ [][Next]_library
=============================================================================
