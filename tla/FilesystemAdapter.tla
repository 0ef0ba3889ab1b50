------------------------- MODULE FilesystemAdapter --------------------------
(***************************************************************************)
(* LocalFilesystemAdapter: gate, act and re-read are three steps, and      *)
(* another process may change either path between them.  Paths have been   *)
(* resolved and checked against the roots by the gate; "cut" is a file     *)
(* that holds a part of what was being written.                            *)
(***************************************************************************)
EXTENDS AppWorld

WRITE_OPS == {"write", "create", "delete", "copy", "move"}

\* The gates of invoke: scope, roots, read_only, the path, the destination.
FsRefuses ==
    \/ Refuses({"no_roots", "outside"})
    \/ call.flaw = "read_only" /\ Op(WRITE_OPS)
    \/ call.flaw = "dest_outside" /\ Op({"copy", "move"})
    \/ call.flaw = "content" /\ Op({"write", "create"})

\* What the operation requires of the paths before it acts.
FsReady ==
    /\ Op({"copy", "move", "read"}) => IsFile(call.path)
    /\ Op({"copy", "move"}) => files[call.dest] = "absent"
    /\ Op({"move"}) => call.path # call.dest
    /\ Op({"create"}) => files[call.path] = "absent"
    /\ Op({"delete"}) => files[call.path] # "dir"

FsInvoke ==
    /\ At("filesystem.local", "invoked")
    /\ IF FsRefuses \/ ~FsReady
       THEN Fail
       ELSE IF Op({"delete"}) /\ files[call.path] = "absent"
       THEN Answer("SUCCESS", "already absent", FALSE)
       ELSE phase' = "act" /\ UNCHANGED answer
    /\ UNCHANGED <<control, world, hop, effect, handled, verdict>>

Put(p, c) == files' = [files EXCEPT ![p] = c]
Acted     == phase' = "post" /\ effect' = TRUE /\ UNCHANGED answer
FsRest    == UNCHANGED <<control, target, started, dns, sent, hop, handled, verdict>>

\* Looking changes nothing; an error of the read reaches the supervisor.
InspectPath ==
    /\ At("filesystem.local", "act") /\ Op({"inspect"})
    /\ Answer("SUCCESS", "none", FALSE) \/ Raise
    /\ UNCHANGED <<files, effect>> /\ FsRest

ReadFile ==
    /\ At("filesystem.local", "act") /\ Op({"read"})
    /\ (IsFile(call.path) /\ Answer("SUCCESS", "none", FALSE)) \/ Raise
    /\ UNCHANGED <<files, effect>> /\ FsRest

\* mkdir and write_text: done, cut short, or refused by the system; the error
\* is not caught.
WriteText ==
    /\ \/ files[call.path] # "dir" /\ Put(call.path, "new") /\ Acted
       \/ files[call.path] # "dir" /\ Put(call.path, "cut") /\ effect' = TRUE /\ Raise
       \/ Raise /\ UNCHANGED <<files, effect>>
    /\ FsRest

Write  == At("filesystem.local", "act") /\ Op({"write"}) /\ WriteText
Create == At("filesystem.local", "act") /\ Op({"create"}) /\ WriteText

Delete ==
    /\ At("filesystem.local", "act") /\ Op({"delete"})
    /\ \/ IsFile(call.path) /\ Put(call.path, "absent") /\ Acted
       \/ Raise /\ UNCHANGED <<files, effect>>
    /\ FsRest

\* shutil.copy2: OSError is caught and reported as FAILURE, even when a part
\* of the destination has been written; mkdir before it is not guarded.
Copy ==
    /\ At("filesystem.local", "act") /\ Op({"copy"})
    /\ \/ IsFile(call.path) /\ Put(call.dest, files[call.path]) /\ Acted
       \/ IsFile(call.path) /\ Put(call.dest, "cut") /\ effect' = TRUE /\ Fail
       \/ Fail /\ UNCHANGED <<files, effect>>
       \/ Raise /\ UNCHANGED <<files, effect>>
    /\ FsRest

\* shutil.move: a rename, or across devices a copy and an unlink that can
\* stop after the copy.
Move ==
    /\ At("filesystem.local", "act") /\ Op({"move"})
    /\ \/ /\ IsFile(call.path)
          /\ files' = [files EXCEPT ![call.dest] = files[call.path], ![call.path] = "absent"]
          /\ Acted
       \/ IsFile(call.path) /\ Put(call.dest, files[call.path]) /\ effect' = TRUE /\ Fail
       \/ Fail /\ UNCHANGED <<files, effect>>
       \/ Raise /\ UNCHANGED <<files, effect>>
    /\ FsRest

\* The adapter's own look at the paths after it acted.
Holds ==
    /\ Op({"write"}) => files[call.path] = "new"
    /\ Op({"create"}) => IsFile(call.path)
    /\ Op({"delete"}) => files[call.path] = "absent"
    /\ Op({"copy"}) => IsFile(call.path) /\ IsFile(call.dest)
    /\ Op({"move"}) => files[call.path] = "absent" /\ IsFile(call.dest)

Marker ==
    IF Op({"write"}) THEN "content_match"
    ELSE IF Op({"create"}) THEN "exists"
    ELSE IF Op({"delete"}) THEN "absent"
    ELSE IF Op({"copy"}) THEN "source_and_destination_exist"
    ELSE "source_absent_destination_exists"

\* A copy is also refused when the two sizes differ (different contents may
\* have the same size), and stat() raises on a path that vanished since
\* is_file(); so does the re-read of a write.
FsPost ==
    /\ At("filesystem.local", "post")
    /\ \/ Holds /\ Answer("SUCCESS", Marker, FALSE)
       \/ ~Holds /\ Fail
       \/ Holds /\ Op({"copy"}) /\ files[call.path] # files[call.dest] /\ Fail
       \/ Op({"write", "copy"}) /\ ~IsFile(call.path) /\ Raise
       \/ Op({"copy"}) /\ ~IsFile(call.dest) /\ Raise
    /\ UNCHANGED <<files, effect>> /\ FsRest

FilesystemStep ==
    FsInvoke \/ InspectPath \/ ReadFile \/ Write \/ Create \/ Delete \/ Copy \/ Move \/ FsPost

=============================================================================
