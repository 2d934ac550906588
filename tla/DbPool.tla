------------------------------- MODULE DbPool -------------------------------
(***************************************************************************)
(* The connections of the one SQLite pool (platform/database/sqlite) as    *)
(* the handlers use them.  ListChapters (library/sqlite/repository.go)     *)
(* keeps the connection of its chapters query while it asks the pool for   *)
(* another one per chapter.  Every other statement of the library and the  *)
(* job queue needs one connection and gives it back.  The statements       *)
(* themselves and the order in which waiting calls are served are left out.*)
(***************************************************************************)
EXTENDS Integers, FiniteSets

CONSTANTS
  Listers,       \* requests for the chapters of a media
  OneStatement, \* requests and workers that run one statement at a time
  MaxConns,      \* SetMaxOpenConns
  MaxChapters    \* chapters of a media

VARIABLES
  pc,     \* what each client does
  left    \* chapters a listing has still to read

vars == <<pc, left>>

Clients == Listers \union OneStatement

\* The connections a client holds, by what it uses them for.
Held(c) ==
  {x \in {"rows", "images"} :
     \/ pc[c] = "images"
     \/ x = "rows" /\ pc[c] \in {"rows", "wantImages"}}

InUse == {x \in Clients \X {"rows", "images"} : x[2] \in Held(x[1])}
Free == Cardinality(InUse) < MaxConns

Init ==
  /\ pc = [c \in Clients |-> "idle"]
  /\ left = [c \in Clients |-> 0]

Move(c, to) == pc' = [pc EXCEPT ![c] = to]

\* A call that needs a connection asks for one ...
Call(c) == pc[c] = "idle" /\ Move(c, "wantRows") /\ UNCHANGED left

\* ... and waits until one is free.  A listing finds its chapters.
Query(c) ==
  /\ pc[c] = "wantRows" /\ Free
  /\ Move(c, "rows")
  /\ \E n \in 0 .. MaxChapters :
       left' = [left EXCEPT ![c] = IF c \in Listers THEN n ELSE 0]

\* rows.Next and listImages: the next chapter's images are asked for while the
\* chapters' rows stay open.
NextChapter(c) ==
  /\ pc[c] = "rows" /\ left[c] > 0
  /\ Move(c, "wantImages")
  /\ left' = [left EXCEPT ![c] = @ - 1]

ListImages(c) ==
  /\ pc[c] = "wantImages" /\ Free
  /\ Move(c, "images")
  /\ UNCHANGED left

ImagesRead(c) == pc[c] = "images" /\ Move(c, "rows") /\ UNCHANGED left

\* The last row was read, the statement is done: rows.Close.
Close(c) == pc[c] = "rows" /\ left[c] = 0 /\ Move(c, "idle") /\ UNCHANGED left

\* The client of a waiting call disconnects, which cancels the call's context.
Disconnect(c) ==
  /\ pc[c] \in {"wantRows", "wantImages"}
  /\ Move(c, "idle")
  /\ left' = [left EXCEPT ![c] = 0]

Next ==
  \E c \in Clients :
    \/ Call(c) \/ Query(c) \/ NextChapter(c) \/ ListImages(c)
    \/ ImagesRead(c) \/ Close(c) \/ Disconnect(c)

Spec == Init /\ [][Next]_vars

\* However many reads run at once, some connection is free or its holder needs
\* no other to finish: sqlite.go, "With WAL, concurrent reads are fine".  Where it
\* fails, only a client that gives up frees a connection.
NoPoolDeadlock ==
  ~ (~ Free /\ \A c \in Clients : Held(c) # {} => pc[c] = "wantImages")

\* Only listings wait for a second connection: Query gives chapters to no
\* other call.
OnlyListersWait ==
  /\ pc \in [Clients -> {"idle", "wantRows", "rows", "wantImages", "images"}]
  /\ left \in [Clients -> Int]
  /\ \A c \in Clients : left[c] > 0 \/ pc[c] \in {"wantImages", "images"}
                          => c \in Listers
=============================================================================
