----------------------------- MODULE UserEvent -----------------------------
(***************************************************************************)
(* The user event of a kernel queue (ffsys/queue.h: ffkq_post_attach(),    *)
(* ffkq_post(), ffkq_post_consume(), ffkq_post_detach()).                  *)
(***************************************************************************)
EXTENDS KernelQueue

CONSTANT MaxPosts \* bound of ffkq_post() calls

VARIABLES
  posts, \* calls of ffkq_post()
  posted \* ffkq_post() was called and the user has not looked since

postVars == <<posts, posted>>

PostInit == posts = 0 /\ posted = FALSE
PostTypeOK == posts \in 0..MaxPosts /\ posted \in BOOLEAN

\* Linux: eventfd() and EPOLL_CTL_ADD; BSD: a note with a new id; nothing on Windows.
PostNew ==
  /\ at = "loop" /\ New({"post"})
  /\ UNCHANGED <<sys, held, full, ready, batch, at, postVars>>

PostAttachLinux == sys = "linux" /\ PostNew /\ live' = live \cup {<<"post", made'["post"]>>}
PostAttachBsd == sys = "bsd" /\ PostNew /\ live' = live \cup {<<"post", made'["post"]>>}
PostAttachWindows == sys = "windows" /\ PostNew /\ UNCHANGED live

\* By any thread.  Linux: write() makes the counter nonzero; BSD: NOTE_TRIGGER; Windows: a
\* packet for each call.
PostCall ==
  /\ cur["post"] # 0 /\ posts < MaxPosts
  /\ posts' = posts + 1 /\ posted' = TRUE
  /\ ready' = ReadyWith({Handle("post")})
  /\ UNCHANGED <<sys, made, cur, live, held, batch, at>>

PostLinux == sys = "linux" /\ PostCall /\ full' = full \cup {Handle("post")}
PostBsd == sys = "bsd" /\ PostCall /\ full' = full \cup {Handle("post")}
PostWindows == sys = "windows" /\ PostCall /\ UNCHANGED full

\* ffkq_post_consume(): read() until it fails, which it does because of EFD_NONBLOCK (the
\* mutant's descriptor blocks).  Then the user looks.
PostRead ==
  /\ at = "post" /\ sys = "linux" /\ Handle("post") \in full
  /\ full' = full \ {Handle("post")}
  /\ UNCHANGED <<sys, made, cur, live, held, ready, batch, at, postVars>>

PostBlocks == FALSE
PostConsumed == Handle("post") \notin full

PostLooked == at = "post" /\ posted' = FALSE /\ Return /\ UNCHANGED posts
PostEmptyLinux == sys = "linux" /\ PostConsumed /\ PostLooked
PostEmptyBsd == sys = "bsd" /\ PostLooked
PostEmptyWindows == sys = "windows" /\ PostLooked

\* close(), EV_DELETE, or nothing
PostForget ==
  /\ at = "loop" /\ Forget({"post"}) /\ posted' = FALSE
  /\ UNCHANGED <<sys, made, held, batch, at, posts>>

PostDetachLinux == sys = "linux" /\ PostForget /\ Drop({Handle("post")})
PostDetachBsd == sys = "bsd" /\ PostForget /\ Drop({Handle("post")})
PostDetachWindows == sys = "windows" /\ PostForget /\ UNCHANGED <<live, full, ready>>

PostHandling == PostRead \/ PostEmptyLinux \/ PostEmptyBsd \/ PostEmptyWindows
PostOther ==
  \/ PostAttachLinux \/ PostAttachBsd \/ PostAttachWindows
  \/ PostLinux \/ PostBsd \/ PostWindows
  \/ PostDetachLinux \/ PostDetachBsd \/ PostDetachWindows
=============================================================================
