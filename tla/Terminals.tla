----------------------------- MODULE Terminals -----------------------------
(***************************************************************************)
(* Human terminals (harness-pty): the end of a session, which the reaper   *)
(* thread and any number of close calls may report, and the output, which  *)
(* the reader thread decodes.  A byte is a letter, the first byte of a     *)
(* character of two bytes, or the second one.                              *)
(***************************************************************************)
EXTENDS Naturals, Sequences

CONSTANTS Closers,     \* close calls for the session
          MaxPrinted   \* bytes the shell prints

VARIABLES shell,       \* "alive", "exited" or "killed"
          listed,      \* the session is in the table
          closed,      \* the session's closed flag
          closedBy,    \* who set it: "nobody", "reaper" or "close"
          reaper,      \* "polling", "seen" (an exit status), "publish" or "gone"
          closer,      \* close call -> "idle", "found", "kill", "remove", "publish", "done" or "not found"
          exits,       \* reasons of the Exited events, in order
          printed,     \* bytes printed by the shell
          unread,      \* bytes in the terminal
          pending,     \* bytes the reader keeps for the next read
          shown        \* bytes published as text

termVars == <<shell, listed, closed, closedBy, reaper, closer, exits, printed, unread, pending, shown>>
lifeVars == <<shell, listed, closed, closedBy, reaper, closer, exits>>
textVars == <<printed, unread, pending, shown>>

ShellBytes == {"letter", "lead", "cont"}

\* The state after open: the session is in the table, its threads run.
TermInit == /\ shell = "alive" /\ listed = TRUE /\ closed = FALSE /\ closedBy = "nobody" /\ reaper = "polling"
            /\ closer = [c \in Closers |-> "idle"] /\ exits = <<>>
            /\ printed = <<>> /\ unread = <<>> /\ pending = <<>> /\ shown = <<>>

(***************************************************************************)
(* The end of the session.                                                 *)
(***************************************************************************)
ShellExits == /\ shell = "alive" /\ shell' = "exited"
              /\ UNCHANGED <<listed, closed, closedBy, reaper, closer, exits, textVars>>

\* closed.swap(true): the flag is set, and the caller learns whether it was the first.
Swap(who) == closed' = TRUE /\ closedBy' = IF closed THEN closedBy ELSE who

ReaperPolls == /\ reaper = "polling" /\ shell # "alive"
               /\ reaper' = "seen"
               /\ UNCHANGED <<shell, listed, closed, closedBy, closer, exits, textVars>>
ReaperReports == reaper = "seen" /\ reaper' = IF closed THEN "gone" ELSE "publish"
ReaperSwaps == /\ ReaperReports /\ Swap("reaper")
               /\ UNCHANGED <<shell, listed, closer, exits, textVars>>
ReaperPublishes == /\ reaper = "publish" /\ reaper' = "gone" /\ exits' = Append(exits, "exited")
                   /\ UNCHANGED <<shell, listed, closed, closedBy, closer, textVars>>
Reaper == ReaperPolls \/ ReaperSwaps \/ ReaperPublishes

CloseFinds(c) == /\ closer[c] = "idle"
                 /\ closer' = [closer EXCEPT ![c] = IF listed THEN "found" ELSE "not found"]
                 /\ UNCHANGED <<shell, listed, closed, closedBy, reaper, exits, textVars>>
CloseSwaps(c) == /\ closer[c] = "found" /\ Swap("close")
                 /\ closer' = [closer EXCEPT ![c] = IF closed THEN "remove" ELSE "kill"]
                 /\ UNCHANGED <<shell, listed, reaper, exits, textVars>>
\* Mutant: the session only taken out of the table.
CloseForgets(c) == /\ closer[c] = "kill" /\ closer' = [closer EXCEPT ![c] = "remove"]
                   /\ UNCHANGED <<shell, listed, closed, closedBy, reaper, exits, textVars>>
CloseKills(c) == /\ closer[c] = "kill" /\ closer' = [closer EXCEPT ![c] = "remove"]
                 /\ shell' = IF shell = "alive" THEN "killed" ELSE shell
                 /\ UNCHANGED <<listed, closed, closedBy, reaper, exits, textVars>>
CloseRemoves(c) == /\ closer[c] = "remove" /\ closer' = [closer EXCEPT ![c] = "publish"]
                   /\ listed' = FALSE
                   /\ UNCHANGED <<shell, closed, closedBy, reaper, exits, textVars>>
\* Whoever set the flag.
ClosePublishes(c) == /\ closer[c] = "publish" /\ closer' = [closer EXCEPT ![c] = "done"]
                     /\ exits' = Append(exits, "closed")
                     /\ UNCHANGED <<shell, listed, closed, closedBy, reaper, textVars>>
CloseStep(c) == CloseSwaps(c) \/ CloseKills(c) \/ CloseRemoves(c) \/ ClosePublishes(c)
Close(c) == CloseFinds(c) \/ CloseStep(c)

(***************************************************************************)
(* The output.                                                             *)
(***************************************************************************)
ShellPrints(b) == /\ shell = "alive" /\ Len(printed) < MaxPrinted
                  /\ printed' = Append(printed, b) /\ unread' = Append(unread, b)
                  /\ UNCHANGED <<lifeVars, pending, shown>>

\* The first n bytes of s are whole characters.
WholeUpTo(s, n) == \A i \in 1..n : /\ s[i] = "cont" => i > 1 /\ s[i - 1] = "lead"
                                   /\ s[i] = "lead" => i < n /\ s[i + 1] = "cont"

\* std::str::from_utf8: the bytes up to the first that is not part of a whole character.
ValidUpTo(s) == CHOOSE n \in 0..Len(s) : WholeUpTo(s, n) /\ \A k \in (n + 1)..Len(s) : ~WholeUpTo(s, k)

\* Mutant: everything shown, the half of a character too.
TakeEverything(s) == [text |-> s, rest |-> <<>>]
TakeCompleteUtf8(s) == [text |-> SubSeq(s, 1, ValidUpTo(s)), rest |-> SubSeq(s, ValidUpTo(s) + 1, Len(s))]

ReaderTakes(n) ==
    LET split == TakeCompleteUtf8(pending \o SubSeq(unread, 1, n)) IN
    /\ n \in 1..Len(unread)
    /\ unread' = SubSeq(unread, n + 1, Len(unread))
    /\ shown' = shown \o split.text /\ pending' = split.rest
    /\ UNCHANGED <<lifeVars, printed>>

\* The end of the stream: what is pending is shown, with replacement characters.
ReaderFlushes ==
    /\ shell # "alive" /\ unread = <<>> /\ pending # <<>>
    /\ shown' = shown \o pending /\ pending' = <<>>
    /\ UNCHANGED <<lifeVars, printed, unread>>

Reader == ReaderFlushes \/ \E n \in 1..MaxPrinted : ReaderTakes(n)

TermNext == \/ ShellExits \/ Reaper \/ Reader
            \/ \E c \in Closers : Close(c)
            \/ \E b \in ShellBytes : ShellPrints(b)

TermSpec == TermInit /\ [][TermNext]_termVars

\* The threads and the calls run; the shell may live for ever.
TermFairness == WF_termVars(Reaper) /\ WF_termVars(Reader) /\ \A c \in Closers : WF_termVars(CloseStep(c))

(***************************************************************************)
(* Properties.                                                             *)
(***************************************************************************)
\* The reaper reports the end once at most, and not when a close was first to
\* take the flag.  It says nothing of the closes: every close that found the
\* session reports it as closed, whoever took the flag.
ReaperDefers == \A i \in DOMAIN exits : exits[i] = "exited" =>
                    closedBy = "reaper" /\ \A k \in DOMAIN exits : exits[k] = "exited" => k = i

\* A session somebody closed, or whose shell ended, is reported as ended, and
\* its shell does not survive.
EndIsAnnounced == (shell # "alive" \/ closed) ~> (exits # <<>> /\ shell # "alive")

\* No byte is lost or shown twice, and while every byte printed belongs to a
\* character, text is never cut inside one: at most the half of a character is
\* kept back (take_complete_utf8).
WellFormed(s) == \A i \in DOMAIN s : /\ s[i] = "cont" => i > 1 /\ s[i - 1] = "lead"
                                     /\ s[i] = "lead" /\ i < Len(s) => s[i + 1] = "cont"
UnicodeIntact ==
    /\ shown \o pending \o unread = printed
    /\ shell = "alive" /\ WellFormed(printed) => Len(pending) <= 1 /\ (shown # <<>> => shown[Len(shown)] # "lead")

\* The reaper of a terminal reports its end once at most, never after a close took
\* it, and the output arrives with whole characters (spawn_reaper,
\* take_complete_utf8).  That the reaper and a close may both report the end is
\* ExitReportedOnce.
TerminalIsFaithful == ReaperDefers /\ UnicodeIntact

\* "close may have already reported the exit; report once only", says the reaper:
\* but a close that comes after it reports the end again, for only the kill
\* depends on the flag (close).
ExitReportedOnce == Len(exits) <= 1
=============================================================================
