------------------------------ MODULE BlockStore ------------------------------
(***************************************************************************)
(* What requests on files promise when several are under way: each takes   *)
(* effect at one moment between its beginning and its end.  A file is the  *)
(* sequence of the payloads of its blocks; a write replaces one or appends *)
(* one, a read answers one, or Nothing behind the end.                     *)
(***************************************************************************)
EXTENDS Naturals, Sequences

CONSTANTS Thread, File, Pay, Nothing, MaxLen

VARIABLES
  files,  \* the payloads of every file
  call    \* the request of every thread, whether it took effect, its answer

vars == <<files, call>>

Idle == [req |-> "idle", f |-> 0, n |-> 0, v |-> Nothing, done |-> FALSE, got |-> Nothing]

Init == /\ files = [f \in File |-> <<>>]
        /\ call = [t \in Thread |-> Idle]

Begin(t, req, f, n, v) ==
  /\ call[t].req = "idle"
  /\ \A u \in Thread : call[u].req # "idle" => call[u].f # f
  /\ req = "write" => n <= Len(files[f])
  /\ call' = [call EXCEPT ![t] = [req |-> req, f |-> f, n |-> n, v |-> v,
                                  done |-> FALSE, got |-> Nothing]]
  /\ UNCHANGED files

Put(s, n, v) == [i \in 1..(IF n = Len(s) THEN n + 1 ELSE Len(s)) |-> IF i = n + 1 THEN v ELSE s[i]]

Write(t) ==
  LET c == call[t]
  IN /\ c.req = "write" /\ ~c.done
     /\ files' = [files EXCEPT ![c.f] = Put(@, c.n, c.v)]
     /\ call' = [call EXCEPT ![t].done = TRUE]

Read(t) ==
  LET c == call[t]
  IN /\ c.req = "read" /\ ~c.done
     /\ call' = [call EXCEPT ![t].done = TRUE,
                             ![t].got = IF c.n < Len(files[c.f]) THEN files[c.f][c.n + 1] ELSE Nothing]
     /\ UNCHANGED files

End(t) == /\ call[t].done
          /\ call' = [call EXCEPT ![t] = Idle]
          /\ UNCHANGED files

Next == \E t \in Thread :
  \/ \E f \in File, n \in 0..(MaxLen - 1), v \in Pay : Begin(t, "write", f, n, v)
  \/ \E f \in File, n \in 0..(MaxLen - 1) : Begin(t, "read", f, n, Nothing)
  \/ Write(t) \/ Read(t) \/ End(t)

Spec == Init /\ [][Next]_vars
=============================================================================
