---------------------------- MODULE MCAiJobQueue ----------------------------
(***************************************************************************)
(* Two jobs, one of which is submitted with different payloads, and two    *)
(* workers.                                                                *)
(***************************************************************************)
EXTENDS AiJobQueue, TLC

CONSTANTS j1, j2, x, y, s1, s2, w1, w2

MCJobs == {j1, j2}
MCPayloads == {x, y}
MCSubmissions == {[job |-> j1, payload |-> x], [job |-> j1, payload |-> y],
                  [job |-> j2, payload |-> x]}
MCClients == {s1, s2}
MCWorkers == {w1, w2}
============================================================================
