----------------------------- MODULE MCThreadPool -----------------------------
(* Instances of ThreadPool for TLC: two workers and two lanes of one slot, so  *)
(* that a third job meets a full lane, a thief and the drain loop.             *)
EXTENDS ThreadPool

===============================================================================
