-------------------------- MODULE MCWorkerProxyStore --------------------------
(* Instances of WorkerProxyStore for TLC.                                  *)
EXTENDS WorkerProxyStore

Call(off, len, worker) == [off |-> off, len |-> len, worker |-> worker]

Whole == Call(0, None, FALSE)

(* One reader with two peers, reads of the blob and of parts, redirects;   *)
(* or two readers of the whole blob with one peer.                         *)
MCSetting ==
  {[readers |-> {1}, peers |-> {1, 2}, redirects |-> {<<1>>, <<1, 2>>},
    calls |-> {Whole, Call(1, None, FALSE), Call(0, 1, FALSE), Call(0, None, TRUE)}],
   [readers |-> {1, 2}, peers |-> {1}, redirects |-> {}, calls |-> {Whole}]}

(* One reader of the whole blob, redirected to two peers.                  *)
MCRedirect ==
  {[readers |-> {1}, peers |-> {1, 2}, redirects |-> {<<1, 2>>}, calls |-> {Whole}]}

(* One reader of the first two units, with three peers.                    *)
MCRange ==
  {[readers |-> {1}, peers |-> {1, 2, 3}, redirects |-> {}, calls |-> {Call(0, 2, FALSE)}]}
=============================================================================
