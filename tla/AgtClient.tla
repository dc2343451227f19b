------------------------------ MODULE AgtClient ------------------------------
(***************************************************************************)
(* The tensors a client computes with (sdk/jett-sdk.ts, class AgtTensor)   *)
(* beside the weights the program keeps for it (VaultAgt): the client      *)
(* predicts in floating point what the program will learn in fixed point.  *)
(*                                                                         *)
(* Floats are modelled by exact fractions: a triple t of naturals, not all *)
(* zero, stands for the point t / Total(t) of the simplex.                 *)
(***************************************************************************)
EXTENDS VaultAgt

(* A client may ask for any learning rate up to AlphaScale: there are some.*)
ASSUME SomeAlpha == Alphas # {}

FromGaze(v) == IF Total(v) = 0 THEN [i \in Axes |-> 1] ELSE v

FromOnChain(values) == FromGaze(values)

(* Math.round: a half is rounded up.                                       *)
Rounded(n, d) == (2 * n + d) \div (2 * d)

ToOnChain(t) == [i \in Axes |-> Rounded(t[i] * Precision, Total(t))]

(* (1 - alpha) t + alpha g, alpha in parts of AlphaScale.                  *)
Update(t, g, alpha) ==
  FromGaze([i \in Axes |-> (AlphaScale - alpha) * t[i] * Total(g) + alpha * g[i] * Total(t)])

-----------------------------------------------------------------------------
(* What a client that knows the weights expects of the next observation.   *)
Prediction(a, gaze, alpha) ==
  ToOnChain(IF a = NoAccount THEN FromOnChain(gaze)
            ELSE Update(FromOnChain(a.agt_weights), FromOnChain(gaze), alpha))

RoundingError == 4

Near(m, n, d) == m - n <= d /\ n - m <= d

Learns(u) ==
  /\ agt'[u] # NoAccount
  /\ agt[u] # NoAccount => agt'[u].agt_weights # agt[u].agt_weights

(* The weights the program learns are those the client predicts, to within *)
(* a few units of the last place on every axis, the third one, which takes *)
(* all that rounding leaves over, included; an observation that misses the *)
(* simplex is normalized by the client only, which may add as much as it   *)
(* misses it by (simplex_project, update_agt_weights; AgtTensor.update).   *)
ChainFollowsClient ==
  [][\A u \in Users : Learns(u) =>
       LET gaze == agt'[u].gaze_tensor IN
       \E alpha \in Alphas, off \in 0 .. Tolerance :
         /\ Near(Total(gaze), Precision, off)
         /\ \A i \in Axes : Near(agt'[u].agt_weights[i], Prediction(agt[u], gaze, alpha)[i],
                                 RoundingError + off)]_agtVars
=============================================================================
