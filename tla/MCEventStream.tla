---------------------------- MODULE MCEventStream ----------------------------
(***************************************************************************)
(* Two live connections and a replay over two topics.                      *)
(***************************************************************************)
EXTENDS EventStream, TLC

MCTopics == "live1" :> "inv1" @@ "live2" :> "inv2" @@ "replay" :> "inv1"
=============================================================================
