--------------------------------- MODULE MCEnds ---------------------------------
(* An instance for TLC of the ends of the connections, one at a time: the hub, *)
(* the browser's socket, the page that comes back to it, and the session with  *)
(* the MQTT broker.                                                            *)
EXTENDS Hub, BrowserSocket, ResumeRecovery, MqttSession, TLC

CONSTANTS a1, a2, ip1, s1, s2, s3, p1, p2, p3

SameAddress == (a1 :> ip1) @@ (a2 :> ip1)

VARIABLE end

EndsInit ==
    /\ end \in {"hub", "socket", "page", "broker"}
    /\ Init
    /\ SocketInit
    /\ ResumeInit /\ (hidden => end = "page")
    /\ SessionInit

EndsNext ==
    \/ end = "hub" /\ Next /\ UNCHANGED <<end, wsVars, resumeVars, sessionVars>>
    \/ end = "socket" /\ SocketNext /\ UNCHANGED <<end, vars, resumeVars, sessionVars>>
    \/ end = "page" /\ ResumeNext /\ UNCHANGED <<end, vars, wsVars, sessionVars>>
    \/ end = "broker" /\ SessionNext /\ UNCHANGED <<end, vars, wsVars, resumeVars>>

\* No fairness asks anything of an end that has not begun.
EndsFairSpec ==
    /\ EndsInit /\ [][EndsNext]_<<end, vars, wsVars, resumeVars, sessionVars>>
    /\ Fairness /\ WF_vars(CopyClients)
    /\ SocketFairness /\ SessionFairness

=============================================================================
