----------------------------- MODULE ChooseConn -----------------------------
(***************************************************************************)
(* ChooseConnProcess: which connection SPIN goes on with.  executable is   *)
(* 2 for a connection whose packet is outside the middleboxes, 1 for one   *)
(* about to enter a middlebox, 0 for one that misses a packet or has ended.*)
(***************************************************************************)
EXTENDS ModelState

\* A connection that was dropped or has accepted its last packet.
Finished(c) ==
  /\ c.executable = 0
  /\ c.mode = "DROPPED" \/ (c.mode = "ACCEPTED" /\ IsLast(c.proto))

\* get_conn_map: the connections with one value of executable, in order.
ConnMap(s, executable) ==
  LET mapped(i) == s.conns[i].executable = executable /\ ~Finished(s.conns[i])
      upTo[i \in 0 .. s.numConns] ==
        IF i = 0 THEN <<>>
        ELSE IF mapped(i) THEN Append(upTo[i - 1], i) ELSE upTo[i - 1]
  IN upTo[s.numConns]

\* Mutant: connections that miss a packet are forgotten.
UpdateChoiceCountNoFrozen(s) ==
  [s EXCEPT !.choiceCount =
     IF ConnMap(s, 2) # <<>> THEN 1 ELSE Len(ConnMap(s, 1))]

UpdateChoiceCount(s) ==
  [s EXCEPT !.choiceCount =
     IF ConnMap(s, 2) # <<>> THEN 1
     ELSE IF ConnMap(s, 1) # <<>> THEN Len(ConnMap(s, 1))
     ELSE IF ConnMap(s, 0) # <<>> THEN 1
     ELSE 0]

\* Mutant: a connection before a middlebox is chosen, and left waiting.
ChosenNotReleased(s, choice) ==
  IF ConnMap(s, 2) # <<>> THEN [s EXCEPT !.conn = ConnMap(s, 2)[1]]
  ELSE IF ConnMap(s, 1) # <<>> THEN [s EXCEPT !.conn = ConnMap(s, 1)[choice + 1]]
  ELSE [s EXCEPT !.conn = ConnMap(s, 0)[1],
                 !.conns[ConnMap(s, 0)[1]].mode = "DROPPED"]

\* The connection exec_step chooses: one outside the middleboxes, else any of
\* those about to enter one, else one that waits in vain and is dropped.
Chosen(s, choice) ==
  IF ConnMap(s, 2) # <<>> THEN [s EXCEPT !.conn = ConnMap(s, 2)[1]]
  ELSE IF ConnMap(s, 1) # <<>>
    THEN [s EXCEPT !.conn = ConnMap(s, 1)[choice + 1],
                   !.conns[ConnMap(s, 1)[choice + 1]].executable = 2]
  ELSE [s EXCEPT !.conn = ConnMap(s, 0)[1],
                 !.conns[ConnMap(s, 0)[1]].mode = "DROPPED"]

\* exec_step, which ends with the choices of the connection it chose.
ChooseConnStep(s, choice) ==
  IF \A x \in 0 .. 2 : ConnMap(s, x) = <<>> THEN Fail(s)
  ELSE LET t == Chosen(s, choice)
       IN [t EXCEPT !.choiceCount =
             IF Cur(t).mode \in {"FORWARD_PACKET", "FIRST_FORWARD"}
             THEN Len(Cur(t).candidates) ELSE 1]
=============================================================================
