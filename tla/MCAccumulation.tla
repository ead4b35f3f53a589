---------------------------- MODULE MCAccumulation ----------------------------
(***************************************************************************)
(* Service 1 is the manager and the registrar, and may eject service 3,    *)
(* whose only request has been forgotten, and make it again; service 2 has *)
(* a second request.                                                       *)
(***************************************************************************)
EXTENDS Accumulation

CONSTANTS code, data, k

MCService == {1, 2, 3} \cup 10 .. 14
MCBlobSize == [h \in {code, data} |-> 1]
MCProgram ==
    [s \in MCService |->
        CASE s = 1 -> {"transfer", "eject", "provide", "new", "checkpoint"}
          [] s = 2 -> {"write", "solicit", "forget", "upgrade", "new"}
          [] OTHER -> {}]

MCAccount(s) ==
    CASE s = 1 -> [bal |-> 409, code |-> code, items |-> 2, octets |-> 82, offset |-> 0]
      [] s = 2 -> [bal |-> 506, code |-> code, items |-> 4, octets |-> 164, offset |-> 0]
      [] s = 3 -> [bal |-> 202, code |-> 1, items |-> 2, octets |-> 82, offset |-> 0]
      [] OTHER -> Missing
MCAvail(s, r) ==
    CASE s \in {1, 2} /\ r = Answerable(code) -> <<0>>
      [] s = 2 /\ r = Answerable(data) -> <<1, 3>>
      [] s = 3 /\ r = Answerable(data) -> <<0, 3>>
      [] OTHER -> Missing
MCAccounts0 ==
    [key \in Key |->
        CASE key[1] = "acct" -> MCAccount(key[2])
          [] key[1] = "item" -> Missing
          [] key[1] = "avail" -> MCAvail(key[2], key[3])
          [] key[1] = "blob" -> IF MCAvail(key[2], Answerable(key[3])) = Missing THEN Missing ELSE TRUE]
=============================================================================
