----------------------------- MODULE MCRecords -----------------------------
(* Small instances of the record layer: headers of two bytes, records of at *)
(* most three, messages of up to five, so that every header and every       *)
(* message is cut at every place.                                           *)
EXTENDS Records

Flight == <<"hello", "plain", "finished", "update">>

Settings == {c \in [api : {"record", "message"}, peer : {"picotls", "other"},
                    max_buffer_size : {0, 2, 3}] : c.api = "message" => c.peer = "other"}

(* Well-formed and malformed ChangeCipherSpecs, data, alerts and records    *)
(* that are too long or of an unknown type.                                 *)
Other == {[type |-> x[1], len |-> x[2], sealed |-> x[3]] : x \in
            {<<"ccs", 1, FALSE>>, <<"ccs", 2, FALSE>>, <<"ccs", 1, TRUE>>,
             <<"appdata", MAX_PLAINTEXT, TRUE>>, <<"appdata", MAX_PLAINTEXT + EXPANSION, TRUE>>,
             <<"alert", 2, TRUE>>, <<"alert", 2, FALSE>>, <<"alert", 1, FALSE>>,
             <<"unknown", 1, TRUE>>, <<"unknown", MAX_PLAINTEXT + 1, FALSE>>}}
=============================================================================
