----------------------------- MODULE MCExporter -----------------------------
(* Instances of Exporter for TLC.                                          *)
EXTENDS Exporter, TLC

\* One setting, given or not in each place, and every way to name the file.
MCGivens ==
  UNION {LET text == {<<>>} \cup {s :> t : t \in Texts[s]}
         IN  [flag : text, env : text, file : text, readable : BOOLEAN,
              path : {"--config p", "--config=p", "-config=p", "RMQ_CONFIG",
                      "--config", "none"}] :
           s \in Setting}

=============================================================================
