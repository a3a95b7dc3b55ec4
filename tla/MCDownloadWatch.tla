--------------------------- MODULE MCDownloadWatch ---------------------------
(* Settings for model checking: slow and stall side by side, slow alone,     *)
(* low peers alone, and a .torrent file, where stall alone applies.          *)
EXTENDS DownloadWatch

Opt(source, rules, boosted, full, seed) ==
    [source |-> source, rules |-> rules, boosted |-> boosted, full |-> full, seed |-> seed]

MCOptions ==
    {Opt("magnet", {"slow", "stall"}, FALSE, TRUE, {"hours"}),
     Opt("magnet", {"slow"}, TRUE, FALSE, {"ratio", "hours"}),
     Opt("magnet", {"low_peers"}, FALSE, FALSE, {}),
     Opt("file", Rules, FALSE, FALSE, {"ratio"})}
=============================================================================
