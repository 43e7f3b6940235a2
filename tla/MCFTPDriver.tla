----------------------------- MODULE MCFTPDriver -----------------------------
(***************************************************************************)
(* Two export workers storing two blocks whose hashes share their first   *)
(* two characters, under a root directory that exists: the blocks go to   *)
(* root/a/b and root/a/c, so both workers make root/a.                    *)
(***************************************************************************)
EXTENDS FTPDriver, TLC

CONSTANTS root, a, b, c, h1, h2

MCDirOf == (h1 :> <<root, a, b>>) @@ (h2 :> <<root, a, c>>)

MCInitDirs == {{<<root>>}}

====
