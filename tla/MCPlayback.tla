----------------------------- MODULE MCPlayback -----------------------------
(***************************************************************************)
(* Instances of Playback for TLC.                                          *)
(***************************************************************************)
EXTENDS Playback
CONSTANTS zip, local, remote, preview

MCSongs     == {zip, local, remote, preview}
MCGraphics  == {zip, local, remote}
MCMediaG    == {zip, remote}
MCWhole     == {zip}
MCRemote    == {remote}
MCPreviews  == {preview}
MCRemovable == {remote}
MCChoices   == <<{preview, remote, zip}, {local}>>
=============================================================================
