--------------------------- MODULE MCJobEditor ---------------------------
(***************************************************************************)
(* The part of etc/schema.json whose choices show or hide groups, for the  *)
(* model-checking runs of JobEditor.                                       *)
(***************************************************************************)
EXTENDS JobEditor

Fractals == {"type.juliamandle"}
Shaders  == {"jmshader.bg", "jmshader.normal"}

MCGroups       == {"basic", "posteffects"} \cup Fractals \cup Shaders
MCActiveGroups == <<"basic", "posteffects">>
MCSelectors    ==
  [g \in MCGroups |-> CASE g = "basic"            -> <<"type">>
                        [] g = "type.juliamandle" -> <<"shading">>
                        [] OTHER                  -> <<>>]
MCOptions ==
  [type    |-> [mandlejulia |-> [hide |-> Fractals, show |-> <<"type.juliamandle">>],
                none        |-> [hide |-> Fractals, show |-> <<>>]],
   shading |-> [histogram |-> [hide |-> Shaders, show |-> <<"jmshader.normal">>],
                none      |-> [hide |-> Shaders, show |-> <<"jmshader.bg">>]]]
MCDefault == [type |-> "mandlejulia", shading |-> "histogram"]
=============================================================================
