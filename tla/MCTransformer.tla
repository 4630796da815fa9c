---------------------------- MODULE MCTransformer ----------------------------
EXTENDS Transformer

\* Any file of upstream.
MCHost == DOMAIN (TwoPhaseFiles @@ OnePhaseFiles @@ Common)
=============================================================================
