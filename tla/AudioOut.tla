------------------------------ MODULE AudioOut ------------------------------
(***************************************************************************)
(* audio/audio_out.cpp and the functions of audio/sdl_render.cpp like it:  *)
(* an ao_context is given the functions of one of the renderers, waveOut   *)
(* (WaveRing), DirectSound (DsoundRing) or SDL (SdlPipe), and each call    *)
(* goes to the object that its priv points to.                             *)
(***************************************************************************)
EXTENDS WaveRing

CONSTANTS m_buffer_size, m_min_free_space,
          DsoundFrame, DsoundBlocks, MaxFails,
          PipeSize, len, SdlFrame, SdlBlocks

\* init_audio: a block is a sample of each channel, at most 2 channels of 2 bytes
\* as avplay.c:1568 asks for, and the buffer holds a multiple of 4 bytes.
ASSUME DsoundAssumption ==
  /\ m_min_free_space \in {2, 4}
  /\ m_buffer_size \in Nat /\ m_buffer_size > 4 /\ m_buffer_size % 4 = 0
  /\ DsoundFrame \in Nat \ {0} /\ DsoundBlocks \in Nat /\ MaxFails \in Nat

\* sdl_audio_render::init_audio: a pipe, and callbacks for 1024 samples.
ASSUME SdlAssumption ==
  /\ PipeSize \in Nat \ {0} /\ len \in Nat \ {0}
  /\ SdlFrame \in Nat \ {0} /\ SdlBlocks \in Nat

VARIABLES render,  \* the functions in the ao_context
          m_write_offset, blocks, play_offset, size, dpc, dleft, daccepted, cursor,
          playing, dplayed, fails, resent, overtaken,
          written, taken, spc, sleft, callback, readed, stream, heard, again

dvars == <<m_write_offset, blocks, play_offset, size, dpc, dleft, daccepted, cursor,
           playing, dplayed, fails, resent, overtaken>>

Dsound == INSTANCE DsoundRing
            WITH FrameBlocks <- DsoundFrame, MaxBlocks <- DsoundBlocks, pc <- dpc,
                 left <- dleft, accepted <- daccepted, played <- dplayed

svars == <<written, taken, spc, sleft, callback, readed, stream, heard, again>>

Sdl == INSTANCE SdlPipe
         WITH FrameBlocks <- SdlFrame, MaxBlocks <- SdlBlocks, pc <- spc, left <- sleft

allVars == <<vars, render, dvars, svars>>

AudioInit == Init /\ Dsound!Init /\ Sdl!Init /\ render \in {"wave", "dsound", "sdl"}

WaveStep == render = "wave" /\ Next /\ UNCHANGED <<render, dvars, svars>>
DsoundStep == render = "dsound" /\ Dsound!Next /\ UNCHANGED <<render, vars, svars>>
SdlStep == render = "sdl" /\ Sdl!Next /\ UNCHANGED <<render, vars, dvars>>

AudioNext == WaveStep \/ DsoundStep \/ SdlStep

AudioSpec == AudioInit /\ [][AudioNext]_allVars

\* The audio renderer's thread retries, the devices play and call back.  The
\* DirectSound device also plays on between two calls, and the calls do not always
\* find its cursor on the one block where there is no room.
AudioFairness ==
  /\ WF_allVars(WaveStep /\ ~DeviceDone /\ ~WaveOutProc /\ ~Reset)
  /\ WF_allVars(WaveStep /\ DeviceDone) /\ WF_allVars(WaveStep /\ WaveOutProc)
  /\ WF_allVars(DsoundStep /\ Dsound!PlayAudio) /\ WF_allVars(DsoundStep /\ Dsound!DevicePlays)
  /\ SF_allVars(DsoundStep /\ Dsound!DevicePlays /\ dpc = "idle")
  /\ SF_allVars(DsoundStep /\ Dsound!FindsRoom)
  /\ WF_allVars(SdlStep /\ Sdl!Writer) /\ WF_allVars(SdlStep /\ Sdl!Reader)

AudioFairSpec == AudioSpec /\ AudioFairness

-----------------------------------------------------------------------------
\* What DsoundRing and SdlPipe state, for the renderer that is in use.
DsoundInOrder == Dsound!PlaysInOrder
SdlInOrder == Sdl!PlaysInOrder

(***************************************************************************)
(* Whichever renderer is in use, it plays to the end of what avplay has    *)
(* for it, unless it is destroyed: writer and device do not block each     *)
(* other.                                                                  *)
(***************************************************************************)
AllPlayed ==
  <>(\/ render = "wave" /\ (played = MaxBlocks \/ pc \in {"close", "closed"})
     \/ render = "dsound" /\ (dplayed >= DsoundBlocks \/ dpc = "closed")
     \/ render = "sdl" /\ (heard > SdlBlocks - len \/ spc = "freed"))
=============================================================================
