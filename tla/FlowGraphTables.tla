-------------------------- MODULE FlowGraphTables --------------------------
(***************************************************************************)
(* The four flow graphs that GNU Radio Companion made of the drawings in   *)
(* examples/test_code: wifi_rx.py, wifi_soft_decision_receiver.py,         *)
(* wifi_tx.py and top_block.py.  The code is one pattern with other names. *)
(* This module has the names; FlowGraph has what the code does with them.  *)
(*                                                                         *)
(* A graph has variables.  Its constructor makes the widgets and blocks in *)
(* the order listed, and gives the blocks parameters that it computes from *)
(* variables; parameters computed from constants, how a block looks on the *)
(* screen and how blocks are connected are left out.                       *)
(***************************************************************************)
EXTENDS Sequences

(* Steps of the constructor and of the setters.                            *)
Create(v)  == [op |-> "create", on |-> v]   \* the widget of a variable
Show(v)    == [op |-> "show", on |-> v]     \* self._v_callback(self.v)
Connect(v) == [op |-> "connect", on |-> v]  \* its signal to set_v
Give(p)    == [op |-> "give", on |-> p]     \* a parameter to a block

(* A bug: the signal is connected before the variable is shown. *)
Chooser_ConnectFirst(v) == <<Create(v), Connect(v), Show(v)>>

(* A bug: the widget is not set to the initial value. *)
Chooser_NotShown(v) == <<Create(v), Connect(v)>>

(* A combo box or a group of buttons                                       *)
Chooser(v) == <<Create(v), Show(v), Connect(v)>>

(* A slider or a line to edit: made with the value of the variable, and    *)
(* the setter.                                                             *)
Entry(v)   == <<Create(v), Connect(v)>>

GiveAll(ps) == [i \in DOMAIN ps |-> Give(ps[i])]

-----------------------------------------------------------------------------
(* wifi_rx.py *)

(* The widget of each variable, and whether the variable starts with its   *)
(* first option (1) or another one (2).                                    *)
rx_widgets ==
  [ window_size |-> "none", sync_length |-> "none", samp_rate |-> "combo",
    lo_offset |-> "combo", gain |-> "slider", freq |-> "combo",
    chan_est |-> "buttons" ]

rx_initial ==
  [ window_size |-> 1, sync_length |-> 1, samp_rate |-> 2, lo_offset |-> 1,
    gain |-> 1, freq |-> 2, chan_est |-> 1 ]

(* The variables that each parameter is computed from.                     *)
rx_reads ==
  [ usrp_samp_rate |-> {"samp_rate"}, usrp_center_freq |-> {"freq", "lo_offset"},
    usrp_gain |-> {"gain"}, time_sink_samp_rate |-> {"samp_rate"},
    sync_long_length |-> {"sync_length"}, average_1_length |-> {"window_size"},
    average_0_length |-> {"window_size"}, equalizer_algorithm |-> {"chan_est"},
    equalizer_frequency |-> {"freq"}, equalizer_bandwidth |-> {"samp_rate"},
    delay_dly |-> {"sync_length"} ]

rx_init ==
  Chooser("samp_rate") \o Chooser("lo_offset") \o Entry("gain")
  \o Chooser("freq") \o Chooser("chan_est")
  \o GiveAll(<<"usrp_samp_rate", "usrp_center_freq", "usrp_gain",
               "time_sink_samp_rate", "sync_long_length", "average_1_length",
               "average_0_length", "equalizer_algorithm",
               "equalizer_frequency", "equalizer_bandwidth", "delay_dly">>)

rx_setters ==
  [ window_size |-> GiveAll(<<"average_1_length", "average_0_length">>),
    sync_length |-> <<Give("delay_dly")>>,
    samp_rate   |-> <<Show("samp_rate"), Give("usrp_samp_rate"),
                      Give("time_sink_samp_rate"), Give("equalizer_bandwidth")>>,
    lo_offset   |-> <<Show("lo_offset"), Give("usrp_center_freq")>>,
    gain        |-> <<Give("usrp_gain")>>,
    freq        |-> <<Show("freq"), Give("usrp_center_freq"),
                      Give("equalizer_frequency")>>,
    chan_est    |-> <<Show("chan_est"), Give("equalizer_algorithm")>> ]

-----------------------------------------------------------------------------
(* wifi_soft_decision_receiver.py.  Equalizer 1_0 scales, equalizer 1 does *)
(* not.  The algorithm is a constant.                                      *)

soft_widgets ==
  [ window_size |-> "none", threshold |-> "edit", sync_length |-> "none",
    samp_rate |-> "combo", lo_offset |-> "combo", gain |-> "slider",
    freq |-> "combo", chan_est |-> "buttons" ]

soft_initial ==
  [ window_size |-> 1, threshold |-> 1, sync_length |-> 1, samp_rate |-> 2,
    lo_offset |-> 1, gain |-> 1, freq |-> 2, chan_est |-> 1 ]

soft_reads ==
  [ usrp_samp_rate |-> {"samp_rate"}, usrp_center_freq |-> {"freq", "lo_offset"},
    usrp_gain |-> {"gain"}, time_sink_samp_rate |-> {"samp_rate"},
    sync_long_length |-> {"sync_length"},
    equalizer_1_0_frequency |-> {"freq"}, equalizer_1_0_bandwidth |-> {"samp_rate"},
    equalizer_1_0_threshold |-> {"threshold"},
    equalizer_1_frequency |-> {"freq"}, equalizer_1_bandwidth |-> {"samp_rate"},
    equalizer_1_threshold |-> {"threshold"},
    average_1_length |-> {"window_size"}, average_0_length |-> {"window_size"},
    delay_dly |-> {"sync_length"} ]

soft_init ==
  Entry("threshold") \o Chooser("samp_rate") \o Chooser("lo_offset")
  \o Entry("gain") \o Chooser("freq")
  \o GiveAll(<<"usrp_samp_rate", "usrp_center_freq", "usrp_gain",
               "time_sink_samp_rate", "sync_long_length",
               "equalizer_1_0_frequency", "equalizer_1_0_bandwidth",
               "equalizer_1_0_threshold", "equalizer_1_frequency",
               "equalizer_1_bandwidth", "equalizer_1_threshold",
               "average_1_length", "average_0_length">>)
  \o Chooser("chan_est") \o <<Give("delay_dly")>>

soft_setters ==
  [ window_size |-> GiveAll(<<"average_1_length", "average_0_length">>),
    threshold   |-> <<Show("threshold")>>,
    sync_length |-> <<Give("delay_dly")>>,
    samp_rate   |-> <<Show("samp_rate"), Give("usrp_samp_rate"),
                      Give("time_sink_samp_rate"),
                      Give("equalizer_1_0_bandwidth"),
                      Give("equalizer_1_bandwidth")>>,
    lo_offset   |-> <<Show("lo_offset"), Give("usrp_center_freq")>>,
    gain        |-> <<Give("usrp_gain")>>,
    freq        |-> <<Show("freq"), Give("usrp_center_freq"),
                      Give("equalizer_1_0_frequency"),
                      Give("equalizer_1_frequency")>>,
    chan_est    |-> <<Show("chan_est")>> ]

-----------------------------------------------------------------------------
(* wifi_tx.py *)

tx_widgets ==
  [ tx_gain |-> "slider", samp_rate |-> "combo", pdu_length |-> "slider",
    out_buf_size |-> "none", lo_offset |-> "combo", interval |-> "slider",
    freq |-> "combo", encoding |-> "buttons" ]

tx_initial ==
  [ tx_gain |-> 1, samp_rate |-> 2, pdu_length |-> 1, out_buf_size |-> 1,
    lo_offset |-> 1, interval |-> 1, freq |-> 2, encoding |-> 1 ]

tx_reads ==
  [ phy_hier_bandwidth |-> {"samp_rate"}, phy_hier_encoding |-> {"encoding"},
    phy_hier_frequency |-> {"freq"}, usrp_samp_rate |-> {"samp_rate"},
    usrp_center_freq |-> {"freq", "lo_offset"}, usrp_gain |-> {"tx_gain"},
    strobe_msg |-> {"pdu_length"}, strobe_period |-> {"interval"} ]

tx_init ==
  Entry("tx_gain") \o Chooser("samp_rate") \o Entry("pdu_length")
  \o Chooser("lo_offset") \o Entry("interval") \o Chooser("freq")
  \o Chooser("encoding")
  \o GiveAll(<<"phy_hier_bandwidth", "phy_hier_encoding",
               "phy_hier_frequency", "usrp_samp_rate", "usrp_center_freq",
               "usrp_gain", "strobe_msg", "strobe_period">>)

tx_setters ==
  [ tx_gain      |-> <<Give("usrp_gain")>>,
    samp_rate    |-> <<Show("samp_rate"), Give("phy_hier_bandwidth"),
                       Give("usrp_samp_rate")>>,
    pdu_length   |-> <<Give("strobe_msg")>>,
    out_buf_size |-> <<>>,
    lo_offset    |-> <<Show("lo_offset"), Give("usrp_center_freq")>>,
    interval     |-> <<Give("strobe_period")>>,
    freq         |-> <<Show("freq"), Give("phy_hier_frequency"),
                       Give("usrp_center_freq")>>,
    encoding     |-> <<Show("encoding"), Give("phy_hier_encoding")>> ]

-----------------------------------------------------------------------------
(* top_block.py, with two channels and no widgets.  Its variable decim is  *)
(* computed from samp_rate, and kept here as a parameter: set_decim has    *)
(* only the setter of samp_rate for a caller.                              *)

top_widgets ==
  [ samp_rate |-> "none", window_size |-> "none", tran_wid |-> "none",
    sync_length |-> "none", rx_gain |-> "none", freq |-> "none",
    center_offset_2 |-> "none", center_offset_1 |-> "none" ]

top_initial == [ v \in DOMAIN top_widgets |-> 1 ]

top_reads ==
  [ decim |-> {"samp_rate"}, usrp_samp_rate |-> {"samp_rate"},
    usrp_center_freq_0 |-> {"freq"}, usrp_gain_0 |-> {"rx_gain"},
    usrp_center_freq_1 |-> {"freq"}, usrp_gain_1 |-> {"rx_gain"} ]

top_init ==
  GiveAll(<<"decim", "usrp_samp_rate", "usrp_center_freq_0", "usrp_gain_0",
            "usrp_center_freq_1", "usrp_gain_1">>)

top_setters ==
  [ samp_rate   |-> GiveAll(<<"usrp_samp_rate", "decim">>),
    window_size |-> <<>>, tran_wid |-> <<>>, sync_length |-> <<>>,
    rx_gain     |-> GiveAll(<<"usrp_gain_0", "usrp_gain_1">>),
    freq        |-> GiveAll(<<"usrp_center_freq_0", "usrp_center_freq_1">>),
    center_offset_2 |-> <<>>, center_offset_1 |-> <<>> ]

-----------------------------------------------------------------------------
Graph(widgets, initial, reads, init, setters) ==
  [ widgets |-> widgets, initial |-> initial, reads |-> reads, init |-> init,
    setters |-> setters ]

wifi_rx == Graph(rx_widgets, rx_initial, rx_reads, rx_init, rx_setters)

wifi_soft_decision_receiver ==
  Graph(soft_widgets, soft_initial, soft_reads, soft_init, soft_setters)

wifi_tx == Graph(tx_widgets, tx_initial, tx_reads, tx_init, tx_setters)

top_block == Graph(top_widgets, top_initial, top_reads, top_init, top_setters)

Graphs == {wifi_rx, wifi_soft_decision_receiver, wifi_tx, top_block}

=============================================================================
