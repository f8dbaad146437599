----------------------------- MODULE MCChannels -----------------------------
EXTENDS Channels

AllChannels == {"telegram", "slack", "qq", "dingtalk", "discord", "feishu", "whatsapp", "maixcam"}
=============================================================================
